------------------------- MODULE ChannelEventProofs -------------------------
(***************************************************************************)
(* Proofs about the way of the channel's events, from the server to what a *)
(* room shows.                                                             *)
(*                                                                         *)
(* The event layer (EventObserver), for every snapshot version, every      *)
(* length of the log and every number of losses: the safety of the jitter  *)
(* buffer in an arbitrary environment, whatever versions are pushed and    *)
(* whenever the timer and the recovery run; then, with the server and the  *)
(* network, its state invariant, the refinement of OrderedDelivery, and    *)
(* what becomes of the timer when recoveries are prompt.                   *)
(*                                                                         *)
(* The room (Room), for any number of streams and of events on their way:  *)
(* what it shows is what its channel lists.  That follows from the events  *)
(* alone: a thing is added once, and an original that a relaying           *)
(* publication stands for is never taken for the relaying one.             *)
(***************************************************************************)
EXTENDS EventObserver, Room, SequenceTheorems, FiniteSetTheorems, TLAPS

-----------------------------------------------------------------------------
(* The buffer.                                                             *)

(***************************************************************************)
(* An armed timer watches an event that is still held back or has been     *)
(* emitted since; this is what makes packetLostHappened imply a gap.       *)
(***************************************************************************)
ArmedWatchesEvent ==
  packetLifeTimer.phase = "armed" =>
    \/ packetLifeTimer.version \in eventBuffer
    \/ packetLifeTimer.version <= presentVersion

BufferInv ==
  /\ BufferTypeOK
  /\ EmittedInOrder
  /\ NothingReadyWaits
  /\ GapHasTimer
  /\ LossFlagMeansGap
  /\ ArmedWatchesEvent

\* handlePacketLifetime leaves a timer that covers the buffer it was given.
LEMMA HandlePacketLifetimeCovers ==
  ASSUME NEW buffer \in SUBSET Nat,
         NEW timer \in [phase : Phases, version : Nat],
         HandlePacketLifetime(buffer, timer)
  PROVE  /\ packetLifeTimer' \in [phase : Phases, version : Nat]
         /\ buffer # {} => packetLifeTimer'.phase # "unset"
         /\ \/ packetLifeTimer' = timer
            \/ packetLifeTimer'.version \in buffer
  <1>1. CASE timer.phase # "unset"
    BY <1>1 DEF HandlePacketLifetime
  <1>2. CASE timer.phase = "unset" /\ buffer = {}
    BY <1>2 DEF HandlePacketLifetime
  <1>3. CASE timer.phase = "unset" /\ buffer # {}
    <2>1. PICK v \in buffer : packetLifeTimer' = Timer("armed", v)
      BY <1>3 DEF HandlePacketLifetime
    <2>2. QED BY <2>1 DEF Timer, Phases
  <1>4. QED BY <1>1, <1>2, <1>3

\* resolveEvents emits the contiguous run that the expected event completes.
LEMMA ResolveEventsEmitsRun ==
  ASSUME BufferInv, ResolveEvents(eventBuffer \cup {expectNextVersion})
  PROVE  /\ presentVersion' \in Nat
         /\ eventBuffer' \subseteq eventBuffer
         /\ emitted' \in Seq(Nat)
         /\ EmittedInOrder'
         /\ NothingReadyWaits'
         /\ presentVersion' >= presentVersion
         /\ \A v \in eventBuffer : v \in eventBuffer' \/ v <= presentVersion'
  <1> DEFINE buffer == eventBuffer \cup {expectNextVersion}
  <1>1. PICK last \in buffer :
          /\ EndsRun(last, buffer)
          /\ presentVersion' = last
          /\ eventBuffer' = buffer \ (expectNextVersion .. last)
          /\ emitted' = emitted \o [i \in 1 .. last - presentVersion |->
                                      presentVersion + i]
    BY DEF ResolveEvents
  <1>2. /\ presentVersion \in Nat
        /\ eventBuffer \in SUBSET Nat
        /\ emitted \in Seq(Nat)
        /\ \A v \in eventBuffer : v > expectNextVersion
    BY DEF BufferInv, BufferTypeOK, NothingReadyWaits
  <1>3. last \in Nat /\ last >= expectNextVersion
    BY <1>1, <1>2 DEF expectNextVersion
  <1> DEFINE run == [i \in 1 .. last - presentVersion |-> presentVersion + i]
  <1>4. /\ run \in Seq(Nat)
        /\ Len(run) = last - presentVersion
        /\ \A i \in 1 .. Len(run) : run[i] = presentVersion + i
    BY <1>2, <1>3 DEF expectNextVersion
  <1>a. emitted' = emitted \o run
    BY <1>1
  <1> HIDE DEF run
  <1>b. /\ emitted \o run \in Seq(Nat)
        /\ Len(emitted \o run) = Len(emitted) + Len(run)
        /\ \A i \in 1 .. Len(emitted) + Len(run) :
             (emitted \o run)[i] = IF i <= Len(emitted) THEN emitted[i]
                                   ELSE run[i - Len(emitted)]
    <2>1. emitted \in Seq(Nat) /\ run \in Seq(Nat)
      BY <1>2, <1>4
    <2>2. QED BY <2>1, ConcatProperties, Zenon
  <1>5. /\ emitted' \in Seq(Nat)
        /\ Len(emitted') = Len(emitted) + Len(run)
        /\ \A i \in 1 .. Len(emitted') :
             emitted'[i] = IF i <= Len(emitted) THEN emitted[i]
                           ELSE run[i - Len(emitted)]
    BY <1>a, <1>b
  <1>6. EmittedInOrder'
    <2>1. /\ Len(emitted) = presentVersion - Snapshot
          /\ \A i \in 1 .. Len(emitted) : emitted[i] = Snapshot + i
      BY DEF BufferInv, EmittedInOrder
    <2>2. Len(emitted') = presentVersion' - Snapshot
      BY <1>1, <1>2, <1>3, <1>4, <1>5, <2>1, SnapshotAssumption
    <2>3. ASSUME NEW i \in 1 .. Len(emitted')
          PROVE  emitted'[i] = Snapshot + i
      <3>0. Len(emitted) \in Nat /\ Len(run) \in Nat
        BY <1>2, <1>4
      <3>1. CASE i <= Len(emitted)
        BY <3>0, <3>1, <1>5, <2>1
      <3>2. CASE i > Len(emitted)
        <4>1. i - Len(emitted) \in 1 .. Len(run)
          BY <3>0, <3>2, <1>5
        <4>2. emitted'[i] = presentVersion + (i - Len(emitted))
          BY <3>0, <3>2, <4>1, <1>4, <1>5
        <4>3. QED BY <4>2, <2>1, <3>0, <1>2, SnapshotAssumption
      <3>3. QED BY <3>0, <3>1, <3>2, <1>5
    <2>4. QED BY <2>2, <2>3 DEF EmittedInOrder
  <1>7. NothingReadyWaits'
    <2>1. last + 1 \notin buffer
      BY <1>1 DEF EndsRun
    <2>2. ASSUME NEW v \in eventBuffer' PROVE v > last + 1
      <3>1. v \in buffer /\ v \notin expectNextVersion .. last
        BY <1>1
      <3>2. v \in Nat /\ v >= expectNextVersion
        BY <3>1, <1>2 DEF expectNextVersion
      <3>3. v # last + 1
        BY <3>1, <2>1
      <3>4. QED BY <3>1, <3>2, <3>3, <1>2, <1>3 DEF expectNextVersion
    <2>3. QED BY <2>2, <1>1 DEF NothingReadyWaits, expectNextVersion
  <1>8. /\ eventBuffer' \subseteq eventBuffer
        /\ \A v \in eventBuffer : v \in eventBuffer' \/ v <= presentVersion'
    BY <1>1, <1>2, <1>3 DEF expectNextVersion
  <1>9. QED BY <1>1, <1>2, <1>3, <1>5, <1>6, <1>7, <1>8 DEF expectNextVersion

LEMMA BufferInitInv == BufferInit => BufferInv
  <1> SUFFICES ASSUME BufferInit PROVE BufferInv
    OBVIOUS
  <1>1. emitted = <<>> /\ <<>> \in Seq(Nat) /\ Len(<<>>) = 0
    BY DEF BufferInit
  <1>2. BufferTypeOK
    BY <1>1, SnapshotAssumption DEF BufferInit, BufferTypeOK, Unset, Timer, Phases
  <1>3. EmittedInOrder
    BY <1>1, SnapshotAssumption DEF BufferInit, EmittedInOrder
  <1>4. NothingReadyWaits /\ GapHasTimer /\ LossFlagMeansGap /\ ArmedWatchesEvent
    BY DEF BufferInit, NothingReadyWaits, GapHasTimer, LossFlagMeansGap,
       ArmedWatchesEvent, Unset, Timer
  <1>5. QED BY <1>2, <1>3, <1>4 DEF BufferInv

\* Every step of the buffer, one case for each action of BufferNext.
LEMMA BufferStepInv == BufferInv /\ [BufferNext]_bufferVars => BufferInv'
  <1> SUFFICES ASSUME BufferInv, [BufferNext]_bufferVars PROVE BufferInv'
    OBVIOUS
  <1> USE DEF BufferInv, BufferTypeOK
  <1>1. ASSUME NEW v \in Nat, PushDuplicate(v) PROVE BufferInv'
    BY <1>1 DEF PushDuplicate, bufferVars, EmittedInOrder, NothingReadyWaits,
       expectNextVersion, GapHasTimer, LossFlagMeansGap, ArmedWatchesEvent
  <1>2. ASSUME NEW v \in Nat, PushEarly(v) PROVE BufferInv'
    <2>1. /\ eventBuffer' = eventBuffer \cup {v}
          /\ v > expectNextVersion
          /\ UNCHANGED <<presentVersion, packetLostHappened, emitted>>
          /\ HandlePacketLifetime(eventBuffer', packetLifeTimer)
      BY <1>2 DEF PushEarly
    <2>2. eventBuffer' \in SUBSET Nat
      BY <2>1
    <2>3. /\ packetLifeTimer' \in [phase : Phases, version : Nat]
          /\ eventBuffer' # {} => packetLifeTimer'.phase # "unset"
          /\ \/ packetLifeTimer' = packetLifeTimer
             \/ packetLifeTimer'.version \in eventBuffer'
      BY <2>1, <2>2, HandlePacketLifetimeCovers
    <2>4. BufferTypeOK' BY <2>1, <2>2, <2>3
    <2>5. EmittedInOrder' BY <2>1 DEF EmittedInOrder
    <2>6. NothingReadyWaits'
      BY <2>1 DEF NothingReadyWaits, expectNextVersion
    <2>7. GapHasTimer' BY <2>3 DEF GapHasTimer
    <2>8. LossFlagMeansGap' BY <2>1 DEF LossFlagMeansGap
    <2>9. ArmedWatchesEvent' BY <2>1, <2>3 DEF ArmedWatchesEvent
    <2>10. QED BY <2>4, <2>5, <2>6, <2>7, <2>8, <2>9
  <1>3. ASSUME NEW v \in Nat, PushExpected(v) PROVE BufferInv'
    <2>1. /\ ResolveEvents(eventBuffer \cup {expectNextVersion})
          /\ packetLostHappened' = FALSE
          /\ packetLifeTimer' = packetLifeTimer
      BY <1>3 DEF PushExpected
    <2>2. /\ presentVersion' \in Nat
          /\ eventBuffer' \subseteq eventBuffer
          /\ emitted' \in Seq(Nat)
          /\ EmittedInOrder'
          /\ NothingReadyWaits'
          /\ presentVersion' >= presentVersion
          /\ \A w \in eventBuffer : w \in eventBuffer' \/ w <= presentVersion'
      BY <2>1, ResolveEventsEmitsRun
    <2>3. BufferTypeOK' BY <2>1, <2>2
    <2>4. GapHasTimer' BY <2>1, <2>2 DEF GapHasTimer
    <2>5. LossFlagMeansGap' BY <2>1 DEF LossFlagMeansGap
    <2>6. ArmedWatchesEvent' BY <2>1, <2>2 DEF ArmedWatchesEvent
    <2>7. QED BY <2>2, <2>3, <2>4, <2>5, <2>6
  <1>4. CASE TimerFindsNoGap \/ RecoverySettled
    <2>1. /\ UNCHANGED <<presentVersion, eventBuffer, packetLostHappened, emitted>>
          /\ HandlePacketLifetime(eventBuffer, Unset)
      BY <1>4 DEF TimerFindsNoGap, RecoverySettled
    <2>2. Unset \in [phase : Phases, version : Nat] /\ Unset.phase = "unset"
      BY DEF Unset, Timer, Phases
    <2>3. /\ packetLifeTimer' \in [phase : Phases, version : Nat]
          /\ eventBuffer # {} => packetLifeTimer'.phase # "unset"
          /\ \/ packetLifeTimer' = Unset
             \/ packetLifeTimer'.version \in eventBuffer
      BY <2>1, <2>2, HandlePacketLifetimeCovers
    <2>4. QED
      BY <2>1, <2>2, <2>3 DEF EmittedInOrder, NothingReadyWaits,
         expectNextVersion, GapHasTimer, LossFlagMeansGap, ArmedWatchesEvent
  <1>5. CASE TimerFindsLoss
    <2>1. eventBuffer # {}
      BY <1>5 DEF TimerFindsLoss, GapClosed, ArmedWatchesEvent
    <2>2. QED
      BY <1>5, <2>1 DEF TimerFindsLoss, Timer, Phases, RecoveryOffset,
         EmittedInOrder, NothingReadyWaits, expectNextVersion, GapHasTimer,
         LossFlagMeansGap, ArmedWatchesEvent
  <1>6. CASE TimerGivesUp \/ RecoverySubscribed \/ RecoveryRejected
    <2>1. /\ UNCHANGED <<presentVersion, eventBuffer, packetLostHappened, emitted>>
          /\ \E p \in {"settling", "spent"} :
               packetLifeTimer' = [phase |-> p, version |-> packetLifeTimer.version]
      BY <1>6 DEF TimerGivesUp, RecoverySubscribed, RecoveryRejected, Timer
    <2>2. /\ packetLifeTimer' \in [phase : Phases, version : Nat]
          /\ packetLifeTimer'.phase \notin {"unset", "armed"}
      BY <2>1 DEF Phases
    <2>3. QED
      BY <2>1, <2>2 DEF EmittedInOrder, NothingReadyWaits, expectNextVersion,
         GapHasTimer, LossFlagMeansGap, ArmedWatchesEvent
  <1>7. CASE UNCHANGED bufferVars
    BY <1>7 DEF bufferVars, EmittedInOrder, NothingReadyWaits,
       expectNextVersion, GapHasTimer, LossFlagMeansGap, ArmedWatchesEvent
  <1>8. QED
    BY <1>1, <1>2, <1>3, <1>4, <1>5, <1>6, <1>7 DEF BufferNext, Push, TimerFires

\* In any environment the state keeps its shape, onEvent emits the versions in
\* order without gap or repetition, nothing ready is held back, every gap has
\* a timer handle and the loss flag is set only while there is a gap.
THEOREM BufferSafety ==
  BufferSpec => [](/\ BufferTypeOK /\ EmittedInOrder /\ NothingReadyWaits
                   /\ GapHasTimer /\ LossFlagMeansGap)
  <1>1. BufferSpec => []BufferInv
    BY BufferInitInv, BufferStepInv, PTL DEF BufferSpec
  <1>2. BufferInv => /\ BufferTypeOK /\ EmittedInOrder /\ NothingReadyWaits
                     /\ GapHasTimer /\ LossFlagMeansGap
    BY DEF BufferInv
  <1>3. QED BY <1>1, <1>2, PTL

-----------------------------------------------------------------------------
(* The buffer with the server and the network.                             *)


\* A recovery asks for events after the snapshot, so what the server resends
\* is part of the log the replica has to see.
AsksAfterSnapshot ==
  packetLifeTimer.phase = "requesting" => packetLifeTimer.version > Snapshot

ObserverInv ==
  /\ BufferInv
  /\ TypeOK
  /\ HoldsPublished
  /\ AsksAfterSnapshot

LEMMA ObserverInitInv == Init => ObserverInv
  <1> SUFFICES ASSUME Init PROVE ObserverInv
    OBVIOUS
  <1>1. BufferInv
    BY BufferInitInv DEF Init
  <1>2. HoldsPublished /\ AsksAfterSnapshot
    BY SnapshotAssumption
    DEF Init, BufferInit, HoldsPublished, AsksAfterSnapshot, Unset, Timer
  <1>3. TypeOK
    <2>1. BufferTypeOK
      BY <1>1 DEF BufferInv
    <2>2. head \in Snapshot .. MaxVersion /\ losses \in 0 .. MaxLosses
      BY SnapshotAssumption, MaxVersionAssumption, MaxLossesAssumption DEF Init
    <2>3. /\ wire \subseteq Snapshot + 1 .. head
          /\ disposed \in BOOLEAN /\ prompt \in BOOLEAN
      BY DEF Init
    <2>4. QED BY <2>1, <2>2, <2>3 DEF TypeOK
  <1>4. QED
    BY <1>1, <1>2, <1>3 DEF ObserverInv

\* Every step of the observer is a step of the buffer or leaves it alone.
LEMMA ObserverStepsBuffer ==
  ASSUME TypeOK, [Next]_vars PROVE [BufferNext]_bufferVars
  <1>1. CASE Publish \/ Lose \/ Dispose \/ UNCHANGED vars
    BY <1>1 DEF Publish, Lose, Dispose, vars, bufferVars
  <1>2. ASSUME NEW v \in wire, OnEvent(v) PROVE BufferNext
    <2>1. v \in Nat
      BY SnapshotAssumption DEF TypeOK
    <2>2. QED BY <1>2, <2>1 DEF OnEvent, BufferNext
  <1>3. CASE OnTimer \/ RecoveryAnswered \/ RecoveryFails \/ RecoveryEnds
    BY <1>3 DEF OnTimer, RecoveryAnswered, RecoveryFails, RecoveryEnds, BufferNext
  <1>4. QED BY <1>1, <1>2, <1>3 DEF Next

\* resolveEvents stops at an event that is in the buffer.
LEMMA ResolvesToBuffered ==
  ASSUME NEW buffer, ResolveEvents(buffer)
  PROVE  presentVersion' \in buffer /\ eventBuffer' \subseteq buffer
  BY DEF ResolveEvents

LEMMA ObserverStepInv == ObserverInv /\ [Next]_vars => ObserverInv'
  <1> SUFFICES ASSUME ObserverInv, [Next]_vars PROVE ObserverInv'
    OBVIOUS
  <1>1. BufferInv'
    BY ObserverStepsBuffer, BufferStepInv DEF ObserverInv
  <1>2. BufferTypeOK'
    BY <1>1 DEF BufferInv
  <1>3. presentVersion \in Nat /\ presentVersion >= Snapshot
    <2>1. /\ presentVersion \in Nat
          /\ emitted \in Seq(Nat)
          /\ Len(emitted) = presentVersion - Snapshot
      BY DEF ObserverInv, BufferInv, BufferTypeOK, EmittedInOrder
    <2>2. Len(emitted) \in Nat
      BY <2>1
    <2>3. QED BY <2>1, <2>2, SnapshotAssumption
  <1> USE SnapshotAssumption, MaxVersionAssumption, MaxLossesAssumption
      DEF ObserverInv, TypeOK
  <1>4. CASE Publish
    <2>1. /\ head' = head + 1
          /\ head' \in Snapshot .. MaxVersion
          /\ wire' = wire \cup {head + 1}
          /\ UNCHANGED <<bufferVars, losses, disposed, prompt>>
      BY <1>4 DEF Publish
    <2>2. wire' \subseteq Snapshot + 1 .. head'
      <3>1. \A v \in wire : v \in Snapshot + 1 .. head
        OBVIOUS
      <3>2. QED BY <2>1, <3>1
    <2>3. HoldsPublished'
      <3>1. \A v \in eventBuffer : v \in 1 .. head
        BY DEF HoldsPublished
      <3>2. presentVersion' = presentVersion /\ eventBuffer' = eventBuffer
        BY <2>1 DEF bufferVars
      <3>3. QED BY <1>3, <2>1, <3>1, <3>2 DEF HoldsPublished
    <2>4. QED
      BY <1>1, <1>2, <2>1, <2>2, <2>3 DEF bufferVars, AsksAfterSnapshot
  <1>5. CASE Lose
    BY <1>1, <1>2, <1>5 DEF Lose, bufferVars, HoldsPublished, AsksAfterSnapshot
  <1>6. CASE Dispose
    BY <1>1, <1>2, <1>6 DEF Dispose, bufferVars, HoldsPublished, AsksAfterSnapshot
  <1>7. ASSUME NEW v \in wire, OnEvent(v) PROVE ObserverInv'
    <2>1. /\ head \in Snapshot .. MaxVersion
          /\ UNCHANGED <<head, losses, disposed, prompt>>
          /\ wire' \subseteq wire
          /\ v \in Snapshot + 1 .. head
      BY <1>7 DEF OnEvent
    <2>2. presentVersion <= head /\ eventBuffer \subseteq 1 .. head
      BY DEF HoldsPublished
    <2>3. HoldsPublished'
      <3>1. CASE PushDuplicate(v)
        BY <3>1, <2>1, <2>2 DEF PushDuplicate, bufferVars, HoldsPublished
      <3>2. CASE PushEarly(v)
        BY <3>2, <2>1, <2>2 DEF PushEarly, HoldsPublished
      <3>3. CASE PushExpected(v)
        <4>1. presentVersion' \in eventBuffer \cup {v}
              /\ eventBuffer' \subseteq eventBuffer \cup {v}
          BY <3>3, ResolvesToBuffered DEF PushExpected
        <4>2. QED BY <4>1, <2>1, <2>2 DEF HoldsPublished
      <3>4. QED BY <1>7, <3>1, <3>2, <3>3 DEF OnEvent, Push
    <2>4. AsksAfterSnapshot'
      <3>1. CASE PushDuplicate(v) \/ PushExpected(v)
        BY <3>1 DEF PushDuplicate, PushExpected, bufferVars, AsksAfterSnapshot
      <3>2. CASE PushEarly(v)
        BY <3>2 DEF PushEarly, HandlePacketLifetime, Timer, AsksAfterSnapshot
      <3>3. QED BY <1>7, <3>1, <3>2 DEF OnEvent, Push
    <2>5. QED BY <1>1, <1>2, <2>1, <2>3, <2>4
  <1>8. CASE OnTimer
    <2>1. /\ UNCHANGED networkVars
          /\ UNCHANGED <<presentVersion, eventBuffer>>
      BY <1>8 DEF OnTimer, TimerFires, TimerFindsNoGap, TimerFindsLoss, TimerGivesUp
    <2>2. AsksAfterSnapshot'
      <3>1. CASE TimerFindsNoGap
        BY <3>1 DEF TimerFindsNoGap, HandlePacketLifetime, Unset, Timer, AsksAfterSnapshot
      <3>2. CASE TimerFindsLoss
        BY <3>2, <1>3 DEF TimerFindsLoss, RecoveryOffset, expectNextVersion, Timer,
           AsksAfterSnapshot
      <3>3. CASE TimerGivesUp
        BY <3>3 DEF TimerGivesUp, Timer, AsksAfterSnapshot
      <3>4. QED BY <1>8, <3>1, <3>2, <3>3 DEF OnTimer, TimerFires
    <2>3. QED BY <1>1, <1>2, <2>1, <2>2 DEF networkVars, HoldsPublished
  <1>9. CASE RecoveryAnswered
    <2>1. /\ packetLifeTimer.phase = "requesting"
          /\ packetLifeTimer.version \in Nat
          /\ packetLifeTimer.version > Snapshot
      BY <1>9 DEF RecoveryAnswered, RecoverySubscribed, AsksAfterSnapshot, BufferTypeOK
    <2>2. wire' \subseteq Snapshot + 1 .. head
      <3>1. wire' = wire \cup (packetLifeTimer.version .. head)
        BY <1>9 DEF RecoveryAnswered
      <3>2. head \in Int
        OBVIOUS
      <3>3. \A v \in packetLifeTimer.version .. head : v \in Snapshot + 1 .. head
        BY <2>1, <3>2
      <3>4. QED BY <3>1, <3>3
    <2>3. QED
      BY <1>1, <1>2, <1>9, <2>2 DEF RecoveryAnswered, RecoverySubscribed, Timer,
         HoldsPublished, AsksAfterSnapshot
  <1>10. CASE RecoveryFails
    BY <1>1, <1>2, <1>10 DEF RecoveryFails, RecoveryRejected, networkVars, Timer,
       HoldsPublished, AsksAfterSnapshot
  <1>11. CASE RecoveryEnds
    BY <1>1, <1>2, <1>11 DEF RecoveryEnds, RecoverySettled, networkVars,
       HandlePacketLifetime, Unset, Timer, HoldsPublished, AsksAfterSnapshot
  <1>12. CASE UNCHANGED vars
    BY <1>1, <1>2, <1>12 DEF vars, bufferVars, networkVars, HoldsPublished,
       AsksAfterSnapshot
  <1>13. QED
    BY <1>4, <1>5, <1>6, <1>7, <1>8, <1>9, <1>10, <1>11, <1>12 DEF Next

\* The state of the event layer keeps its shape: the events under way and the
\* events asked for are events after the snapshot.
THEOREM ObserverTypeCorrect == Spec => []TypeOK
  <1>1. Spec => []ObserverInv
    BY ObserverInitInv, ObserverStepInv, PTL DEF Spec
  <1>2. ObserverInv => TypeOK
    BY DEF ObserverInv
  <1>3. QED BY <1>1, <1>2, PTL

\* The replica sees a prefix of the server's log: publishing is a step of the
\* log, resolveEvents a delivery, and every other step a stutter.
THEOREM ObserverDeliversInOrder == Spec => ImplementsOrderedDelivery
  <1>1. Init => Promise!Init
    BY DEF Init, BufferInit, Promise!Init
  <1>2. ObserverInv /\ [Next]_vars => [Promise!Next]_<<head, emitted>>
    <2> SUFFICES ASSUME ObserverInv, [Next]_vars
                 PROVE  [Promise!Next]_<<head, emitted>>
      OBVIOUS
    <2>1. CASE Publish
      BY <2>1 DEF Publish, bufferVars, Promise!Next, Promise!Publish
    <2>2. ASSUME NEW v \in wire, OnEvent(v)
          PROVE  [Promise!Next]_<<head, emitted>>
      <3>1. CASE PushDuplicate(v) \/ PushEarly(v)
        BY <2>2, <3>1 DEF OnEvent, PushDuplicate, PushEarly, bufferVars
      <3>2. CASE PushExpected(v)
        <4> DEFINE buffer == eventBuffer \cup {v}
        <4>1. PICK last \in buffer :
                /\ EndsRun(last, buffer)
                /\ emitted' = emitted \o [i \in 1 .. last - presentVersion |->
                                            presentVersion + i]
          BY <3>2 DEF PushExpected, ResolveEvents
        <4>2. /\ v = presentVersion + 1
              /\ presentVersion \in Nat
              /\ Len(emitted) = presentVersion - Snapshot
              /\ eventBuffer \subseteq Nat
              /\ \A w \in eventBuffer : w > presentVersion + 1
          BY <3>2 DEF PushExpected, expectNextVersion, ObserverInv, BufferInv,
             BufferTypeOK, EmittedInOrder, NothingReadyWaits
        <4>3. /\ head \in Nat
              /\ v <= head
              /\ eventBuffer \subseteq 1 .. head
          BY SnapshotAssumption, MaxVersionAssumption
          DEF ObserverInv, TypeOK, HoldsPublished
        <4>4. last \in Nat /\ last > presentVersion /\ last <= head
          BY <4>1, <4>2, <4>3
        <4>5. last - presentVersion \in 1 .. head - Snapshot - Len(emitted)
          BY <4>2, <4>3, <4>4, SnapshotAssumption
        <4>6. presentVersion = Snapshot + Len(emitted)
          BY <4>2, SnapshotAssumption
        <4>7. emitted' = emitted \o [i \in 1 .. last - presentVersion |->
                                        Snapshot + Len(emitted) + i]
          BY <4>1, <4>6
        <4>8. UNCHANGED head
          BY <2>2 DEF OnEvent
        <4>9. QED BY <4>5, <4>7, <4>8 DEF Promise!Next, Promise!Deliver
      <3>3. QED BY <2>2, <3>1, <3>2 DEF OnEvent, Push
    <2>3. CASE \/ Lose \/ Dispose \/ OnTimer \/ RecoveryAnswered
               \/ RecoveryFails \/ RecoveryEnds \/ UNCHANGED vars
      BY <2>3 DEF Lose, Dispose, OnTimer, TimerFires, TimerFindsNoGap,
         TimerFindsLoss, TimerGivesUp, RecoveryAnswered, RecoverySubscribed,
         RecoveryFails, RecoveryRejected, RecoveryEnds, RecoverySettled,
         networkVars, bufferVars, vars
    <2>4. QED BY <2>1, <2>2, <2>3 DEF Next
  <1>3. Spec => []ObserverInv
    BY ObserverInitInv, ObserverStepInv, PTL DEF Spec
  <1>4. QED
    BY <1>1, <1>2, <1>3, PTL DEF Spec, ImplementsOrderedDelivery, Promise!Spec

-----------------------------------------------------------------------------
(* Prompt recoveries.                                                      *)

(***************************************************************************)
(* With prompt recoveries the flag of a loss and the phases of the timer   *)
(* fit together.  A loss that is outstanding while its recovery is under   *)
(* way means that the offset of the recovery has not been emitted, which   *)
(* is what the end of the recovery waits for; so the timer is armed again  *)
(* with the flag down, and only a disposed observer, to which nothing is   *)
(* pushed any more, gives up.                                              *)
(***************************************************************************)
PromptInv ==
  prompt =>
    /\ packetLifeTimer.phase = "spent" => disposed /\ packetLostHappened
    /\ packetLifeTimer.phase = "armed" /\ ~disposed => ~packetLostHappened
    /\ packetLifeTimer.phase \in {"requesting", "settling"} /\ packetLostHappened =>
         presentVersion < packetLifeTimer.version

LEMMA PromptStepInv ==
  ASSUME ObserverInv, PromptInv, [Next]_vars
  PROVE  PromptInv'
  <1>1. /\ presentVersion \in Nat
        /\ packetLifeTimer \in [phase : Phases, version : Nat]
        /\ packetLifeTimer.phase = "unset" => ~packetLostHappened
    BY DEF ObserverInv, BufferInv, BufferTypeOK, GapHasTimer, LossFlagMeansGap
  <1>2. CASE Publish \/ Lose \/ UNCHANGED vars
    BY <1>2 DEF Publish, Lose, vars, networkVars, bufferVars, PromptInv
  <1>3. CASE Dispose
    BY <1>3 DEF Dispose, bufferVars, PromptInv
  <1>4. ASSUME NEW v \in wire, OnEvent(v) PROVE PromptInv'
    <2>1. ~disposed /\ UNCHANGED <<disposed, prompt>>
      BY <1>4 DEF OnEvent
    <2>2. CASE PushDuplicate(v)
      BY <2>1, <2>2 DEF PushDuplicate, bufferVars, PromptInv
    <2>3. CASE PushEarly(v)
      <3>1. /\ UNCHANGED <<presentVersion, packetLostHappened>>
            /\ \/ packetLifeTimer' = packetLifeTimer
               \/ packetLifeTimer.phase = "unset" /\ packetLifeTimer'.phase = "armed"
        BY <2>3 DEF PushEarly, HandlePacketLifetime, Timer
      <3>2. QED BY <1>1, <2>1, <3>1 DEF PromptInv
    <2>4. CASE PushExpected(v)
      BY <2>1, <2>4 DEF PushExpected, PromptInv
    <2>5. QED BY <1>4, <2>2, <2>3, <2>4 DEF OnEvent, Push
  <1>5. CASE OnTimer
    <2>1. UNCHANGED <<presentVersion, disposed, prompt>>
      BY <1>5 DEF OnTimer, networkVars, TimerFires, TimerFindsNoGap, TimerFindsLoss,
         TimerGivesUp
    <2>2. CASE TimerFindsNoGap
      BY <1>1, <2>1, <2>2 DEF TimerFindsNoGap, HandlePacketLifetime, Unset, Timer, PromptInv
    <2>3. CASE TimerFindsLoss
      BY <1>1, <2>1, <2>3 DEF TimerFindsLoss, RecoveryOffset, expectNextVersion, Timer,
         PromptInv
    <2>4. CASE TimerGivesUp
      BY <2>1, <2>4 DEF TimerGivesUp, Timer, PromptInv
    <2>5. QED BY <1>5, <2>2, <2>3, <2>4 DEF OnTimer, TimerFires
  <1>6. CASE RecoveryAnswered
    BY <1>6 DEF RecoveryAnswered, RecoverySubscribed, Timer, PromptInv
  <1>7. CASE RecoveryFails
    BY <1>7 DEF RecoveryFails, networkVars, PromptInv
  <1>8. CASE RecoveryEnds
    <2>1. /\ packetLifeTimer.phase = "settling"
          /\ UNCHANGED <<presentVersion, packetLostHappened, disposed, prompt>>
          /\ packetLifeTimer'.phase \in {"unset", "armed"}
          /\ prompt /\ ~disposed => presentVersion >= packetLifeTimer.version
      BY <1>8 DEF RecoveryEnds, RecoverySettled, HandlePacketLifetime, Unset, Timer,
         networkVars
    <2>2. QED BY <1>1, <2>1 DEF PromptInv
  <1>9. QED
    BY <1>2, <1>3, <1>4, <1>5, <1>6, <1>7, <1>8 DEF Next

\* When every recovery is answered in time, a loss that the arrival of the
\* missing event has resolved leaves the timer able to run again: the handle
\* is "spent" only once the observer is disposed (eventObserver.ts:126).
THEOREM PromptRecoveryWatchedAgain == Spec => []PromptRecoveryIsWatchedAgain
  <1>1. Init => PromptInv
    BY DEF Init, BufferInit, Unset, Timer, PromptInv
  <1>2. ObserverInv /\ PromptInv /\ [Next]_vars => PromptInv'
    BY PromptStepInv
  <1>3. Spec => []ObserverInv
    BY ObserverInitInv, ObserverStepInv, PTL DEF Spec
  <1>4. PromptInv => PromptRecoveryIsWatchedAgain
    BY DEF PromptInv, PromptRecoveryIsWatchedAgain
  <1>5. QED BY <1>1, <1>2, <1>3, <1>4, PTL DEF Spec

\* What BufferSafety says of the buffer in any environment holds of it behind
\* the server and the network: no event is held back without a timer handle.
THEOREM GapsHaveTimers == Spec => []GapHasTimer
  <1>1. Spec => []ObserverInv
    BY ObserverInitInv, ObserverStepInv, PTL DEF Spec
  <1>2. ObserverInv => GapHasTimer
    BY DEF ObserverInv, BufferInv
  <1>3. QED BY <1>1, <1>2, PTL

-----------------------------------------------------------------------------
(* The room.                                                               *)

Kinds == {"added", "removed"} \cup States
Messages == [kind : Kinds, thing : Things]

\* Relaying publications are those of streams that go through the bot.
RelaysForBot ==
  \A s \in p2p :
    /\ publish[s] # "forwarding"
    /\ relay(s) \notin there \cup listed
    /\ \A i \in DOMAIN coming : coming[i].thing # relay(s)

\* A thing is added once.
AddedOnce ==
  \A i \in DOMAIN coming : coming[i].kind = "added" =>
    /\ coming[i].thing \notin seen
    /\ \A j \in DOMAIN coming : coming[j] = coming[i] => j = i

TogglesStreams ==
  \A i \in DOMAIN coming : coming[i].kind \in States =>
    \E s \in Streams : coming[i].thing \in {origin(s), relay(s)}

JoinedSeen == join = "resolved" => local \in seen

RoomInv ==
  /\ RoomTypeOK
  /\ RelaysForBot
  /\ AddedOnce
  /\ TogglesStreams
  /\ JoinedSeen
  /\ RoomShowsChannel
  /\ LocalMemberIsShown

\* The parts of the type that the server and the channel write, those that the
\* room writes, and those of the calls.
ChannelTyped ==
  /\ p2p \subseteq Streams
  /\ there \subseteq Things /\ listed \subseteq seen /\ seen \subseteq Things
  /\ coming \in Seq(Messages)
  /\ hidden \subseteq Streams \ p2p

ShownTyped ==
  /\ members \in {None, "remote", "local"} /\ localRoomMember \in BOOLEAN
  /\ publications \subseteq Streams /\ subscriptions \subseteq Streams

CallsTyped ==
  /\ join \in Call
  /\ publish \in [Streams -> Call \cup {"forwarding"}]
  /\ unpublish \in [Streams -> Call]
  /\ asked \in [Streams -> [Requests -> Call \cup {"answered"}]]

TogglesTyped ==
  /\ toggle \in [Streams -> [States -> Call]]
  /\ awaited \in [Streams -> [States -> SUBSET {"request", "origin", "relay"}]]
  /\ state \in [Streams -> States \cup {"canceled"}]

LEMMA RoomTypesInParts ==
  RoomTypeOK <=> ChannelTyped /\ ShownTyped /\ CallsTyped /\ TogglesTyped
                 /\ overtaken \subseteq Things
  BY DEF RoomTypeOK, ChannelTyped, ShownTyped, CallsTyped, TogglesTyped, Messages, Kinds

\* What the room tells apart: the things by their kind and their stream.
LEMMA ThingsDiffer ==
  /\ local \in Things /\ bot \in Things /\ local # bot
  /\ \A s \in Streams :
       /\ origin(s) \in Things /\ relay(s) \in Things /\ subscription(s) \in Things
       /\ origin(s)[1] = "origin" /\ origin(s)[2] = s
       /\ relay(s)[1] = "relay" /\ relay(s)[2] = s
       /\ subscription(s)[1] = "subscription" /\ subscription(s)[2] = s
       /\ local \notin {origin(s), relay(s), subscription(s)}
       /\ bot \notin {origin(s), relay(s), subscription(s)}
  /\ local[1] = "member" /\ bot[1] = "bot"
  /\ \A thing \in Things :
       /\ thing[1] \in {"member", "bot", "origin", "relay", "subscription"}
       /\ thing[1] = "member" => thing = local
       /\ thing[1] = "bot" => thing = bot
       /\ thing[1] = "origin" => thing[2] \in Streams /\ thing = origin(thing[2])
       /\ thing[1] = "relay" => thing[2] \in Streams /\ thing = relay(thing[2])
       /\ thing[1] = "subscription" => thing[2] \in Streams /\ thing = subscription(thing[2])
<1>1. /\ local[1] = "member" /\ bot[1] = "bot"
      /\ \A s \in Streams :
           /\ origin(s)[1] = "origin" /\ origin(s)[2] = s
           /\ relay(s)[1] = "relay" /\ relay(s)[2] = s
           /\ subscription(s)[1] = "subscription" /\ subscription(s)[2] = s
  BY DEF local, bot, origin, relay, subscription
<1>2. /\ local \in Things /\ bot \in Things
      /\ \A s \in Streams : origin(s) \in Things /\ relay(s) \in Things /\ subscription(s) \in Things
      /\ \A thing \in Things :
           \/ thing = local \/ thing = bot
           \/ \E s \in Streams : thing = origin(s) \/ thing = relay(s) \/ thing = subscription(s)
  BY DEF Things
<1>3. /\ local # bot
      /\ \A s \in Streams : /\ local \notin {origin(s), relay(s), subscription(s)}
                             /\ bot \notin {origin(s), relay(s), subscription(s)}
  BY <1>1
<1>4. ASSUME NEW thing \in Things
      PROVE  /\ thing[1] \in {"member", "bot", "origin", "relay", "subscription"}
             /\ thing[1] = "member" => thing = local
             /\ thing[1] = "bot" => thing = bot
             /\ thing[1] = "origin" => thing[2] \in Streams /\ thing = origin(thing[2])
             /\ thing[1] = "relay" => thing[2] \in Streams /\ thing = relay(thing[2])
             /\ thing[1] = "subscription" => thing[2] \in Streams /\ thing = subscription(thing[2])
  BY <1>1, <1>2
<1> QED
  BY <1>1, <1>2, <1>3, <1>4

LEMMA RoomInitInv == RoomInit => RoomInv
<1> SUFFICES ASSUME RoomInit PROVE RoomInv
  OBVIOUS
<1>1. ChannelTyped /\ ShownTyped /\ overtaken \subseteq Things
  <2>1. <<>> \in Seq(Messages) /\ {bot} \subseteq Things
    BY ThingsDiffer
  <2>2. ChannelTyped
    BY <2>1 DEF RoomInit, ChannelTyped
  <2> QED
    BY <2>2 DEF RoomInit, ShownTyped
<1>2. CallsTyped /\ TogglesTyped
  BY DEF RoomInit, CallsTyped, TogglesTyped, Call, Requests, States
<1>3. RelaysForBot /\ AddedOnce /\ TogglesStreams /\ JoinedSeen /\ LocalMemberIsShown
  BY ThingsDiffer DEF RoomInit, RelaysForBot, AddedOnce, TogglesStreams, JoinedSeen,
     LocalMemberIsShown
<1>4. RoomShowsChannel
  BY ThingsDiffer DEF RoomInit, RoomShowsChannel, shown
<1> QED
  BY <1>1, <1>2, <1>3, <1>4, RoomTypesInParts DEF RoomInv

-----------------------------------------------------------------------------
(* Events on their way.                                                    *)

LEMMA AppendedMessages ==
  ASSUME NEW queue \in Seq(Messages), NEW msg \in Messages
  PROVE  /\ Append(queue, msg) \in Seq(Messages)
         /\ \A i \in DOMAIN Append(queue, msg) :
              \/ i \in DOMAIN queue /\ Append(queue, msg)[i] = queue[i]
              \/ i = Len(queue) + 1 /\ Append(queue, msg)[i] = msg
  OBVIOUS

LEMMA JoinedMessages ==
  ASSUME NEW queue \in Seq(Messages), NEW more \in Seq(Messages)
  PROVE  /\ queue \o more \in Seq(Messages)
         /\ \A i \in DOMAIN (queue \o more) :
              \/ i \in DOMAIN queue /\ (queue \o more)[i] = queue[i]
              \/ \E j \in DOMAIN more : (queue \o more)[i] = more[j]
<1>1. /\ queue \o more \in Seq(Messages) /\ Len(queue \o more) = Len(queue) + Len(more)
      /\ \A i \in 1 .. Len(queue) + Len(more) :
           (queue \o more)[i] = IF i <= Len(queue) THEN queue[i] ELSE more[i - Len(queue)]
  OBVIOUS
<1> SUFFICES ASSUME NEW i \in DOMAIN (queue \o more)
             PROVE  \/ i \in DOMAIN queue /\ (queue \o more)[i] = queue[i]
                    \/ \E j \in DOMAIN more : (queue \o more)[i] = more[j]
  BY <1>1
<1>2. i \in 1 .. Len(queue) + Len(more)
  BY <1>1
<1>3. CASE i <= Len(queue)
  BY <1>1, <1>2, <1>3
<1>4. CASE ~(i <= Len(queue))
  <2>1. i - Len(queue) \in DOMAIN more
    BY <1>2, <1>4
  <2> QED
    BY <1>1, <1>2, <1>4, <2>1
<1> QED
  BY <1>3, <1>4

LEMMA TailMessages ==
  ASSUME NEW queue \in Seq(Messages), queue # <<>>
  PROVE  /\ Tail(queue) \in Seq(Messages)
         /\ Head(queue) = queue[1] /\ 1 \in DOMAIN queue
         /\ \A i \in DOMAIN Tail(queue) :
              i + 1 \in DOMAIN queue /\ Tail(queue)[i] = queue[i + 1] /\ i + 1 # 1
  OBVIOUS

-----------------------------------------------------------------------------
(* The server.                                                             *)

\* What the server's steps leave alone.
ServerSteps ==
  /\ p2p' = p2p /\ listed' = listed /\ seen' = seen /\ hidden' = hidden
  /\ UNCHANGED <<room, overtaken>>
  /\ UNCHANGED <<join, publish, unpublish, asked, toggle, state>>

LEMMA ServerFrame ==
  ASSUME RoomInv, ServerSteps, ChannelTyped', TogglesTyped',
         RelaysForBot', AddedOnce', TogglesStreams'
  PROVE  RoomInv'
<1>1. /\ publications' = publications /\ subscriptions' = subscriptions
      /\ members' = members /\ localRoomMember' = localRoomMember
      /\ p2p' = p2p /\ listed' = listed /\ seen' = seen /\ hidden' = hidden
      /\ overtaken' = overtaken /\ join' = join /\ publish' = publish
      /\ unpublish' = unpublish /\ asked' = asked
  BY DEF ServerSteps, room
<1>2. ShownTyped' /\ CallsTyped' /\ overtaken' \subseteq Things
  BY <1>1, RoomTypesInParts DEF RoomInv, ShownTyped, CallsTyped
<1>3. JoinedSeen' /\ LocalMemberIsShown'
  BY <1>1 DEF RoomInv, JoinedSeen, LocalMemberIsShown
<1>4. RoomShowsChannel'
  BY <1>1 DEF RoomInv, RoomShowsChannel, shown
<1>5. RoomTypeOK'
  <2>1. /\ p2p' \subseteq Streams
        /\ there' \subseteq Things /\ listed' \subseteq seen' /\ seen' \subseteq Things
        /\ coming' \in Seq([kind : {"added", "removed"} \cup States, thing : Things])
        /\ hidden' \subseteq Streams \ p2p'
    BY DEF ChannelTyped, Messages, Kinds
  <2> QED
    BY <1>2, <2>1 DEF RoomTypeOK, ShownTyped, CallsTyped, TogglesTyped
<1> QED
  BY <1>3, <1>4, <1>5 DEF RoomInv

\* Nothing that is on its way is added by a step that only sends other events.
LEMMA OthersSent ==
  ASSUME RoomInv, seen' = seen, p2p' = p2p, publish' = publish,
         NEW sent \in SUBSET Messages,
         \A i \in DOMAIN coming' : \/ i \in DOMAIN coming /\ coming'[i] = coming[i]
                                   \/ coming'[i] \in sent,
         \A msg \in sent :
           /\ msg.kind # "added"
           /\ msg.kind \in States => \E s \in Streams : msg.thing \in {origin(s), relay(s)}
           /\ msg.thing \in there,
         there' \subseteq there, listed' = listed
  PROVE  RelaysForBot' /\ AddedOnce' /\ TogglesStreams'
<1>1. RelaysForBot'
  BY DEF RoomInv, RelaysForBot, relay
<1>2. AddedOnce'
  <2> SUFFICES ASSUME NEW i \in DOMAIN coming', coming'[i].kind = "added"
               PROVE  /\ coming'[i].thing \notin seen
                      /\ \A j \in DOMAIN coming' : coming'[j] = coming'[i] => j = i
    BY DEF AddedOnce
  <2>1. i \in DOMAIN coming /\ coming'[i] = coming[i]
    OBVIOUS
  <2>2. \A j \in DOMAIN coming' : coming'[j] = coming'[i] =>
          j \in DOMAIN coming /\ coming'[j] = coming[j]
    OBVIOUS
  <2> QED
    BY <2>1, <2>2 DEF RoomInv, AddedOnce
<1>3. TogglesStreams'
  BY DEF RoomInv, TogglesStreams, origin, relay
<1> QED
  BY <1>1, <1>2, <1>3

LEMMA AddInv ==
  ASSUME RoomInv, NEW thing \in Things, Add(thing),
         \A s \in p2p : thing # relay(s)
  PROVE  RoomInv'
<1> DEFINE msg == event("added", thing)
<1>1. /\ ChannelTyped /\ TogglesTyped /\ msg \in Messages
      /\ msg.kind = "added" /\ msg.thing = thing
  BY RoomTypesInParts DEF RoomInv, event, Messages, Kinds
<1>2. /\ coming' \in Seq(Messages)
      /\ \A i \in DOMAIN coming' : \/ i \in DOMAIN coming /\ coming'[i] = coming[i]
                                   \/ i = Len(coming) + 1 /\ coming'[i] = msg
  BY <1>1, AppendedMessages DEF Add, ChannelTyped
<1> HIDE DEF msg
<1>3. ServerSteps /\ there' = there \cup {thing}
  BY DEF Add, ServerSteps, calls
<1>4. awaited' = awaited /\ toggle' = toggle /\ state' = state
  BY DEF Add, calls
<1>5. ChannelTyped' /\ TogglesTyped'
  BY <1>1, <1>2, <1>3, <1>4 DEF ChannelTyped, TogglesTyped, ServerSteps
<1>6. /\ thing \notin there \cup seen
      /\ \A i \in DOMAIN coming : coming[i].thing # thing
  BY DEF Add
<1>7. AddedOnce'
  <2> SUFFICES ASSUME NEW i \in DOMAIN coming', coming'[i].kind = "added"
               PROVE  /\ coming'[i].thing \notin seen
                      /\ \A j \in DOMAIN coming' : coming'[j] = coming'[i] => j = i
    BY <1>3 DEF AddedOnce, ServerSteps
  <2>1. CASE i \in DOMAIN coming /\ coming'[i] = coming[i]
    <3>1. \A j \in DOMAIN coming' : coming'[j] = coming'[i] =>
            j \in DOMAIN coming /\ coming'[j] = coming[j]
      BY <1>1, <1>2, <1>6, <2>1
    <3> QED
      BY <2>1, <3>1 DEF RoomInv, AddedOnce
  <2>2. CASE i = Len(coming) + 1 /\ coming'[i] = msg
    BY <1>1, <1>2, <1>6, <2>2
  <2> QED
    BY <1>2, <2>1, <2>2
<1>8. TogglesStreams'
  BY <1>1, <1>2 DEF RoomInv, TogglesStreams, States, origin, relay
<1>9. RelaysForBot'
  BY <1>1, <1>2, <1>3 DEF RoomInv, RelaysForBot, ServerSteps, relay
<1> QED
  BY <1>3, <1>5, <1>7, <1>8, <1>9, ServerFrame

LEMMA ServerAddsInv == RoomInv /\ ServerAdds => RoomInv'
<1> SUFFICES ASSUME RoomInv, ServerAdds PROVE RoomInv'
  OBVIOUS
<1>1. CASE join = "waiting" /\ Add(local)
  BY <1>1, ThingsDiffer, AddInv, RoomTypesInParts DEF RoomInv, ChannelTyped
<1>2. ASSUME NEW s \in Streams, publish[s] = "waiting", Add(origin(s)) PROVE RoomInv'
  <2>1. \A t \in p2p : origin(s) # relay(t)
    BY ThingsDiffer, RoomTypesInParts DEF RoomInv, ChannelTyped
  <2> QED
    BY <1>2, <2>1, ThingsDiffer, AddInv
<1>3. ASSUME NEW s \in Streams, publish[s] = "forwarding", Add(relay(s)) PROVE RoomInv'
  <2>1. \A t \in p2p : relay(s) # relay(t)
    BY <1>3, ThingsDiffer, RoomTypesInParts DEF RoomInv, RelaysForBot, ChannelTyped
  <2> QED
    BY <1>3, <2>1, ThingsDiffer, AddInv
<1>4. ASSUME NEW s \in Streams, Add(subscription(s)) PROVE RoomInv'
  <2>1. \A t \in p2p : subscription(s) # relay(t)
    BY ThingsDiffer, RoomTypesInParts DEF RoomInv, ChannelTyped
  <2> QED
    BY <1>4, <2>1, ThingsDiffer, AddInv
<1> QED
  BY <1>1, <1>2, <1>3, <1>4 DEF ServerAdds

LEMMA ServerRemovesInv ==
  ASSUME RoomInv, NEW thing \in Things, ServerRemoves(thing)
  PROVE  RoomInv'
<1> DEFINE msg == event("removed", thing)
<1>1. /\ ChannelTyped /\ TogglesTyped /\ msg \in Messages
      /\ msg.kind = "removed" /\ msg.thing = thing
  BY RoomTypesInParts DEF RoomInv, event, Messages, Kinds
<1>2. /\ coming' \in Seq(Messages)
      /\ \A i \in DOMAIN coming' : \/ i \in DOMAIN coming /\ coming'[i] = coming[i]
                                   \/ coming'[i] \in {msg}
  BY <1>1, AppendedMessages DEF ServerRemoves, ChannelTyped
<1> HIDE DEF msg
<1>3. ServerSteps /\ there' = there \ {thing} /\ thing \in there
  BY DEF ServerRemoves, ServerSteps, calls
<1>4. awaited' = awaited /\ toggle' = toggle /\ state' = state
  BY DEF ServerRemoves, calls
<1>5. ChannelTyped' /\ TogglesTyped'
  BY <1>1, <1>2, <1>3, <1>4 DEF ChannelTyped, TogglesTyped, ServerSteps
<1>6. RelaysForBot' /\ AddedOnce' /\ TogglesStreams'
  <2>1. /\ seen' = seen /\ p2p' = p2p /\ publish' = publish /\ listed' = listed
        /\ there' \subseteq there /\ {msg} \in SUBSET Messages
    BY <1>1, <1>3 DEF ServerSteps
  <2>2. \A x \in {msg} :
          /\ x.kind # "added"
          /\ x.kind \in States => \E s \in Streams : x.thing \in {origin(s), relay(s)}
          /\ x.thing \in there
    BY <1>1, <1>3 DEF States
  <2> QED
    BY <1>2, <2>1, <2>2, OthersSent
<1> QED
  BY <1>3, <1>5, <1>6, ServerFrame

LEMMA PairIsFinite ==
  ASSUME NEW x, NEW y
  PROVE  IsFiniteSet({x, y})
<1>1. IsFiniteSet({x}) /\ {x, y} = {x} \cup {y}
  BY FS_Singleton
<1> QED
  BY <1>1, FS_AddElement

LEMMA ServerTogglesInv ==
  ASSUME RoomInv, NEW s \in Streams, NEW d \in States, ServerToggles(s, d)
  PROVE  RoomInv'
<1> DEFINE told == {event(d, t) : t \in {origin(s), relay(s)} \cap there}
<1>1. ChannelTyped /\ TogglesTyped
  BY RoomTypesInParts DEF RoomInv
<1>2. \A x \in told : /\ x \in Messages /\ x.kind = d
                      /\ x.thing \in {origin(s), relay(s)} \cap there
  BY <1>1 DEF event, Messages, Kinds, ChannelTyped
<1>3. PICK order \in SetToSeqs(told) : coming' = coming \o order
  BY DEF ServerToggles
<1>4. order \in Seq(told)
  <2>1. told \subseteq {event(d, origin(s)), event(d, relay(s))}
    OBVIOUS
  <2>2. IsFiniteSet(told)
    BY <2>1, PairIsFinite, FS_Subset
  <2>3. Cardinality(told) \in Nat
    BY <2>2, FS_CardinalityType
  <2> HIDE DEF told
  <2> QED
    BY <2>3, <1>3 DEF SetToSeqs
<1> HIDE DEF told
<1>5. order \in Seq(Messages) /\ \A j \in DOMAIN order : order[j] \in told
  BY <1>2, <1>4
<1>6. /\ coming' \in Seq(Messages)
      /\ \A i \in DOMAIN coming' : \/ i \in DOMAIN coming /\ coming'[i] = coming[i]
                                   \/ coming'[i] \in told
  BY <1>1, <1>3, <1>5, JoinedMessages DEF ChannelTyped
<1>7. ServerSteps /\ there' = there
  BY DEF ServerToggles, ServerSteps
<1>8. ChannelTyped'
  BY <1>1, <1>6, <1>7 DEF ChannelTyped, ServerSteps
<1>9. TogglesTyped'
  <2>1. awaited' = [awaited EXCEPT ![s][d] = @ \ {"request"}] /\ toggle' = toggle /\ state' = state
    BY DEF ServerToggles
  <2> QED
    BY <1>1, <2>1 DEF TogglesTyped
<1>10. RelaysForBot' /\ AddedOnce' /\ TogglesStreams'
  <2>1. /\ seen' = seen /\ p2p' = p2p /\ publish' = publish /\ listed' = listed
        /\ there' \subseteq there /\ told \in SUBSET Messages
    BY <1>2, <1>7 DEF ServerSteps
  <2>2. \A x \in told :
          /\ x.kind # "added"
          /\ x.kind \in States => \E t \in Streams : x.thing \in {origin(t), relay(t)}
          /\ x.thing \in there
    BY <1>2 DEF States
  <2> QED
    BY <1>6, <2>1, <2>2, OthersSent
<1> QED
  BY <1>7, <1>8, <1>9, <1>10, ServerFrame

-----------------------------------------------------------------------------
(* The handlers of the channel's events.                                   *)

\* What has been handled is not on its way any more.
LEMMA HandledMessages ==
  ASSUME RoomInv, coming # <<>>, coming' = Tail(coming), NEW thing, thing = Head(coming).thing,
         p2p' = p2p, there' = there, publish' = publish,
         listed' \subseteq listed \cup {thing},
         seen' = seen \/ (Head(coming).kind = "added" /\ seen' = seen \cup {thing})
  PROVE  /\ RelaysForBot' /\ AddedOnce' /\ TogglesStreams'
         /\ coming' \in Seq(Messages) /\ thing \in Things
         /\ \A s \in p2p : thing # relay(s)
         /\ Head(coming).kind \in Kinds
         /\ Head(coming).kind = "added" => thing \notin seen
         /\ Head(coming).kind \in States => \E s \in Streams : thing \in {origin(s), relay(s)}
<1>1. coming \in Seq(Messages)
  BY RoomTypesInParts DEF RoomInv, ChannelTyped
<1>2. /\ coming' \in Seq(Messages) /\ Head(coming) = coming[1] /\ 1 \in DOMAIN coming
      /\ \A i \in DOMAIN coming' :
           i + 1 \in DOMAIN coming /\ coming'[i] = coming[i + 1] /\ i + 1 # 1
  BY <1>1, TailMessages
<1>3. \A i \in DOMAIN coming : coming[i] \in Messages
  BY <1>1
<1>4. /\ thing \in Things /\ \A s \in p2p : thing # relay(s)
      /\ Head(coming).kind \in Kinds
      /\ Head(coming).kind = "added" => thing \notin seen
      /\ Head(coming).kind \in States => \E s \in Streams : thing \in {origin(s), relay(s)}
  BY <1>2, <1>3 DEF RoomInv, RelaysForBot, AddedOnce, TogglesStreams, Messages
<1>5. RelaysForBot'
  <2> SUFFICES ASSUME NEW s \in p2p
               PROVE  /\ publish'[s] # "forwarding" /\ relay(s) \notin there' \cup listed'
                      /\ \A i \in DOMAIN coming' : coming'[i].thing # relay(s)
    BY DEF RelaysForBot, relay
  <2>1. /\ publish[s] # "forwarding" /\ relay(s) \notin there \cup listed
        /\ \A i \in DOMAIN coming : coming[i].thing # relay(s)
    BY DEF RoomInv, RelaysForBot
  <2>2. relay(s) # thing
    BY <1>4
  <2> QED
    BY <1>2, <2>1, <2>2
<1>6. TogglesStreams'
  BY <1>2 DEF RoomInv, TogglesStreams, origin, relay
<1>7. AddedOnce'
  <2> SUFFICES ASSUME NEW i \in DOMAIN coming', coming'[i].kind = "added"
               PROVE  /\ coming'[i].thing \notin seen'
                      /\ \A j \in DOMAIN coming' : coming'[j] = coming'[i] => j = i
    BY DEF AddedOnce
  <2>1. /\ i + 1 \in DOMAIN coming /\ coming'[i] = coming[i + 1] /\ i + 1 # 1
        /\ i \in Int
    BY <1>2
  <2>2. /\ coming[i + 1].thing \notin seen
        /\ \A j \in DOMAIN coming : coming[j] = coming[i + 1] => j = i + 1
    BY <2>1 DEF RoomInv, AddedOnce
  <2>3. ASSUME coming[i + 1].thing = thing, Head(coming).kind = "added"
        PROVE  FALSE
    <3>1. coming[1] = coming[i + 1]
      BY <1>2, <1>3, <2>1, <2>3 DEF Messages
    <3> QED
      BY <1>2, <2>1, <2>2, <3>1
  <2>4. \A j \in DOMAIN coming' : coming'[j] = coming'[i] => j = i
    <3> SUFFICES ASSUME NEW j \in DOMAIN coming', coming'[j] = coming'[i]
                 PROVE  j = i
      OBVIOUS
    <3>1. j + 1 \in DOMAIN coming /\ coming'[j] = coming[j + 1] /\ j \in Int
      BY <1>2
    <3>2. j + 1 = i + 1
      BY <2>1, <2>2, <3>1
    <3> QED
      BY <2>1, <3>1, <3>2
  <2> QED
    BY <2>1, <2>2, <2>3, <2>4
<1> QED
  BY <1>2, <1>4, <1>5, <1>6, <1>7

\* The one publication that is acceptable for a stream is the one shown.
LEMMA AcceptableIsShown ==
  ASSUME p2p \subseteq Streams, NEW thing \in Things, \A s \in p2p : thing # relay(s)
  PROVE  /\ IsAcceptablePublication(thing) => thing[2] \in Streams
         /\ \A s \in Streams : /\ IsAcceptablePublication(thing) /\ thing[2] = s => thing = shown(s)
                               /\ s \notin hidden' /\ thing = shown(s) =>
                                    IsAcceptablePublication(thing) /\ thing[2] = s
<1>1. IsAcceptablePublication(thing) => thing[2] \in Streams
  BY ThingsDiffer DEF IsAcceptablePublication
<1>2. ASSUME NEW s \in Streams, IsAcceptablePublication(thing), thing[2] = s
      PROVE  thing = shown(s)
  BY <1>2, ThingsDiffer DEF IsAcceptablePublication, shown
<1>3. ASSUME NEW s \in Streams, s \notin hidden', thing = shown(s)
      PROVE  IsAcceptablePublication(thing) /\ thing[2] = s
  BY <1>3, ThingsDiffer DEF IsAcceptablePublication, shown
<1> QED
  BY <1>1, <1>2, <1>3

LEMMA ToldType ==
  ASSUME CallsTyped, NEW thing, NEW call \in Requests, Told(thing, call)
  PROVE  asked' \in [Streams -> [Requests -> Call \cup {"answered"}]]
<1> SUFFICES ASSUME NEW s \in Streams
             PROVE  asked'[s] \in [Requests -> Call \cup {"answered"}]
  BY DEF Told
<1>1. asked[s] \in [Requests -> Call \cup {"answered"}] /\ "resolved" \in Call
  BY DEF CallsTyped, Call
<1>2. asked'[s] \in {[asked[s] EXCEPT ![call] = "resolved"], asked[s]}
  BY DEF Told
<1> QED
  BY <1>1, <1>2

\* The parts of the invariant together make the next state's.
LEMMA RoomInvParts ==
  ASSUME ChannelTyped', ShownTyped', CallsTyped', TogglesTyped', overtaken' \subseteq Things,
         RelaysForBot', AddedOnce', TogglesStreams', JoinedSeen', RoomShowsChannel',
         LocalMemberIsShown'
  PROVE  RoomInv'
<1>1. /\ p2p' \subseteq Streams
      /\ there' \subseteq Things /\ listed' \subseteq seen' /\ seen' \subseteq Things
      /\ coming' \in Seq([kind : {"added", "removed"} \cup States, thing : Things])
      /\ hidden' \subseteq Streams \ p2p'
  BY DEF ChannelTyped, Messages, Kinds
<1>2. RoomTypeOK'
  BY <1>1 DEF RoomTypeOK, ShownTyped, CallsTyped, TogglesTyped
<1> QED
  BY <1>2 DEF RoomInv

LEMMA HandleAddedInv ==
  ASSUME RoomInv, coming # <<>>, coming' = Tail(coming), p2p' = p2p, there' = there,
         overtaken' = overtaken, NEW thing, thing = Head(coming).thing,
         Head(coming).kind = "added", HandleAdded(thing)
  PROVE  RoomInv'
<1>1. /\ ChannelTyped /\ ShownTyped /\ CallsTyped /\ TogglesTyped /\ overtaken \subseteq Things
  BY RoomTypesInParts DEF RoomInv
<1>2. /\ listed' = listed \cup {thing} /\ seen' = seen \cup {thing}
      /\ localRoomMember' = localRoomMember /\ join' = join /\ publish' = publish
      /\ unpublish' = unpublish /\ toggle' = toggle /\ awaited' = awaited /\ state' = state
  BY DEF HandleAdded
<1>3. /\ RelaysForBot' /\ AddedOnce' /\ TogglesStreams'
      /\ coming' \in Seq(Messages) /\ thing \in Things
      /\ \A s \in p2p : thing # relay(s)
      /\ thing \notin seen
  BY <1>2, HandledMessages
<1>4. /\ hidden \subseteq hidden' /\ hidden' \subseteq Streams \ p2p
  BY <1>1, <1>3, ThingsDiffer DEF HandleAdded, FindsNoOrigin, ChannelTyped
<1>5. ChannelTyped'
  BY <1>1, <1>2, <1>3, <1>4 DEF ChannelTyped
<1>6. publications' = IF IsAcceptablePublication(thing)
                      THEN publications \cup {thing[2]} ELSE publications
  BY DEF HandleAdded, HandleOnStreamPublish
<1>7. /\ IsAcceptablePublication(thing) => thing[2] \in Streams
      /\ \A s \in Streams : /\ IsAcceptablePublication(thing) /\ thing[2] = s => thing = shown(s)
                            /\ s \notin hidden' /\ thing = shown(s) =>
                                 IsAcceptablePublication(thing) /\ thing[2] = s
  BY <1>1, <1>3, AcceptableIsShown DEF ChannelTyped
<1>8. subscriptions' = IF thing[1] = "subscription"
                       THEN subscriptions \cup {thing[2]} ELSE subscriptions
  BY DEF HandleAdded, HandleOnStreamSubscribe
<1>9. members' = IF thing = local /\ members = None THEN "remote" ELSE members
  BY DEF HandleAdded, HandleOnMemberJoin
<1>10. ShownTyped'
  BY <1>1, <1>2, <1>3, <1>6, <1>7, <1>8, <1>9, ThingsDiffer DEF ShownTyped
<1>11. CallsTyped' /\ TogglesTyped'
  BY <1>1, <1>2, ToldType DEF HandleAdded, HandleOnStreamSubscribe, CallsTyped, TogglesTyped,
                              Requests
<1>12. JoinedSeen'
  BY <1>2 DEF RoomInv, JoinedSeen
<1>13. RoomShowsChannel'
  <2>1. ASSUME NEW s \in Streams \ hidden', shown(s)' \notin overtaken'
        PROVE  s \in publications' <=> shown(s)' \in listed'
    <3>1. s \in Streams \ hidden /\ shown(s)' = shown(s) /\ shown(s) \notin overtaken
      BY <1>4, <2>1 DEF shown
    <3>2. s \in publications <=> shown(s) \in listed
      BY <3>1 DEF RoomInv, RoomShowsChannel
    <3> QED
      BY <1>2, <1>6, <1>7, <2>1, <3>1, <3>2
  <2>2. subscriptions' = {s \in Streams : subscription(s) \in listed'}
    BY <1>1, <1>2, <1>3, <1>8, ThingsDiffer DEF RoomInv, RoomShowsChannel
  <2>3. {s \in Streams : subscription(s) \in listed'} = {s \in Streams : (subscription(s) \in listed)'}
    BY DEF subscription
  <2> QED
    BY <2>1, <2>2, <2>3 DEF RoomShowsChannel, subscription
<1>14. LocalMemberIsShown'
  <2> SUFFICES ASSUME join = "resolved", local \notin overtaken
               PROVE  /\ localRoomMember' <=> local \in listed'
                      /\ members' = IF local \in listed' THEN "local" ELSE None
    BY <1>2 DEF LocalMemberIsShown, local
  <2>1. local \in seen
    BY DEF RoomInv, JoinedSeen
  <2> QED
    BY <1>2, <1>3, <1>9, <2>1 DEF RoomInv, LocalMemberIsShown
<1> QED
  BY <1>1, <1>3, <1>5, <1>10, <1>11, <1>12, <1>13, <1>14, RoomInvParts

LEMMA HandleRemovedInv ==
  ASSUME RoomInv, coming # <<>>, coming' = Tail(coming), p2p' = p2p, there' = there,
         overtaken' = overtaken, NEW thing, thing = Head(coming).thing,
         HandleRemoved(thing)
  PROVE  RoomInv'
<1>1. /\ ChannelTyped /\ ShownTyped /\ CallsTyped /\ TogglesTyped /\ overtaken \subseteq Things
  BY RoomTypesInParts DEF RoomInv
<1>2. /\ listed' = listed \ {thing} /\ seen' = seen /\ hidden' = hidden
      /\ join' = join /\ publish' = publish /\ toggle' = toggle /\ awaited' = awaited
  BY DEF HandleRemoved
<1>3. /\ RelaysForBot' /\ AddedOnce' /\ TogglesStreams'
      /\ coming' \in Seq(Messages) /\ thing \in Things
      /\ \A s \in p2p : thing # relay(s)
  BY <1>2, HandledMessages
<1>4. ChannelTyped'
  BY <1>1, <1>2, <1>3 DEF ChannelTyped
<1>5. publications' = IF IsAcceptablePublication(thing)
                      THEN publications \ {thing[2]} ELSE publications
  BY DEF HandleRemoved, HandleOnStreamUnpublish
<1>6. /\ \A s \in Streams : /\ IsAcceptablePublication(thing) /\ thing[2] = s => thing = shown(s)
                            /\ s \notin hidden' /\ thing = shown(s) =>
                                 IsAcceptablePublication(thing) /\ thing[2] = s
  BY <1>1, <1>3, AcceptableIsShown DEF ChannelTyped
<1>7. subscriptions' = IF thing[1] = "subscription"
                       THEN subscriptions \ {thing[2]} ELSE subscriptions
  BY DEF HandleRemoved, HandleOnStreamUnsubscribe
<1>8. /\ members' = IF thing = local THEN None ELSE members
      /\ localRoomMember' = (localRoomMember /\ ~(thing = local /\ members = "local"))
  BY DEF HandleRemoved, HandleOnMemberLeft
<1>9. ShownTyped'
  <2>1. localRoomMember' \in BOOLEAN
    BY <1>8, Zenon
  <2> QED
    BY <1>1, <1>5, <1>7, <1>8, <2>1 DEF ShownTyped
<1>10. CallsTyped'
  <2>1. unpublish' \in [Streams -> Call]
    BY <1>1 DEF HandleRemoved, HandleOnStreamUnpublish, CallsTyped, Call
  <2> QED
    BY <1>1, <1>2, <2>1, ToldType DEF HandleRemoved, HandleOnStreamUnsubscribe, CallsTyped, Requests
<1>11. TogglesTyped'
  <2>1. state' \in [Streams -> States \cup {"canceled"}]
    BY <1>1 DEF HandleRemoved, TogglesTyped
  <2> QED
    BY <1>1, <1>2, <2>1 DEF TogglesTyped
<1>12. JoinedSeen'
  BY <1>2 DEF RoomInv, JoinedSeen, local
<1>13. RoomShowsChannel'
  <2>1. ASSUME NEW s \in Streams \ hidden', shown(s)' \notin overtaken'
        PROVE  s \in publications' <=> shown(s)' \in listed'
    <3>1. s \in Streams \ hidden /\ shown(s)' = shown(s) /\ shown(s) \notin overtaken
      BY <1>2, <2>1 DEF shown
    <3>2. s \in publications <=> shown(s) \in listed
      BY <3>1 DEF RoomInv, RoomShowsChannel
    <3> QED
      BY <1>2, <1>5, <1>6, <2>1, <3>1, <3>2
  <2>2. subscriptions' = {s \in Streams : subscription(s) \in listed'}
    BY <1>1, <1>2, <1>3, <1>7, ThingsDiffer DEF RoomInv, RoomShowsChannel
  <2> QED
    BY <2>1, <2>2 DEF RoomShowsChannel, subscription
<1>14. LocalMemberIsShown'
  <2> SUFFICES ASSUME join = "resolved", local \notin overtaken
               PROVE  /\ localRoomMember' <=> local \in listed'
                      /\ members' = IF local \in listed' THEN "local" ELSE None
    BY <1>2 DEF LocalMemberIsShown, local
  <2> QED
    BY <1>2, <1>8, NoneAssumption DEF RoomInv, LocalMemberIsShown
<1> QED
  BY <1>1, <1>3, <1>4, <1>9, <1>10, <1>11, <1>12, <1>13, <1>14, RoomInvParts

LEMMA HandleToggledInv ==
  ASSUME RoomInv, coming # <<>>, coming' = Tail(coming), p2p' = p2p, there' = there,
         overtaken' = overtaken, NEW thing, thing = Head(coming).thing,
         NEW d \in States, d = Head(coming).kind, HandleToggled(thing, d)
  PROVE  RoomInv'
<1>1. /\ ChannelTyped /\ ShownTyped /\ CallsTyped /\ TogglesTyped /\ overtaken \subseteq Things
  BY RoomTypesInParts DEF RoomInv
<1>2. /\ listed' = listed /\ seen' = seen /\ hidden' = hidden /\ join' = join
      /\ publish' = publish /\ unpublish' = unpublish /\ asked' = asked
      /\ members' = members /\ localRoomMember' = localRoomMember
      /\ publications' = publications /\ subscriptions' = subscriptions
  BY DEF HandleToggled, room
<1>3. /\ RelaysForBot' /\ AddedOnce' /\ TogglesStreams'
      /\ coming' \in Seq(Messages)
      /\ \E s \in Streams : thing \in {origin(s), relay(s)}
  BY <1>2, HandledMessages
<1>4. ChannelTyped' /\ ShownTyped' /\ CallsTyped'
  BY <1>1, <1>2, <1>3 DEF ChannelTyped, ShownTyped, CallsTyped
<1>5. TogglesTyped'
  <2> DEFINE s == thing[2]
  <2>1. s \in Streams
    BY <1>3, ThingsDiffer
  <2>2. awaited' \in [Streams -> [States -> SUBSET {"request", "origin", "relay"}]]
    <3>1. awaited' = [awaited EXCEPT ![s] = [awaited[s] EXCEPT ![d] = awaited[s][d] \ {thing[1]}]]
      BY DEF HandleToggled, Heard
    <3>2. [awaited[s] EXCEPT ![d] = awaited[s][d] \ {thing[1]}]
             \in [States -> SUBSET {"request", "origin", "relay"}]
      BY <1>1, <2>1 DEF TogglesTyped
    <3> QED
      BY <1>1, <3>1, <3>2 DEF TogglesTyped
  <2>3. toggle' = [toggle EXCEPT ![s][d] =
          IF @ = "waiting" /\ awaited'[s][d] = {} THEN "resolved" ELSE @]
    BY DEF HandleToggled
  <2>4. toggle' \in [Streams -> [States -> Call]]
    <3>1. PICK c : c = [toggle[s] EXCEPT ![d] =
                          IF toggle[s][d] = "waiting" /\ awaited'[s][d] = {} THEN "resolved" ELSE toggle[s][d]]
      OBVIOUS
    <3>2. toggle' = [toggle EXCEPT ![s] = c]
      BY <2>3, <3>1
    <3>3. c \in [States -> Call]
      <4>1. toggle[s] \in [States -> Call] /\ "resolved" \in Call
        BY <1>1, <2>1 DEF TogglesTyped, Call
      <4> QED
        BY <3>1, <4>1
    <3> QED
      BY <1>1, <3>2, <3>3 DEF TogglesTyped
  <2>5. state' \in [Streams -> States \cup {"canceled"}]
    BY <1>1, <2>1 DEF HandleToggled, TogglesTyped
  <2> QED
    BY <2>2, <2>4, <2>5 DEF TogglesTyped
<1>6. JoinedSeen' /\ LocalMemberIsShown'
  BY <1>2 DEF RoomInv, JoinedSeen, LocalMemberIsShown, local
<1>7. RoomShowsChannel'
  BY <1>2 DEF RoomInv, RoomShowsChannel, shown
<1> QED
  BY <1>1, <1>3, <1>4, <1>5, <1>6, <1>7, RoomInvParts

LEMMA HandleEventInv == RoomInv /\ HandleEvent => RoomInv'
<1> SUFFICES ASSUME RoomInv, HandleEvent PROVE RoomInv'
  OBVIOUS
<1> DEFINE e == Head(coming)
<1>1. /\ coming # <<>> /\ coming' = Tail(coming)
      /\ p2p' = p2p /\ there' = there /\ overtaken' = overtaken
  BY DEF HandleEvent
<1>2. e.kind \in Kinds
  <2>1. coming \in Seq(Messages) /\ coming # <<>>
    BY <1>1, RoomTypesInParts DEF RoomInv, ChannelTyped
  <2>2. Head(coming) \in Messages
    BY <2>1
  <2> QED
    BY <2>2 DEF Messages
<1>3. CASE e.kind = "added"
  BY <1>1, <1>3, HandleAddedInv DEF HandleEvent
<1>4. CASE e.kind = "removed"
  BY <1>1, <1>4, HandleRemovedInv DEF HandleEvent
<1>5. CASE e.kind \in States
  BY <1>1, <1>5, HandleToggledInv DEF HandleEvent, States
<1> QED
  BY <1>2, <1>3, <1>4, <1>5 DEF Kinds

-----------------------------------------------------------------------------
(* The calls.                                                              *)

\* What the calls leave alone, and what they say about the bot's streams.
CallSteps ==
  /\ UNCHANGED channel
  /\ \A s \in p2p : publish'[s] # "forwarding"

LEMMA CallFrame ==
  ASSUME RoomInv, CallSteps, ShownTyped', CallsTyped', TogglesTyped', overtaken' \subseteq Things,
         JoinedSeen', RoomShowsChannel', LocalMemberIsShown'
  PROVE  RoomInv'
<1>1. /\ p2p' = p2p /\ there' = there /\ coming' = coming
      /\ listed' = listed /\ seen' = seen /\ hidden' = hidden
  BY DEF CallSteps, channel
<1>2. ChannelTyped'
  BY <1>1, RoomTypesInParts DEF RoomInv, ChannelTyped
<1>3. RelaysForBot'
  BY <1>1 DEF CallSteps, RoomInv, RelaysForBot, relay
<1>4. AddedOnce' /\ TogglesStreams'
  BY <1>1 DEF RoomInv, AddedOnce, TogglesStreams, origin, relay
<1> QED
  BY <1>2, <1>3, <1>4, RoomInvParts

\* A call that shows nothing.
LEMMA QuietCallFrame ==
  ASSUME RoomInv, CallSteps, UNCHANGED <<room, overtaken>>,
         CallsTyped', TogglesTyped', join' # "resolved" \/ join' = join
  PROVE  RoomInv'
<1>1. /\ publications' = publications /\ subscriptions' = subscriptions
      /\ members' = members /\ localRoomMember' = localRoomMember
      /\ p2p' = p2p /\ listed' = listed /\ seen' = seen /\ hidden' = hidden
      /\ overtaken' = overtaken
  BY DEF CallSteps, room, channel
<1>2. ShownTyped' /\ overtaken' \subseteq Things
  BY <1>1, RoomTypesInParts DEF RoomInv, ShownTyped
<1>3. JoinedSeen' /\ LocalMemberIsShown'
  BY <1>1 DEF RoomInv, JoinedSeen, LocalMemberIsShown
<1>4. RoomShowsChannel'
  BY <1>1 DEF RoomInv, RoomShowsChannel, shown
<1> QED
  BY <1>2, <1>3, <1>4, CallFrame

LEMMA JoinStepsInv == RoomInv /\ (Join \/ JoinFails) => RoomInv'
<1> SUFFICES ASSUME RoomInv, Join \/ JoinFails PROVE RoomInv'
  OBVIOUS
<1>1. /\ UNCHANGED <<channel, room, overtaken>> /\ join' \in {"waiting", "rejected"}
      /\ publish' = publish /\ unpublish' = unpublish /\ asked' = asked
      /\ toggle' = toggle /\ awaited' = awaited /\ state' = state
  BY DEF Join, JoinFails
<1>2. CallsTyped' /\ TogglesTyped'
  BY <1>1, RoomTypesInParts DEF RoomInv, CallsTyped, TogglesTyped, Call
<1>3. CallSteps
  BY <1>1 DEF CallSteps, RoomInv, RelaysForBot
<1> QED
  BY <1>1, <1>2, <1>3, QuietCallFrame

LEMMA JoinContinuesInv == RoomInv /\ JoinContinues => RoomInv'
<1> SUFFICES ASSUME RoomInv, JoinContinues PROVE RoomInv'
  OBVIOUS
<1>1. /\ join' = "resolved" /\ local \in seen
      /\ members' = "local" /\ localRoomMember' = TRUE
      /\ overtaken' = IF local \in listed THEN overtaken ELSE overtaken \cup {local}
      /\ UNCHANGED channel
      /\ publications' = publications /\ subscriptions' = subscriptions
      /\ publish' = publish /\ unpublish' = unpublish /\ asked' = asked
      /\ toggle' = toggle /\ awaited' = awaited /\ state' = state
  BY DEF JoinContinues, ShowLocalMember, NoteOvertaken
<1>2. p2p' = p2p /\ listed' = listed /\ seen' = seen /\ hidden' = hidden
  BY <1>1 DEF channel
<1>3. CallsTyped' /\ TogglesTyped' /\ ShownTyped' /\ overtaken' \subseteq Things
  BY <1>1, RoomTypesInParts, ThingsDiffer
  DEF RoomInv, CallsTyped, TogglesTyped, ShownTyped, Call
<1>4. CallSteps
  BY <1>1 DEF CallSteps, RoomInv, RelaysForBot
<1>5. JoinedSeen' /\ LocalMemberIsShown'
  BY <1>1, <1>2 DEF JoinedSeen, LocalMemberIsShown, local
<1>6. RoomShowsChannel'
  <2>1. ASSUME NEW s \in Streams \ hidden', shown(s)' \notin overtaken'
        PROVE  s \in publications' <=> shown(s)' \in listed'
    <3>1. s \in Streams \ hidden /\ shown(s)' = shown(s) /\ shown(s) \notin overtaken
      BY <1>1, <1>2, <2>1 DEF shown
    <3> QED
      BY <1>1, <1>2, <3>1 DEF RoomInv, RoomShowsChannel
  <2> QED
    BY <1>1, <1>2, <2>1 DEF RoomInv, RoomShowsChannel
<1> QED
  BY <1>3, <1>4, <1>5, <1>6, CallFrame

\* A publication that has gone before it is shown has been overtaken.
LEMMA PublishedInv ==
  ASSUME RoomInv, NEW s \in Streams, PublishAsP2P(s) \/ Forwarded(s)
  PROVE  RoomInv'
<1>1. /\ publish' = [publish EXCEPT ![s] = "resolved"]
      /\ publications' = publications \cup {s}
      /\ overtaken' = IF shown(s) \in listed THEN overtaken ELSE overtaken \cup {shown(s)}
      /\ UNCHANGED channel
      /\ members' = members /\ localRoomMember' = localRoomMember
      /\ subscriptions' = subscriptions /\ join' = join /\ unpublish' = unpublish
      /\ asked' = asked /\ toggle' = toggle /\ awaited' = awaited /\ state' = state
  BY DEF PublishAsP2P, Forwarded, Published, NoteOvertaken
<1>2. p2p' = p2p /\ listed' = listed /\ seen' = seen /\ hidden' = hidden
  BY <1>1 DEF channel
<1>3. CallsTyped' /\ TogglesTyped' /\ ShownTyped'
  BY <1>1, RoomTypesInParts DEF RoomInv, CallsTyped, TogglesTyped, ShownTyped, Call
<1>4. CallSteps
  BY <1>1, RoomTypesInParts DEF CallSteps, RoomInv, RelaysForBot, CallsTyped, ChannelTyped
<1>5. shown(s) \in Things /\ shown(s) # local /\ overtaken' \subseteq Things
  BY <1>1, ThingsDiffer, RoomTypesInParts DEF RoomInv, shown
<1>6. JoinedSeen' /\ LocalMemberIsShown'
  <2>1. local \in overtaken' <=> local \in overtaken
    BY <1>1, <1>5
  <2> QED
    BY <1>1, <1>2, <2>1 DEF RoomInv, JoinedSeen, LocalMemberIsShown, local
<1>7. RoomShowsChannel'
  <2>1. ASSUME NEW t \in Streams \ hidden', shown(t)' \notin overtaken'
        PROVE  t \in publications' <=> shown(t)' \in listed'
    <3>1. t \in Streams \ hidden /\ shown(t)' = shown(t) /\ shown(t) \notin overtaken
      BY <1>1, <1>2, <2>1 DEF shown
    <3>2. t = s => shown(t) \in listed
      BY <1>1, <2>1, <3>1
    <3> QED
      BY <1>1, <1>2, <3>1, <3>2 DEF RoomInv, RoomShowsChannel
  <2> QED
    BY <1>1, <1>2, <2>1 DEF RoomInv, RoomShowsChannel, subscription
<1> QED
  BY <1>3, <1>4, <1>5, <1>6, <1>7, CallFrame

\* The other calls show nothing.
LEMMA QuietCallsInv ==
  ASSUME RoomInv, NEW s \in Streams,
         \/ PublishStream(s) \/ PublishAsSFU(s) \/ PublishFails(s)
         \/ Unpublish(s) \/ UnpublishTimesOut(s)
         \/ \E call \in Requests : Ask(s, call) \/ Answer(s, call)
         \/ \E d \in States : Toggle(s, d) \/ ToggleFails(s, d)
  PROVE  RoomInv'
<1>0. CallsTyped /\ TogglesTyped /\ ChannelTyped
  BY RoomTypesInParts DEF RoomInv
<1>1. CASE PublishStream(s) \/ PublishAsSFU(s) \/ PublishFails(s)
  <2>1. /\ \E to \in {"waiting", "forwarding", "rejected"} :
             /\ publish' = [publish EXCEPT ![s] = to]
             /\ to = "forwarding" => s \notin p2p
        /\ UNCHANGED <<channel, room, overtaken>> /\ join' = join
        /\ unpublish' = unpublish /\ asked' = asked
        /\ toggle' = toggle /\ awaited' = awaited /\ state' = state
    BY <1>1 DEF PublishStream, PublishAsSFU, PublishFails
  <2>2. CallsTyped' /\ TogglesTyped'
    BY <1>0, <2>1 DEF CallsTyped, TogglesTyped, Call
  <2>3. CallSteps
    BY <1>0, <2>1 DEF CallSteps, RoomInv, RelaysForBot, CallsTyped, ChannelTyped
  <2> QED
    BY <2>1, <2>2, <2>3, QuietCallFrame
<1>2. CASE Unpublish(s) \/ UnpublishTimesOut(s)
  <2>1. /\ \E to \in {"waiting", "rejected"} : unpublish' = [unpublish EXCEPT ![s] = to]
        /\ UNCHANGED <<channel, room, overtaken>> /\ join' = join
        /\ publish' = publish /\ asked' = asked
        /\ toggle' = toggle /\ awaited' = awaited /\ state' = state
    BY <1>2 DEF Unpublish, UnpublishTimesOut
  <2>2. CallsTyped' /\ TogglesTyped'
    BY <1>0, <2>1 DEF CallsTyped, TogglesTyped, Call
  <2>3. CallSteps
    BY <2>1 DEF CallSteps, RoomInv, RelaysForBot
  <2> QED
    BY <2>1, <2>2, <2>3, QuietCallFrame
<1>3. ASSUME NEW call \in Requests, Ask(s, call) \/ Answer(s, call)
      PROVE  RoomInv'
  <2>1. /\ \E to \in {"waiting", "answered", "rejected"} :
             asked' = [asked EXCEPT ![s][call] = to]
        /\ UNCHANGED <<channel, room, overtaken>> /\ join' = join
        /\ publish' = publish /\ unpublish' = unpublish
        /\ toggle' = toggle /\ awaited' = awaited /\ state' = state
    BY <1>3 DEF Ask, Answer
  <2>2. CallsTyped' /\ TogglesTyped'
    BY <1>0, <2>1 DEF CallsTyped, TogglesTyped, Call
  <2>3. CallSteps
    BY <2>1 DEF CallSteps, RoomInv, RelaysForBot
  <2> QED
    BY <2>1, <2>2, <2>3, QuietCallFrame
<1>4. ASSUME NEW d \in States, Toggle(s, d) \/ ToggleFails(s, d)
      PROVE  RoomInv'
  <2>1. /\ UNCHANGED <<channel, room, overtaken>> /\ join' = join
        /\ publish' = publish /\ unpublish' = unpublish /\ asked' = asked
    BY <1>4 DEF Toggle, ToggleFails
  <2>2. /\ \E to \in Call : toggle' = [toggle EXCEPT ![s][d] = to]
        /\ \/ awaited' = awaited
           \/ \E parts \in SUBSET {"request", "origin", "relay"} :
                awaited' = [awaited EXCEPT ![s][d] = parts]
        /\ state' = state \/ \E to \in States : state' = [state EXCEPT ![s] = to]
    <3>1. CASE Toggle(s, d) /\ state[s] = d
      BY <3>1 DEF Toggle, Call
    <3>2. CASE Toggle(s, d) /\ state[s] # d
      <4>1. toggle' = [toggle EXCEPT ![s][d] = "waiting"]
        BY <3>2 DEF Toggle
      <4>2. awaited' = [awaited EXCEPT ![s][d] =
                          {"request", "origin"} \cup (IF s \in p2p THEN {} ELSE {"relay"})]
        BY <3>2 DEF Toggle
      <4>3. {"request", "origin"} \cup (IF s \in p2p THEN {} ELSE {"relay"})
              \in SUBSET {"request", "origin", "relay"}
        OBVIOUS
      <4>4. state' = state \/ \E to \in States : state' = [state EXCEPT ![s] = to]
        BY <1>0, <3>2 DEF Toggle, TogglesTyped
      <4> QED
        BY <4>1, <4>2, <4>3, <4>4 DEF Call
    <3>3. CASE ToggleFails(s, d)
      BY <3>3 DEF ToggleFails, Call
    <3> QED
      BY <1>4, <3>1, <3>2, <3>3
  <2>3. TogglesTyped'
    <3>1. toggle' \in [Streams -> [States -> Call]]
      BY <1>0, <2>2 DEF TogglesTyped
    <3>2. awaited' \in [Streams -> [States -> SUBSET {"request", "origin", "relay"}]]
      <4>1. awaited \in [Streams -> [States -> SUBSET {"request", "origin", "relay"}]]
        BY <1>0 DEF TogglesTyped
      <4>2. ASSUME NEW parts \in SUBSET {"request", "origin", "relay"},
                   awaited' = [awaited EXCEPT ![s][d] = parts]
            PROVE  awaited' \in [Streams -> [States -> SUBSET {"request", "origin", "relay"}]]
        BY <4>1, <4>2
      <4> QED
        BY <2>2, <4>1, <4>2
    <3>3. state' \in [Streams -> States \cup {"canceled"}]
      BY <1>0, <2>2 DEF TogglesTyped
    <3> QED
      BY <3>1, <3>2, <3>3 DEF TogglesTyped
  <2>4. CallsTyped' /\ CallSteps
    BY <1>0, <2>1 DEF CallsTyped, CallSteps, RoomInv, RelaysForBot
  <2> QED
    BY <2>1, <2>3, <2>4, QuietCallFrame
<1> QED
  BY <1>1, <1>2, <1>3, <1>4

LEMMA RoomNextInv == RoomInv /\ [RoomNext]_roomVars => RoomInv'
<1> SUFFICES ASSUME RoomInv, [RoomNext]_roomVars PROVE RoomInv'
  OBVIOUS
<1>1. CASE UNCHANGED roomVars
  <2>1. /\ UNCHANGED <<channel, room, overtaken>> /\ join' = join
        /\ publish' = publish /\ unpublish' = unpublish /\ asked' = asked
        /\ toggle' = toggle /\ awaited' = awaited /\ state' = state
    BY <1>1 DEF roomVars, calls
  <2>2. CallsTyped' /\ TogglesTyped' /\ CallSteps
    BY <2>1, RoomTypesInParts DEF RoomInv, CallsTyped, TogglesTyped, CallSteps, RelaysForBot
  <2> QED
    BY <2>1, <2>2, QuietCallFrame
<1>2. ASSUME NEW s \in Streams,
             \/ Proceeds(s) \/ PublishStream(s) \/ Unpublish(s)
             \/ \E call \in Requests : Ask(s, call) \/ Answer(s, call)
             \/ \E d \in States : ServerToggles(s, d) \/ Toggle(s, d) \/ ToggleFails(s, d)
      PROVE  RoomInv'
  BY <1>2, PublishedInv, QuietCallsInv, ServerTogglesInv DEF Proceeds
<1> QED
  BY <1>1, <1>2, ServerAddsInv, ServerRemovesInv, HandleEventInv, JoinStepsInv,
     JoinContinuesInv DEF RoomNext

\* Everything the room, its calls and the server write has its type.
THEOREM RoomTypeCorrect == RoomSpec => []RoomTypeOK
<1>1. RoomInv => RoomTypeOK
  BY DEF RoomInv
<1> QED
  BY <1>1, RoomInitInv, RoomNextInv, PTL DEF RoomSpec

\* Whatever ends in whatever order, the room shows the publications and
\* subscriptions of its channel that are for it, one for each stream, but for
\* those that a publish has put back (base.ts:261 and 275).
THEOREM RoomAlwaysShowsChannel == RoomSpec => []RoomShowsChannel
<1>1. RoomInv => RoomShowsChannel
  BY DEF RoomInv
<1> QED
  BY <1>1, RoomInitInv, RoomNextInv, PTL DEF RoomSpec

\* The local member of a room that has been joined is the local one, and there
\* as long as the channel has it (base.ts:228 and 403).
THEOREM LocalMemberAlwaysShown == RoomSpec => []LocalMemberIsShown
<1>1. RoomInv => LocalMemberIsShown
  BY DEF RoomInv
<1> QED
  BY <1>1, RoomInitInv, RoomNextInv, PTL DEF RoomSpec
=============================================================================
