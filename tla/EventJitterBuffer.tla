------------------------- MODULE EventJitterBuffer -------------------------
(***************************************************************************)
(* The buffer that puts the channel events of the RTC API back in order:   *)
(* packages/rtc-api-client/src/infrastructure/eventObserver.ts, class      *)
(* EventJitterBuffer, with the onPacketLost callback EventObserverImpl     *)
(* gives it.                                                               *)
(*                                                                         *)
(* An event is its version: the server numbers the events of a channel     *)
(* consecutively.  BufferNext is the buffer in an arbitrary environment,   *)
(* which may push any version at any time; EventObserver composes the same *)
(* actions with a server and a network.                                    *)
(***************************************************************************)
EXTENDS Integers, Sequences

CONSTANT Snapshot   \* channelDto.version: the version the replica starts from

ASSUME SnapshotAssumption == Snapshot \in Nat

VARIABLES
  presentVersion,      \* the last version emitted
  eventBuffer,         \* the versions that came too early
  packetLifeTimer,     \* the timer handle and how far its callback has got
  packetLostHappened,
  emitted              \* history: what onEvent has emitted, in order

bufferVars == <<presentVersion, eventBuffer, packetLifeTimer,
                packetLostHappened, emitted>>

(***************************************************************************)
(* packetLifeTimer.  "unset" is undefined; "armed" waits for the timeout;  *)
(* "requesting" and "settling" are the two awaits of onPacketLost; in      *)
(* "spent" the callback has ended and left the handle defined.  version is *)
(* the oldest buffered event while armed and the offset of the recovery    *)
(* request after that.                                                     *)
(***************************************************************************)
Phases == {"unset", "armed", "requesting", "settling", "spent"}
Timer(p, v) == [phase |-> p, version |-> v]
Unset == Timer("unset", 0)

expectNextVersion == presentVersion + 1

(***************************************************************************)
(* Object.keys(...).sort() compares the keys as strings, so "10" comes     *)
(* before "9".  DecimalPad compares the decimal strings of versions below  *)
(* 1000; "1", "10" and "100" pad alike and the shorter one is first.       *)
(***************************************************************************)
DecimalPad(v) == IF v < 10 THEN 100 * v ELSE IF v < 100 THEN 10 * v ELSE v

SortsBefore(v, w) == \/ DecimalPad(v) < DecimalPad(w)
                     \/ DecimalPad(v) = DecimalPad(w) /\ v <= w

IsOldest(v, buffer) == v \in buffer /\ \A w \in buffer : SortsBefore(v, w)

\* handlePacketLifetime, for a buffer and a timer handle as they then are.
HandlePacketLifetime(buffer, timer) ==
  \/ timer.phase # "unset" /\ packetLifeTimer' = timer
  \/ timer.phase = "unset" /\ buffer = {} /\ packetLifeTimer' = timer
  \/ /\ timer.phase = "unset"
     /\ \E v \in buffer : /\ IsOldest(v, buffer)
                          /\ packetLifeTimer' = Timer("armed", v)

\* Mutant: only the expected event itself is resolved.
EndsAtFirst(last, buffer) == last = expectNextVersion /\ last \in buffer

\* The contiguous run that starts at the expected version ends at last.
EndsRun(last, buffer) == /\ expectNextVersion .. last \subseteq buffer
                         /\ last + 1 \notin buffer

\* Mutant: presentVersion runs ahead of the last frame of the run.
ResolveSkipsOne(buffer) ==
  \E last \in buffer :
    /\ EndsRun(last, buffer)
    /\ presentVersion' = last + 1
    /\ eventBuffer' = buffer \ (expectNextVersion .. last)
    /\ emitted' = emitted \o [i \in 1 .. last - presentVersion |->
                                presentVersion + i]

\* resolveEvents: the run leaves the buffer and is emitted in its order.
ResolveEvents(buffer) ==
  \E last \in buffer :
    /\ EndsRun(last, buffer)
    /\ presentVersion' = last
    /\ eventBuffer' = buffer \ (expectNextVersion .. last)
    /\ emitted' = emitted \o [i \in 1 .. last - presentVersion |->
                                presentVersion + i]

-----------------------------------------------------------------------------
BufferInit ==
  /\ presentVersion = Snapshot
  /\ eventBuffer = {}
  /\ packetLifeTimer = Unset
  /\ packetLostHappened = FALSE
  /\ emitted = <<>>

\* push, one action per branch.
PushDuplicate(v) == /\ v < expectNextVersion
                    /\ UNCHANGED bufferVars

PushEarly(v) ==
  /\ v > expectNextVersion
  /\ eventBuffer' = eventBuffer \cup {v}
  /\ HandlePacketLifetime(eventBuffer', packetLifeTimer)
  /\ UNCHANGED <<presentVersion, packetLostHappened, emitted>>

PushExpected(v) ==
  /\ v = expectNextVersion
  /\ packetLostHappened' = FALSE
  /\ ResolveEvents(eventBuffer \cup {v})
  /\ UNCHANGED packetLifeTimer

Push(v) == PushDuplicate(v) \/ PushEarly(v) \/ PushExpected(v)

(***************************************************************************)
(* The callback of the timer: no gap any more; a first loss, which asks    *)
(* the server for the missing events; a loss while an earlier one is       *)
(* outstanding, which returns with the handle still defined.               *)
(***************************************************************************)
GapClosed(timer) == presentVersion >= timer.version

\* The offset of the recovery request.
RecoveryOffset == expectNextVersion

TimerFindsNoGap ==
  /\ packetLifeTimer.phase = "armed"
  /\ GapClosed(packetLifeTimer)
  /\ HandlePacketLifetime(eventBuffer, Unset)
  /\ UNCHANGED <<presentVersion, eventBuffer, packetLostHappened, emitted>>

TimerFindsLoss ==
  /\ packetLifeTimer.phase = "armed"
  /\ ~GapClosed(packetLifeTimer)
  /\ ~packetLostHappened
  /\ packetLostHappened' = TRUE
  /\ packetLifeTimer' = Timer("requesting", RecoveryOffset)
  /\ UNCHANGED <<presentVersion, eventBuffer, emitted>>

TimerGivesUp ==
  /\ packetLifeTimer.phase = "armed"
  /\ ~GapClosed(packetLifeTimer)
  /\ packetLostHappened
  /\ packetLifeTimer' = Timer("spent", packetLifeTimer.version)
  /\ UNCHANGED <<presentVersion, eventBuffer, packetLostHappened, emitted>>

\* subscribeChannelEvents of onPacketLost resolves, or rejects (nothing
\* catches it, so the handle stays defined).
RecoverySubscribed ==
  /\ packetLifeTimer.phase = "requesting"
  /\ packetLifeTimer' = Timer("settling", packetLifeTimer.version)
  /\ UNCHANGED <<presentVersion, eventBuffer, packetLostHappened, emitted>>

RecoveryRejected ==
  /\ packetLifeTimer.phase = "requesting"
  /\ packetLifeTimer' = Timer("spent", packetLifeTimer.version)
  /\ UNCHANGED <<presentVersion, eventBuffer, packetLostHappened, emitted>>

\* Mutant: the handle is cleared and handlePacketLifetime is not called again.
SettleWithoutRearm ==
  /\ packetLifeTimer.phase = "settling"
  /\ packetLifeTimer' = Unset
  /\ UNCHANGED <<presentVersion, eventBuffer, packetLostHappened, emitted>>

\* Mutant: the callback does not clear the handle after a recovery.
SettleKeepsHandle ==
  /\ packetLifeTimer.phase = "settling"
  /\ packetLifeTimer' = Timer("spent", packetLifeTimer.version)
  /\ UNCHANGED <<presentVersion, eventBuffer, packetLostHappened, emitted>>

\* eventSubscribeTimeout elapses, and the callback runs to its end.
RecoverySettled ==
  /\ packetLifeTimer.phase = "settling"
  /\ HandlePacketLifetime(eventBuffer, Unset)
  /\ UNCHANGED <<presentVersion, eventBuffer, packetLostHappened, emitted>>

TimerFires == TimerFindsNoGap \/ TimerFindsLoss \/ TimerGivesUp

BufferNext ==
  \/ \E v \in Nat : Push(v)
  \/ TimerFires
  \/ RecoverySubscribed \/ RecoveryRejected \/ RecoverySettled

BufferSpec == BufferInit /\ [][BufferNext]_bufferVars

-----------------------------------------------------------------------------
(* Safety.                                                                 *)

\* The state of the buffer has the shape the TypeScript declarations give it.
BufferTypeOK ==
  /\ presentVersion \in Nat
  /\ eventBuffer \subseteq Nat
  /\ packetLifeTimer \in [phase : Phases, version : Nat]
  /\ packetLostHappened \in BOOLEAN
  /\ emitted \in Seq(Nat)

\* Whatever is pushed, in whatever order and however often, onEvent emits the
\* versions after the snapshot one by one, each once, with no gap
\* (resolveEvents and the duplicate test of push together).
EmittedInOrder ==
  /\ Len(emitted) = presentVersion - Snapshot
  /\ \A i \in 1 .. Len(emitted) : emitted[i] = Snapshot + i

\* Nothing that could be emitted is left waiting: between two calls the buffer
\* holds only versions beyond the one it waits for.
NothingReadyWaits == \A v \in eventBuffer : v > expectNextVersion

\* push arms the timer only when an event comes early, and a resolved run may
\* leave a second gap behind: no gap is ever without a timer handle.
GapHasTimer == eventBuffer # {} => packetLifeTimer.phase # "unset"

\* packetLostHappened is a claim about the present: whenever it is set there
\* is a gap, with a later event held back.
LossFlagMeansGap == packetLostHappened => eventBuffer # {}
=============================================================================
