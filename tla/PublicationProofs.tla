------------------------- MODULE PublicationProofs -------------------------
(***************************************************************************)
(* For any number of calls and streams: a publication keeps its types, the *)
(* stream it has at the moment ends up as its state says, and a call that  *)
(* had the publication to itself is resolved only when it got its way.     *)
(***************************************************************************)
EXTENDS Publication, SequenceTheorems, TLAPS

LOCAL Tasks == [on : BOOLEAN, owner : Owners]

\* What the queue of a stream will leave its switch at.
Ends(s) == IF tasks[s] = <<>> THEN on[s] ELSE tasks[s][Len(tasks[s])].on

\* Whoever changes the state, or the stream, pushes a setEnabled of the state
\* behind all that the queue of the stream holds.
QueueEndsAtState == Ends(stream) = (state = "enabled")

PublicationInv == TypeOK /\ QueueEndsAtState

\* A muted stream sends an empty track and one that is not its own, unless it has
\* been stopped when it was muted; a stream of the moment or of the future that
\* keeps its track when muted has not been stopped.
Live(s) ==
  /\ ~on[s] => track[s] = "empty"
  /\ on[s] => track[s] = "own" \/ s \in Stopping
  /\ s \in Stopping /\ track[s] = "empty" => s \in stopped
  /\ s \in unused \cup {stream} /\ s \notin Stopping => s \notin stopped

LiveTracks == \A s \in Streams : Live(s)

-----------------------------------------------------------------------------
(* The queue of a stream.                                                  *)

\* A setEnabled that is pushed is the last of its queue.
LEMMA PushIsLast ==
  ASSUME TypeOK, NEW s \in Streams, NEW b \in BOOLEAN, NEW o \in Owners, SetEnabled(s, b, o)
  PROVE  /\ tasks' \in [Streams -> Seq(Tasks)]
         /\ tasks'[s] # <<>> /\ tasks'[s][Len(tasks'[s])].on = b
<1> DEFINE t == [on |-> b, owner |-> o]
<1>1. t \in Tasks  BY DEF Tasks
<1>2. tasks[s] \in Seq(Tasks)  BY DEF TypeOK, Tasks
<1>3. tasks'[s] = Append(tasks[s], t)  BY DEF TypeOK, SetEnabled
<1>4. /\ Append(tasks[s], t) \in Seq(Tasks)
      /\ Len(Append(tasks[s], t)) = Len(tasks[s]) + 1
      /\ Append(tasks[s], t)[Len(tasks[s]) + 1] = t
      /\ Append(tasks[s], t) # <<>>
  BY <1>1, <1>2
<1>5. tasks' \in [Streams -> Seq(Tasks)]
  <2>1. tasks' = [tasks EXCEPT ![s] = Append(tasks[s], t)]  BY DEF SetEnabled
  <2>2. tasks \in [Streams -> Seq(Tasks)]  BY DEF TypeOK, Tasks
  <2>. QED  BY <2>1, <2>2, <1>4
<1>. QED  BY <1>3, <1>4, <1>5

\* A setEnabled that runs leaves the queue ending where it ended.
LEMMA RunKeepsEnd ==
  ASSUME NEW S, NEW q \in Seq(S), q # <<>>
  PROVE  /\ Tail(q) \in Seq(S) /\ Head(q) \in S
         /\ Tail(q) = <<>> => q[Len(q)] = Head(q)
         /\ Tail(q) # <<>> => Tail(q)[Len(Tail(q))] = q[Len(q)]
<1>1. /\ Tail(q) \in Seq(S) /\ Head(q) \in S
      /\ Len(Tail(q)) = Len(q) - 1
      /\ \A i \in 1..Len(Tail(q)) : Tail(q)[i] = q[i + 1]
  BY HeadTailProperties
<1>2. Len(q) \in Nat \ {0}  BY EmptySeq
<1>3. ASSUME Tail(q) = <<>> PROVE q[Len(q)] = Head(q)
  <2>1. Len(<<>>) = 0  BY EmptySeq
  <2>2. Len(Tail(q)) = 0  BY <1>3, <2>1, Zenon
  <2>3. Len(q) - 1 = 0  BY <1>1, <2>2, Zenon
  <2>4. Len(q) = 1  BY <1>2, <2>3
  <2>. QED  BY <2>4
<1>4. ASSUME Tail(q) # <<>> PROVE Tail(q)[Len(Tail(q))] = q[Len(q)]
  <2>1. Len(Tail(q)) \in Nat \ {0}  BY <1>1, <1>4, EmptySeq
  <2>. QED  BY <1>1, <1>2, <2>1
<1>. QED  BY <1>1, <1>3, <1>4

\* Whoever pushes a setEnabled of the new state to the new stream restores the
\* invariant.
LEMMA PushEndsAtState ==
  ASSUME TypeOK, stream' \in Streams, NEW o \in Owners,
         SetEnabled(stream', state' = "enabled", o)
  PROVE  QueueEndsAtState'
<1>1. (state' = "enabled") \in BOOLEAN  OBVIOUS
<1>2. tasks'[stream'] # <<>> /\ tasks'[stream'][Len(tasks'[stream'])].on = (state' = "enabled")
  BY <1>1, PushIsLast
<1>. QED  BY <1>2, Zenon DEF QueueEndsAtState, Ends

-----------------------------------------------------------------------------
(* The helpers keep their types.                                           *)

LEMMA CallsKeepTypes ==
  ASSUME TypeOK, NEW c \in Calls,
         NEW p \in Phases, NEW o \in Outcomes
  PROVE  /\ Move(c, p) => phase' \in [Calls -> Phases]
         /\ Settle(c, o) => outcome' \in [Calls -> Outcomes]
BY DEF TypeOK, Move, Settle

\* enable's continuation: types, and the queue ends at the state.
LEMMA EnableStreamSafe ==
  ASSUME PublicationInv, NEW c \in Enables, EnableStream(c), UNCHANGED <<stream, on>>
  PROVE  /\ state' \in {"enabled", "disabled"}
         /\ tasks' \in [Streams -> Seq(Tasks)]
         /\ phase' \in [Calls -> Phases]
         /\ outcome' \in [Calls -> Outcomes]
         /\ QueueEndsAtState'
<1>. c \in Calls /\ c \in Owners  BY DEF Calls, Owners
<1>1. CASE state = "enabled"
  BY <1>1, CallsKeepTypes
  DEF PublicationInv, TypeOK, QueueEndsAtState, Ends, EnableStream, Tasks, Phases, Outcomes
<1>2. CASE state # "enabled"
  <2>1. state' = "enabled" /\ SetEnabled(stream, TRUE, c) /\ Move(c, "unmuting") /\ outcome' = outcome
    BY <1>2 DEF EnableStream
  <2>2. stream' = stream /\ stream \in Streams  BY DEF PublicationInv, TypeOK
  <2>3. tasks' \in [Streams -> Seq(Tasks)]  BY <2>1, <2>2, PushIsLast DEF PublicationInv
  <2>4. (state' = "enabled") = TRUE  BY <2>1
  <2>5. SetEnabled(stream', state' = "enabled", c)  BY <2>1, <2>2, <2>4, Zenon
  <2>6. QueueEndsAtState'  BY <2>2, <2>5, PushEndsAtState DEF PublicationInv
  <2>. QED  BY <2>1, <2>3, <2>6, CallsKeepTypes DEF PublicationInv, TypeOK, Phases
<1>. QED  BY <1>1, <1>2

\* disable and its event: types, and the queue ends at the state.
LEMMA DisableStreamSafe ==
  ASSUME PublicationInv, NEW o \in Owners, DisableStream(o), UNCHANGED <<stream, on>>
  PROVE  /\ state' \in {"enabled", "disabled"}
         /\ tasks' \in [Streams -> Seq(Tasks)]
         /\ QueueEndsAtState'
<1>1. CASE state = "disabled"
  BY <1>1 DEF PublicationInv, TypeOK, QueueEndsAtState, Ends, DisableStream, Tasks
<1>2. CASE state # "disabled"
  <2>1. state' = "disabled" /\ SetEnabled(stream, FALSE, o)  BY <1>2 DEF DisableStream
  <2>2. stream' = stream /\ stream \in Streams  BY DEF PublicationInv, TypeOK
  <2>3. tasks' \in [Streams -> Seq(Tasks)]  BY <2>1, <2>2, PushIsLast DEF PublicationInv
  <2>4. (state' = "enabled") = FALSE  BY <2>1
  <2>5. SetEnabled(stream', state' = "enabled", o)  BY <2>1, <2>2, <2>4, Zenon
  <2>6. QueueEndsAtState'  BY <2>2, <2>5, PushEndsAtState DEF PublicationInv
  <2>. QED  BY <2>1, <2>3, <2>6
<1>. QED  BY <1>1, <1>2

-----------------------------------------------------------------------------
(* The tracks.                                                             *)

\* A setEnabled that runs leaves tracks, and every stream its own or an empty one
\* as it is switched.
LEMMA SwitchSafe ==
  ASSUME TypeOK, NEW s \in Streams, NEW b \in BOOLEAN, Switch(s, b)
  PROVE  /\ on' = [on EXCEPT ![s] = b]
         /\ track' \in [Streams -> {"own", "empty"}] /\ stopped' \subseteq Streams
         /\ LiveTracks /\ UNCHANGED <<stream, unused>> => LiveTracks'
<1>1. /\ on \in [Streams -> BOOLEAN] /\ on' = [on EXCEPT ![s] = b]
      /\ track \in [Streams -> {"own", "empty"}] /\ stopped \subseteq Streams
  BY DEF TypeOK, Switch
<1>2. CASE on[s] /\ ~b /\ MuteTrack(s)
  <2>1. /\ track' = [track EXCEPT ![s] = "empty"]
        /\ stopped' \subseteq stopped \cup {s} /\ stopped \subseteq stopped'
        /\ s \notin Stopping => stopped' = stopped
        /\ s \in Stopping /\ track[s] = "own" => s \in stopped'
    BY <1>2 DEF MuteTrack, StopTrack
  <2>. QED  BY <1>1, <1>2, <2>1 DEF LiveTracks, Live
<1>3. CASE ~on[s] /\ b /\ UnmuteTrack(s)
  <2>1. /\ stopped' = stopped
        /\ s \in Stopping => track' = track
        /\ s \notin Stopping => track' = [track EXCEPT ![s] = "own"]
    BY <1>3 DEF UnmuteTrack
  <2>. QED  BY <1>1, <1>3, <2>1 DEF LiveTracks, Live
<1>4. CASE on[s] = b /\ UNCHANGED <<track, stopped>>
  <2>1. on' = on  BY <1>1, <1>4, Zenon
  <2>. QED  BY <1>1, <1>4, <2>1 DEF LiveTracks, Live
<1>. QED  BY <1>2, <1>3, <1>4 DEF Switch

-----------------------------------------------------------------------------
(* Every step keeps the invariant.                                         *)

LEMMA InitInv == Init => PublicationInv
<1> SUFFICES ASSUME Init PROVE PublicationInv  OBVIOUS
<1>1. \A T : <<>> \in Seq(T)  BY EmptySeq
<1>2. state \in {"enabled", "disabled"} /\ (state = "enabled") = serverOn  BY DEF Init
<1>3. First \in Streams  BY PublicationAssumption
<1>4. TypeOK  BY <1>1, <1>2, <1>3 DEF Init, TypeOK, Phases, Outcomes
<1>5. tasks[stream] = <<>> /\ on[stream] = serverOn  BY <1>3 DEF Init
<1>6. QueueEndsAtState  BY <1>2, <1>5 DEF QueueEndsAtState, Ends
<1>. QED  BY <1>4, <1>6 DEF PublicationInv

LEMMA NextInv == PublicationInv /\ [Next]_vars => PublicationInv'
<1> SUFFICES ASSUME PublicationInv, [Next]_vars PROVE PublicationInv'  OBVIOUS
<1>. USE DEF serverVars, streamVars, callVars, history
<1>t. TypeOK /\ QueueEndsAtState  BY DEF PublicationInv
<1>i. ASSUME UNCHANGED <<state, stream, on, tasks>> PROVE QueueEndsAtState'
  BY <1>t, <1>i DEF QueueEndsAtState, Ends
<1>1. ASSUME NEW c \in Calls, NEW p \in Phases, NEW o \in Outcomes, Called(c, p, o)
      PROVE  PublicationInv'
  <2>1. TypeOK'
    BY <1>t, <1>1, CallsKeepTypes DEF TypeOK, Called, Move
  <2>2. QueueEndsAtState'  BY <1>1, <1>i DEF Called
  <2>. QED  BY <2>1, <2>2 DEF PublicationInv
<1>2. ASSUME NEW c \in Enables, Enable(c) PROVE PublicationInv'
  BY <1>1, <1>2 DEF Enable, Calls, Phases, Outcomes
<1>3. ASSUME NEW c \in Disables, Disable(c) PROVE PublicationInv'
  BY <1>1, <1>3 DEF Disable, Calls, Phases, Outcomes
<1>4. ASSUME NEW c \in Calls, Move(c, "waiting"), requests' = Append(requests, c),
             UNCHANGED <<serverOn, wire, emitting, state, streamVars, tasks, notices, outcome, history>>
      PROVE  PublicationInv'
  <2>1. phase' \in [Calls -> Phases]
    BY <1>t, <1>4, CallsKeepTypes DEF Phases, Outcomes
  <2>2. requests' \in Seq(Calls)  BY <1>t, <1>4 DEF TypeOK
  <2>3. TypeOK'  BY <1>t, <1>4, <2>1, <2>2 DEF TypeOK
  <2>4. QueueEndsAtState'  BY <1>4, <1>i
  <2>. QED  BY <2>3, <2>4 DEF PublicationInv
<1>5. ASSUME NEW c \in Enables, EnableAsks(c) PROVE PublicationInv'
  BY <1>4, <1>5 DEF EnableAsks, EnablePublication, Calls
<1>6. ASSUME NEW c \in Disables, DisableAsks(c) PROVE PublicationInv'
  BY <1>4, <1>6 DEF DisableAsks, DisablePublication, Calls
<1>7. ASSUME NEW c \in Enables, EnableResumes(c) PROVE PublicationInv'
  <2>1. EnableStream(c) /\ UNCHANGED <<stream, on>>  BY <1>7 DEF EnableResumes
  <2>2. TypeOK'
    BY <1>t, <1>7, <2>1, EnableStreamSafe DEF EnableResumes, TypeOK, Tasks
  <2>3. QueueEndsAtState'  BY <2>1, EnableStreamSafe
  <2>. QED  BY <2>2, <2>3 DEF PublicationInv
<1>8. ASSUME NEW c \in Disables, DisableStarts(c) PROVE PublicationInv'
  <2>1. /\ DisableStream(c) /\ UNCHANGED <<stream, on>>
        /\ c \in Owners /\ c \in Calls
    BY <1>8 DEF DisableStarts, Owners, Calls
  <2>2. phase' \in [Calls -> Phases]
    BY <1>t, <1>8, <2>1, CallsKeepTypes DEF DisableStarts, Phases, Outcomes
  <2>3. TypeOK'
    BY <1>t, <1>8, <2>1, <2>2, DisableStreamSafe DEF DisableStarts, TypeOK, Tasks
  <2>4. QueueEndsAtState'  BY <2>1, DisableStreamSafe
  <2>. QED  BY <2>3, <2>4 DEF PublicationInv
<1>9. ASSUME NEW c \in Calls, WatchTimesOut(c) PROVE PublicationInv'
  <2>1. phase' \in [Calls -> Phases] /\ outcome' \in [Calls -> Outcomes]
    BY <1>t, <1>9, CallsKeepTypes DEF WatchTimesOut, RejectCall, Phases, Outcomes
  <2>2. TypeOK'  BY <1>t, <1>9, <2>1 DEF WatchTimesOut, TypeOK
  <2>3. QueueEndsAtState'  BY <1>9, <1>i DEF WatchTimesOut
  <2>. QED  BY <2>2, <2>3 DEF PublicationInv
<1>10. ASSUME NEW s \in Streams, ReplaceStream(s) PROVE PublicationInv'
  <2>1. /\ stream' = s /\ unused' = unused \ {s} /\ s \in unused
        /\ SetEnabled(s, state = "enabled", "replace") /\ state' = state
    BY <1>10 DEF ReplaceStream, HandStateOn, SetStream
  <2>2. "replace" \in Owners /\ (state = "enabled") \in BOOLEAN  BY DEF Owners
  <2>3. tasks' \in [Streams -> Seq(Tasks)]  BY <1>t, <2>1, <2>2, PushIsLast
  <2>7. stopped' \subseteq Streams
    BY <1>t, <1>10 DEF ReplaceStream, ReleaseOld, StopTrack, TypeOK
  <2>4. TypeOK'  BY <1>t, <1>10, <2>1, <2>3, <2>7 DEF ReplaceStream, TypeOK, Tasks
  <2>5. SetEnabled(stream', state' = "enabled", "replace")  BY <2>1, Zenon
  <2>6. QueueEndsAtState'  BY <1>t, <2>1, <2>2, <2>5, PushEndsAtState
  <2>. QED  BY <2>4, <2>6 DEF PublicationInv
<1>11. ASSUME NEW s \in Streams, StreamTask(s) PROVE PublicationInv'
  <2> DEFINE q == tasks[s]
  <2>1. q \in Seq(Tasks) /\ q # <<>>  BY <1>t, <1>11 DEF StreamTask, TypeOK, Tasks
  <2>2. /\ tasks' = [tasks EXCEPT ![s] = Tail(q)]
        /\ Switch(s, Head(q).on)
        /\ UNCHANGED <<serverVars, emitting, state, stream, unused, history>>
    BY <1>11 DEF StreamTask
  <2>3. /\ Tail(q) \in Seq(Tasks) /\ Head(q) \in Tasks
        /\ Tail(q) = <<>> => q[Len(q)] = Head(q)
        /\ Tail(q) # <<>> => Tail(q)[Len(Tail(q))] = q[Len(q)]
    BY <2>1, RunKeepsEnd
  <2>4. /\ phase' \in [Calls -> Phases] /\ outcome' \in [Calls -> Outcomes]
        /\ notices' \in Nat
    <3> DEFINE w == Head(q).owner
    <3>1. CASE w \in Enables /\ Move(w, "over") /\ Settle(w, "resolved") /\ UNCHANGED notices
      BY <1>t, <3>1, CallsKeepTypes DEF TypeOK, Calls, Phases, Outcomes
    <3>2. CASE w \in Disables /\ Move(w, "muted") /\ UNCHANGED <<outcome, notices>>
      BY <1>t, <3>2, CallsKeepTypes DEF TypeOK, Calls, Phases, Outcomes
    <3>3. CASE notices' = notices + 1 /\ UNCHANGED callVars
      BY <1>t, <3>3 DEF TypeOK
    <3>4. CASE UNCHANGED <<callVars, notices>>
      BY <1>t, <3>4 DEF TypeOK
    <3>. QED  BY <1>11, <3>1, <3>2, <3>3, <3>4 DEF StreamTask
  <2>8. /\ on' = [on EXCEPT ![s] = Head(q).on] /\ Head(q).on \in BOOLEAN
        /\ track' \in [Streams -> {"own", "empty"}] /\ stopped' \subseteq Streams
    BY <1>t, <2>2, <2>3, SwitchSafe DEF Tasks
  <2>5. /\ tasks' \in [Streams -> Seq(Tasks)] /\ on' \in [Streams -> BOOLEAN]
    BY <1>t, <2>2, <2>3, <2>8 DEF TypeOK, Tasks
  <2>6. TypeOK'  BY <1>t, <2>2, <2>4, <2>5, <2>8 DEF TypeOK, Tasks
  <2>7. QueueEndsAtState'
    <3>1. CASE s = stream
      <4>1. tasks'[stream'] = Tail(q) /\ on'[stream'] = Head(q).on
        BY <1>t, <2>2, <2>8, <3>1 DEF TypeOK
      <4>2. q[Len(q)].on = (state = "enabled")
        BY <1>t, <2>1, <3>1 DEF QueueEndsAtState, Ends
      <4>. QED  BY <2>2, <2>3, <4>1, <4>2, Zenon DEF QueueEndsAtState, Ends
    <3>2. CASE s # stream
      <4>1. tasks'[stream'] = tasks[stream] /\ on'[stream'] = on[stream] /\ state' = state
        BY <1>t, <2>2, <2>8, <3>2 DEF TypeOK
      <4>. QED  BY <1>t, <4>1, Zenon DEF QueueEndsAtState, Ends
    <3>. QED  BY <3>1, <3>2
  <2>. QED  BY <2>6, <2>7 DEF PublicationInv
<1>12. CASE HandleEvent
  <2>1. /\ wire # <<>> /\ wire' = Tail(wire) /\ emitting' \in {FALSE, Len(wire) > 1}
        /\ UNCHANGED <<serverOn, requests, streamVars, outcome, history>>
        /\ EventEnables \/ EventDisables
    BY <1>12 DEF HandleEvent, PublicationToggled
  <2>2. wire' \in Seq(BOOLEAN) /\ (emitting' => wire' # <<>>) /\ emitting' \in BOOLEAN
    <3>1. wire' \in Seq(BOOLEAN) /\ Len(wire') = Len(wire) - 1 /\ Len(wire) \in Nat
      BY <1>t, <2>1, HeadTailProperties, LenProperties DEF TypeOK
    <3>2. ASSUME Len(wire) > 1 PROVE wire' # <<>>
      <4>1. Len(<<>>) = 0  BY EmptySeq
      <4>2. Len(wire') # 0  BY <3>1, <3>2
      <4>. QED  BY <4>1, <4>2, Zenon
    <3>3. (Len(wire) > 1) \in BOOLEAN  OBVIOUS
    <3>4. emitting' = FALSE \/ emitting' = (Len(wire) > 1)  BY <2>1
    <3>. QED  BY <3>1, <3>2, <3>3, <3>4, Zenon
  <2>3. CASE EventEnables
    <3>1. phase' \in [Calls -> Phases]  BY <1>t, <2>3 DEF EventEnables, TypeOK, Phases
    <3>2. TypeOK'  BY <1>t, <2>1, <2>2, <2>3, <3>1 DEF EventEnables, TypeOK
    <3>3. QueueEndsAtState'  BY <1>i, <2>1, <2>3 DEF EventEnables
    <3>. QED  BY <3>2, <3>3 DEF PublicationInv
  <2>4. CASE EventDisables
    <3>1. /\ DisableStream("event") /\ UNCHANGED <<stream, on, phase>> /\ "event" \in Owners
      BY <2>1, <2>4 DEF EventDisables, Owners
    <3>2. notices' \in Nat  BY <1>t, <2>4 DEF EventDisables, TypeOK
    <3>3. TypeOK'
      BY <1>t, <2>1, <2>2, <3>1, <3>2, DisableStreamSafe DEF TypeOK, Tasks
    <3>4. QueueEndsAtState'  BY <3>1, DisableStreamSafe
    <3>. QED  BY <3>3, <3>4 DEF PublicationInv
  <2>. QED  BY <2>1, <2>3, <2>4
<1>13. CASE EmitDisabled
  <2>1. phase' \in [Calls -> Phases] /\ outcome' \in [Calls -> Outcomes]
    BY <1>t, <1>13 DEF EmitDisabled, TypeOK, Phases, Outcomes
  <2>2. notices' \in Nat  BY <1>t, <1>13 DEF EmitDisabled, TypeOK
  <2>3. UNCHANGED <<serverVars, emitting, state, streamVars, tasks, history>>
    BY <1>13 DEF EmitDisabled
  <2>4. TypeOK'  BY <1>t, <2>1, <2>2, <2>3 DEF TypeOK
  <2>5. QueueEndsAtState'  BY <2>3, <1>i
  <2>. QED  BY <2>4, <2>5 DEF PublicationInv
<1>14. CASE ServerExecutes
  <2>1. requests' \in Seq(Calls)
    BY <1>t, <1>14, HeadTailProperties DEF ServerExecutes, TypeOK
  <2>2. serverOn' \in BOOLEAN /\ wire' = Append(wire, serverOn')
    BY <1>14 DEF ServerExecutes
  <2>3. wire' \in Seq(BOOLEAN) /\ wire' # <<>>
    <3>1. wire \in Seq(BOOLEAN) /\ Len(wire) \in Nat  BY <1>t, LenProperties DEF TypeOK
    <3>2. wire' \in Seq(BOOLEAN) /\ Len(wire') = Len(wire) + 1  BY <2>2, <3>1
    <3>3. Len(wire') # 0  BY <3>1, <3>2
    <3>4. Len(<<>>) = 0  BY EmptySeq
    <3>. QED  BY <3>2, <3>3, <3>4, Zenon
  <2>4. TypeOK'  BY <1>t, <1>14, <2>1, <2>2, <2>3 DEF ServerExecutes, TypeOK
  <2>5. QueueEndsAtState'  BY <1>14, <1>i DEF ServerExecutes
  <2>. QED  BY <2>4, <2>5 DEF PublicationInv
<1>15. CASE ServerRefuses
  <2>1. requests' \in Seq(Calls) /\ Head(requests) \in Calls
    BY <1>t, <1>15, HeadTailProperties DEF ServerRefuses, TypeOK
  <2>2. outcome' \in [Calls -> Outcomes]
    BY <1>t, <1>15, <2>1, CallsKeepTypes DEF ServerRefuses, EnableRefused, DisableRefused, RejectCall, Phases, Outcomes
  <2>3. faulty' \in BOOLEAN  BY <1>t, <1>15 DEF ServerRefuses, TypeOK
  <2>4. TypeOK'  BY <1>t, <1>15, <2>1, <2>2, <2>3 DEF ServerRefuses, TypeOK
  <2>5. QueueEndsAtState'  BY <1>15, <1>i DEF ServerRefuses
  <2>. QED  BY <2>4, <2>5 DEF PublicationInv
<1>16. CASE UNCHANGED vars
  <2>1. TypeOK'  BY <1>t, <1>16 DEF vars, TypeOK
  <2>2. QueueEndsAtState'  BY <1>16, <1>i DEF vars
  <2>. QED  BY <2>1, <2>2 DEF PublicationInv
<1>. QED
  BY <1>2, <1>3, <1>5, <1>6, <1>7, <1>8, <1>9, <1>10, <1>11, <1>12, <1>13, <1>14, <1>15, <1>16
  DEF Next

-----------------------------------------------------------------------------
(* A call that has the publication to itself.                              *)
(*                                                                         *)
(* LastCallHolds is about the end of a call; the invariant that leads to   *)
(* it says where server, client, wire and tasks are at each stage of the   *)
(* one call under way, and that everything is settled between calls, as    *)
(* long as no call overlapped another and no request failed.               *)

Clean == ~overlapped /\ ~faulty

Rest == requests = <<>> /\ wire = <<>> /\ notices = 0

Wants(c) == c \in Enables

AloneUnderWay == \A c \in Calls : UnderWay(c) => c = last /\ outcome[c] = "pending"

Settled ==
  (\A c \in Calls : ~UnderWay(c)) =>
    /\ Rest /\ Agree
    /\ last # None /\ outcome[last] = "resolved" => serverOn = Wants(last)

\* A call that waits has its request with the server, its event on the wire, or
\* (a disable) its onDisabled to come.
WaitingFor(c) ==
  \/ requests = <<c>> /\ wire = <<>> /\ notices = 0 /\ serverOn # Wants(c)
  \/ requests = <<>> /\ wire = <<Wants(c)>> /\ notices = 0 /\ serverOn = Wants(c)
  \/ requests = <<>> /\ wire = <<>> /\ notices = 1 /\ ~serverOn /\ c \in Disables

Stage(c) ==
  /\ phase[c] = "starting" => Rest /\ Agree /\ serverOn # Wants(c)
  /\ phase[c] \in {"muting", "muted"} =>
       c \in Disables /\ Rest /\ serverOn /\ state = "disabled"
  /\ phase[c] = "waiting" => state = "disabled" /\ WaitingFor(c)
  /\ phase[c] = "resuming" => c \in Enables /\ Rest /\ serverOn /\ state = "disabled"
  /\ phase[c] = "unmuting" => c \in Enables /\ Rest /\ serverOn /\ state = "enabled"

CallOnItsWay == \A c \in Calls : Stage(c)

Unowned == \A s \in Streams : \A i \in 1..Len(tasks[s]) : tasks[s][i].owner = "replace"

\* One setEnabled at most is somebody's, that of the call that is at it.
TasksOwned ==
  \A s \in Streams : \A i \in 1..Len(tasks[s]) : tasks[s][i].owner # "replace" =>
    /\ last # None /\ tasks[s][i].owner = last /\ phase[last] \in {"muting", "unmuting"}
    /\ \A t \in Streams : \A k \in 1..Len(tasks[t]) :
         tasks[t][k].owner # "replace" => t = s /\ k = i

WayInv == AloneUnderWay /\ Settled /\ CallOnItsWay /\ TasksOwned

CleanInv == Clean => WayInv

\* One call is under way and goes to its next stage, or to its end.
LEMMA CallAdvances ==
  ASSUME TypeOK, WayInv, NEW c \in Calls, UnderWay(c), NEW p \in Phases \ {"idle"}, Move(c, p),
         last' = last,
         \A d \in Calls \ {c} : outcome'[d] = outcome[d],
         p # "over" => outcome'[c] = outcome[c] /\ Stage(c)',
         p = "over" => Rest' /\ Agree' /\ serverOn' = Wants(c),
         TasksOwned'
  PROVE  WayInv'
<1>1. /\ phase'[c] = p /\ \A d \in Calls \ {c} : phase'[d] = phase[d]
      /\ c = last /\ outcome[c] = "pending"
      /\ \A d \in Calls \ {c} : phase[d] \in {"idle", "over"}
  BY DEF TypeOK, Move, WayInv, AloneUnderWay, UnderWay
<1>2. AloneUnderWay'
  BY <1>1 DEF AloneUnderWay, UnderWay
<1>3. Settled'
  <2>1. (\A d \in Calls : ~UnderWay(d)') => p = "over"  BY <1>1 DEF UnderWay
  <2>. QED  BY <1>1, <2>1 DEF Settled
<1>4. CallOnItsWay'
  <2>1. \A d \in Calls \ {c} : Stage(d)'  BY <1>1 DEF Stage
  <2>2. Stage(c)'  BY <1>1 DEF Stage
  <2>. QED  BY <2>1, <2>2 DEF CallOnItsWay
<1>. QED  BY <1>2, <1>3, <1>4 DEF WayInv

\* Who is not at a setEnabled has none in the queues.
LEMMA NobodysTasks ==
  ASSUME TasksOwned, last # None => phase[last] \notin {"muting", "unmuting"}
  PROVE  Unowned
BY DEF TasksOwned, Unowned

LEMMA UnownedStays ==
  ASSUME Unowned, tasks' = tasks
  PROVE  TasksOwned'
BY DEF Unowned, TasksOwned

\* A setEnabled is pushed: a replacement's, or that of the call that is at it.
LEMMA PushKeepsOwners ==
  ASSUME TypeOK, NEW s \in Streams, NEW b \in BOOLEAN, NEW o \in Owners, SetEnabled(s, b, o),
         last' = last,
         \/ TasksOwned /\ o = "replace" /\ phase' = phase
         \/ Unowned /\ last # None /\ o = last /\ phase'[last] \in {"muting", "unmuting"}
  PROVE  TasksOwned'
<1> DEFINE t == [on |-> b, owner |-> o]
           n == Len(tasks[s]) + 1
<1>1. /\ tasks'[s] = Append(tasks[s], t) /\ tasks[s] \in Seq(Tasks)
      /\ \A r \in Streams \ {s} : tasks'[r] = tasks[r]
  BY DEF TypeOK, SetEnabled, Tasks
<1>2. /\ n \in Nat /\ Len(tasks[s]) \in Nat /\ Len(tasks'[s]) = n /\ tasks'[s][n] = t
      /\ \A i \in 1..Len(tasks[s]) : tasks'[s][i] = tasks[s][i]
  BY <1>1
<1>3. \A i \in 1..Len(tasks'[s]) : i \in 1..Len(tasks[s]) \/ i = n
  BY <1>2
<1>4. CASE TasksOwned /\ o = "replace" /\ phase' = phase
  <2>1. \A r \in Streams : \A i \in 1..Len(tasks'[r]) : tasks'[r][i].owner # "replace" =>
          i \in 1..Len(tasks[r]) /\ tasks'[r][i] = tasks[r][i]
    BY <1>1, <1>2, <1>3, <1>4
  <2>2. ASSUME NEW r \in Streams, NEW i \in 1..Len(tasks'[r]), tasks'[r][i].owner # "replace"
        PROVE  /\ last # None /\ tasks'[r][i].owner = last /\ phase[last] \in {"muting", "unmuting"}
               /\ \A u \in Streams : \A k \in 1..Len(tasks'[u]) :
                    tasks'[u][k].owner # "replace" => u = r /\ k = i
    BY <1>4, <2>1, <2>2 DEF TasksOwned
  <2>. QED  BY <1>4, <2>2 DEF TasksOwned
<1>5. CASE Unowned /\ last # None /\ o = last /\ phase'[last] \in {"muting", "unmuting"}
  <2>1. \A r \in Streams : \A i \in 1..Len(tasks'[r]) : tasks'[r][i].owner # "replace" =>
          r = s /\ i = n
    <3> SUFFICES ASSUME NEW r \in Streams, NEW i \in 1..Len(tasks'[r]),
                        tasks'[r][i].owner # "replace"
                 PROVE  r = s /\ i = n
      OBVIOUS
    <3>1. r = s  BY <1>1, <1>5 DEF Unowned
    <3>2. i \notin 1..Len(tasks[s])  BY <1>2, <1>5, <3>1 DEF Unowned
    <3>. QED  BY <1>3, <3>1, <3>2
  <2>. QED  BY <1>2, <1>5, <2>1 DEF TasksOwned
<1>. QED  BY <1>4, <1>5

\* A setEnabled has run; if it was the call's, none is left of the call's.
LEMMA RunKeepsOwners ==
  ASSUME TypeOK, TasksOwned, NEW s \in Streams, tasks[s] # <<>>,
         tasks' = [tasks EXCEPT ![s] = Tail(@)]
  PROVE  /\ last' = last /\ phase' = phase => TasksOwned'
         /\ Head(tasks[s]).owner # "replace" =>
              /\ last # None /\ Head(tasks[s]).owner = last
              /\ phase[last] \in {"muting", "unmuting"}
              /\ TasksOwned'
<1> DEFINE q == tasks[s]
<1>1. q \in Seq(Tasks) /\ tasks'[s] = Tail(q) /\ \A r \in Streams \ {s} : tasks'[r] = tasks[r]
  BY DEF TypeOK, Tasks
<1>2. /\ Len(q) \in Nat /\ 1 \in 1..Len(q) /\ Head(q) = q[1]
      /\ Len(Tail(q)) = Len(q) - 1
      /\ \A i \in 1..Len(Tail(q)) : Tail(q)[i] = q[i + 1] /\ i + 1 \in 1..Len(q) /\ i \in Nat
  BY <1>1
<1>3. CASE Head(q).owner # "replace"
  <2>1. /\ last # None /\ Head(q).owner = last /\ phase[last] \in {"muting", "unmuting"}
        /\ \A r \in Streams : \A k \in 1..Len(tasks[r]) :
             tasks[r][k].owner # "replace" => r = s /\ k = 1
    BY <1>2, <1>3 DEF TasksOwned
  <2>2. Unowned'
    <3> SUFFICES ASSUME NEW r \in Streams, NEW i \in 1..Len(tasks'[r]),
                        tasks'[r][i].owner # "replace"
                 PROVE  FALSE
      BY DEF Unowned
    <3>1. CASE r = s
      <4>1. i \in 1..Len(Tail(q)) /\ tasks'[r][i] = Tail(q)[i]  BY <1>1, <3>1
      <4>2. q[i + 1].owner # "replace" /\ i + 1 \in 1..Len(q) /\ i \in Nat
        BY <1>2, <4>1
      <4>3. i + 1 # 1  BY <4>1
      <4>. QED  BY <2>1, <4>2, <4>3
    <3>2. CASE r # s
      BY <1>1, <2>1, <3>2
    <3>. QED  BY <3>1, <3>2
  <2>3. TasksOwned'  BY <2>2 DEF Unowned, TasksOwned
  <2>. QED  BY <2>1, <2>3
<1>4. ASSUME last' = last, phase' = phase PROVE TasksOwned'
  <2> DEFINE old(r, i) == IF r = s THEN i + 1 ELSE i
  <2>1. \A r \in Streams : \A i \in 1..Len(tasks'[r]) :
          old(r, i) \in 1..Len(tasks[r]) /\ tasks'[r][i] = tasks[r][old(r, i)] /\ i \in Int
    <3> SUFFICES ASSUME NEW r \in Streams, NEW i \in 1..Len(tasks'[r])
                 PROVE  old(r, i) \in 1..Len(tasks[r]) /\ tasks'[r][i] = tasks[r][old(r, i)]
      OBVIOUS
    <3>1. CASE r = s
      <4>1. i \in 1..Len(Tail(q)) /\ tasks'[r][i] = Tail(q)[i]  BY <1>1, <3>1
      <4>. QED  BY <1>2, <3>1, <4>1
    <3>2. CASE r # s
      BY <1>1, <3>2
    <3>. QED  BY <3>1, <3>2
  <2> HIDE DEF old
  <2>2. ASSUME NEW r \in Streams, NEW i \in 1..Len(tasks'[r]), tasks'[r][i].owner # "replace",
               NEW t \in Streams, NEW k \in 1..Len(tasks'[t]), tasks'[t][k].owner # "replace"
        PROVE  t = r /\ k = i
    <3>1. t = r /\ old(t, k) = old(r, i)  BY <2>1, <2>2 DEF TasksOwned
    <3>. QED  BY <2>1, <3>1 DEF old
  <2>3. ASSUME NEW r \in Streams, NEW i \in 1..Len(tasks'[r]), tasks'[r][i].owner # "replace"
        PROVE  last # None /\ tasks'[r][i].owner = last /\ phase[last] \in {"muting", "unmuting"}
    BY <2>1, <2>3 DEF TasksOwned
  <2>. QED  BY <1>4, <2>2, <2>3 DEF TasksOwned
<1>. QED  BY <1>3, <1>4

-----------------------------------------------------------------------------
(* Every step keeps CleanInv.                                              *)

LEMMA CleanInit == Init => CleanInv
<1> SUFFICES ASSUME Init PROVE WayInv  BY DEF CleanInv
<1>1. \A c \in Calls : phase[c] = "idle"  BY DEF Init
<1>2. AloneUnderWay /\ CallOnItsWay  BY <1>1 DEF AloneUnderWay, UnderWay, CallOnItsWay, Stage
<1>3. \A s \in Streams : Len(tasks[s]) = 0  BY DEF Init
<1>4. TasksOwned  BY <1>3 DEF TasksOwned
<1>5. (state = "enabled") = serverOn  BY DEF Init
<1>6. Settled  BY <1>5 DEF Init, Settled, Rest, Agree
<1>. QED  BY <1>2, <1>4, <1>6 DEF WayInv

\* A call begins, or finds its state already there.
LEMMA CalledKeeps ==
  ASSUME TypeOK, WayInv, NEW c \in Calls, ~overlapped',
         \/ Called(c, "over", "resolved") /\ (state = "enabled") = Wants(c)
         \/ Called(c, "starting", "pending") /\ (state = "enabled") # Wants(c)
  PROVE  WayInv'
<1>1. /\ \A d \in Calls : ~UnderWay(d)
      /\ last' = c /\ c # None
      /\ UNCHANGED <<serverOn, requests, wire, state, tasks, notices>>
      /\ phase[c] = "idle"
  BY PublicationAssumption DEF Called, serverVars, Calls
<1>2. Rest' /\ Agree' /\ Agree
  BY <1>1 DEF WayInv, Settled, Rest, Agree
<1>3. /\ \/ phase'[c] = "over" /\ outcome'[c] = "resolved" /\ serverOn = Wants(c)
         \/ phase'[c] = "starting" /\ outcome'[c] = "pending" /\ serverOn # Wants(c)
      /\ \A d \in Calls \ {c} : phase'[d] = phase[d] /\ outcome'[d] = outcome[d]
  <2>1. serverOn = (state = "enabled")  BY <1>2 DEF Agree
  <2>. QED  BY <2>1 DEF Called, Move, TypeOK
<1>4. AloneUnderWay'  BY <1>1, <1>3 DEF AloneUnderWay, UnderWay
<1>5. Settled'  BY <1>1, <1>2, <1>3 DEF Settled, UnderWay
<1>6. CallOnItsWay'
  <2>1. \A d \in Calls \ {c} : Stage(d)'  BY <1>1, <1>3 DEF Stage, UnderWay
  <2>2. Stage(c)'  BY <1>1, <1>2, <1>3 DEF Stage
  <2>. QED  BY <2>1, <2>2 DEF CallOnItsWay
<1>7. TasksOwned'
  <2>1. last # None => phase[last] \notin {"muting", "unmuting"}
    BY <1>1 DEF UnderWay, TypeOK
  <2>. QED  BY <1>1, <2>1, NobodysTasks, UnownedStays DEF WayInv
<1>. QED  BY <1>4, <1>5, <1>6, <1>7 DEF WayInv

\* The stages of a call that is under way.
LEMMA CallStepsKeep ==
  ASSUME TypeOK, WayInv, NEW c \in Calls,
         \/ c \in Enables /\ (EnableAsks(c) \/ EnableResumes(c))
         \/ c \in Disables /\ (DisableStarts(c) \/ DisableAsks(c))
  PROVE  WayInv'
<1>. USE DEF serverVars, streamVars, callVars, history
<1>1. /\ Stage(c) /\ TasksOwned /\ last' = last /\ serverOn \in BOOLEAN
      /\ phase \in [Calls -> Phases]
      /\ c \in Enables <=> c \notin Disables
  BY PublicationAssumption
  DEF WayInv, CallOnItsWay, TypeOK, EnableAsks, EnableResumes, DisableStarts, DisableAsks, Calls
<1>2. UnderWay(c) /\ c = last /\ c # None
  BY PublicationAssumption
  DEF UnderWay, EnableAsks, EnableResumes, DisableStarts, DisableAsks, WayInv, AloneUnderWay, Calls
<1>n. phase[c] \notin {"muting", "unmuting"} => Unowned
  BY <1>1, <1>2, NobodysTasks
\* The request is with the server.
<1>3. ASSUME Move(c, "waiting"), requests' = Append(requests, c), Rest, serverOn # Wants(c),
             state = "disabled", phase[c] \notin {"muting", "unmuting"},
             UNCHANGED <<serverOn, wire, state, tasks, notices, outcome>>
      PROVE  WayInv'
  <2>1. phase'[c] = "waiting"  BY <1>1, <1>3 DEF Move
  <2>2. requests' = <<c>>  BY <1>3 DEF Rest
  <2>3. Stage(c)'  BY <1>3, <2>1, <2>2 DEF Stage, WaitingFor, Rest
  <2>4. TasksOwned'  BY <1>3, <1>n, UnownedStays
  <2>. QED  BY <1>1, <1>2, <1>3, <2>3, <2>4, CallAdvances DEF Phases
<1>4. CASE c \in Enables /\ EnableAsks(c)
  <2>1. phase[c] = "starting" /\ Rest /\ Agree /\ serverOn # Wants(c)
    BY <1>1, <1>4 DEF EnableAsks, Stage
  <2>2. state = "disabled"
    BY <1>1, <1>4, <2>1 DEF Agree, Wants, TypeOK
  <2>. QED  BY <1>3, <1>4, <2>1, <2>2 DEF EnableAsks, EnablePublication
<1>5. CASE c \in Disables /\ DisableAsks(c)
  <2>1. phase[c] = "muted" /\ Rest /\ serverOn /\ state = "disabled"
    BY <1>5, <1>1 DEF DisableAsks, Stage
  <2>2. serverOn # Wants(c)  BY <1>1, <1>5, <2>1 DEF Wants
  <2>. QED  BY <1>3, <1>5, <2>1, <2>2 DEF DisableAsks, DisablePublication
<1>6. CASE c \in Enables /\ EnableResumes(c)
  <2>1. phase[c] = "resuming" /\ Rest /\ serverOn /\ state = "disabled"
    BY <1>6, <1>1 DEF EnableResumes, Stage
  <2>2. /\ state' = "enabled" /\ SetEnabled(stream, TRUE, c) /\ Move(c, "unmuting")
        /\ outcome' = outcome
        /\ UNCHANGED <<serverOn, requests, wire, notices>>
    BY <1>6, <2>1 DEF EnableResumes, EnableStream
  <2>3. phase'[c] = "unmuting"  BY <1>1, <2>2 DEF Move
  <2>4. Stage(c)'  BY <1>6, <2>1, <2>2, <2>3 DEF Stage, Rest
  <2>5. TasksOwned'
    <3>1. stream \in Streams /\ c \in Owners  BY DEF TypeOK, Owners
    <3>. QED  BY <1>1, <1>2, <1>n, <2>1, <2>2, <2>3, <3>1, PushKeepsOwners
  <2>. QED  BY <1>1, <1>2, <2>2, <2>4, <2>5, CallAdvances DEF Phases
<1>7. CASE c \in Disables /\ DisableStarts(c)
  <2>1. phase[c] = "starting" /\ Rest /\ Agree /\ serverOn # Wants(c)
    BY <1>1, <1>7 DEF DisableStarts, Stage
  <2>2. state = "enabled" /\ serverOn
    <3>1. Wants(c) = FALSE  BY <1>1, <1>7 DEF Wants
    <3>2. serverOn = TRUE  BY <1>1, <2>1, <3>1, Zenon
    <3>. QED  BY <2>1, <3>2, Zenon DEF Agree
  <2>3. /\ state' = "disabled" /\ SetEnabled(stream, FALSE, c) /\ Move(c, "muting")
        /\ outcome' = outcome
        /\ UNCHANGED <<serverOn, requests, wire, notices>>
    BY <1>7, <2>2 DEF DisableStarts, DisableStream
  <2>4. phase'[c] = "muting"  BY <1>1, <2>3 DEF Move
  <2>5. Stage(c)'  BY <1>7, <2>1, <2>2, <2>3, <2>4 DEF Stage, Rest
  <2>6. TasksOwned'
    <3>1. stream \in Streams /\ c \in Owners  BY DEF TypeOK, Owners
    <3>. QED  BY <1>1, <1>2, <1>n, <2>1, <2>3, <2>4, <3>1, PushKeepsOwners
  <2>. QED  BY <1>1, <1>2, <2>3, <2>5, <2>6, CallAdvances DEF Phases
<1>. QED  BY <1>4, <1>5, <1>6, <1>7

\* A setEnabled runs, a replacement's or the call's.
LEMMA TaskKeeps ==
  ASSUME TypeOK, WayInv, NEW s \in Streams, StreamTask(s)
  PROVE  WayInv'
<1>. USE DEF serverVars, callVars, history
<1> DEFINE t == Head(tasks[s])
<1>1. /\ TasksOwned /\ tasks[s] # <<>> /\ tasks' = [tasks EXCEPT ![s] = Tail(@)]
      /\ UNCHANGED <<serverOn, requests, wire, state, last>>
      /\ phase \in [Calls -> Phases] /\ outcome \in [Calls -> Outcomes]
  BY DEF WayInv, StreamTask, TypeOK
<1>2. CASE t.owner = "replace"
  <2>1. UNCHANGED <<callVars, notices>>
    BY <1>2, PublicationAssumption DEF StreamTask
  <2>2. TasksOwned'  BY <1>1, <2>1, RunKeepsOwners
  <2>3. AloneUnderWay' /\ Settled' /\ CallOnItsWay'
    BY <1>1, <2>1
    DEF WayInv, AloneUnderWay, UnderWay, Settled, Rest, Agree, CallOnItsWay, Stage, WaitingFor
  <2>. QED  BY <2>2, <2>3 DEF WayInv
<1>3. CASE t.owner # "replace"
  <2>1. /\ last # None /\ t.owner = last /\ phase[last] \in {"muting", "unmuting"} /\ TasksOwned'
    BY <1>1, <1>3, RunKeepsOwners
  <2>2. last \in Calls /\ UnderWay(last) /\ Stage(last)
    BY <2>1 DEF TypeOK, UnderWay, WayInv, CallOnItsWay
  <2>3. CASE last \in Enables
    <3>1. Move(last, "over") /\ Settle(last, "resolved") /\ UNCHANGED notices
      BY <1>3, <2>1, <2>3, PublicationAssumption DEF StreamTask
    <3>2. Rest /\ serverOn /\ state = "enabled" /\ Wants(last)
      BY <2>1, <2>2, <2>3, PublicationAssumption DEF Stage, Wants
    <3>3. Rest' /\ Agree' /\ serverOn' = Wants(last)
      BY <1>1, <3>1, <3>2 DEF Rest, Agree, Wants
    <3>4. \A d \in Calls \ {last} : outcome'[d] = outcome[d]
      BY <1>1, <3>1 DEF Settle
    <3>. QED  BY <1>1, <2>1, <2>2, <3>1, <3>3, <3>4, CallAdvances DEF Phases
  <2>4. CASE last \in Disables
    <3>1. Move(last, "muted") /\ UNCHANGED <<outcome, notices>>
      BY <1>3, <2>1, <2>4, PublicationAssumption DEF StreamTask
    <3>2. Rest /\ serverOn /\ state = "disabled"
      BY <2>1, <2>2, <2>4, PublicationAssumption DEF Stage
    <3>3. phase'[last] = "muted"  BY <1>1, <2>2, <3>1 DEF Move
    <3>4. ASSUME NEW c \in Calls, c = last PROVE Stage(c)'
      BY <1>1, <2>4, <3>1, <3>2, <3>3, <3>4 DEF Stage, Rest
    <3>5. PICK c \in Calls : c = last  BY <2>2
    <3>. QED  BY <1>1, <2>1, <2>2, <3>1, <3>4, <3>5, CallAdvances DEF Phases
  <2>. QED  BY <2>2, <2>3, <2>4 DEF Calls
<1>. QED  BY <1>2, <1>3

LEMMA ReplaceKeeps ==
  ASSUME TypeOK, WayInv, NEW s \in Streams, ReplaceStream(s)
  PROVE  WayInv'
<1>. USE DEF serverVars, callVars, history
<1>1. /\ SetEnabled(s, state = "enabled", "replace")
      /\ UNCHANGED <<serverOn, requests, wire, state, notices, phase, outcome, last>>
  BY DEF ReplaceStream, HandStateOn
<1>2. TasksOwned'
  <2>1. (state = "enabled") \in BOOLEAN /\ "replace" \in Owners  BY DEF Owners
  <2>. QED  BY <1>1, <2>1, PushKeepsOwners DEF WayInv
<1>3. AloneUnderWay' /\ Settled' /\ CallOnItsWay'
  BY <1>1
  DEF WayInv, AloneUnderWay, UnderWay, Settled, Rest, Agree, CallOnItsWay, Stage, WaitingFor
<1>. QED  BY <1>2, <1>3 DEF WayInv

\* A request is there, or an event, or a notice, only while the call waits for it.
LEMMA WhoWaits ==
  ASSUME TypeOK, WayInv, ~Rest
  PROVE  /\ last \in Calls /\ UnderWay(last) /\ phase[last] = "waiting"
         /\ state = "disabled" /\ WaitingFor(last) /\ Unowned
         /\ \A c \in Calls \ {last} : phase[c] \in {"idle", "over"}
<1>1. PICK c \in Calls : UnderWay(c)  BY DEF WayInv, Settled
<1>2. c = last /\ \A d \in Calls \ {last} : phase[d] \in {"idle", "over"}
  BY <1>1 DEF WayInv, AloneUnderWay, UnderWay
<1>3. Stage(c) /\ phase[c] \in Phases  BY DEF WayInv, CallOnItsWay, TypeOK
<1>4. phase[c] = "waiting"  BY <1>1, <1>3 DEF Stage, UnderWay, Phases
<1>5. Unowned  BY <1>2, <1>4, NobodysTasks DEF WayInv
<1>. QED  BY <1>1, <1>2, <1>3, <1>4, <1>5 DEF Stage

LEMMA ServerKeeps ==
  ASSUME TypeOK, WayInv, ServerExecutes
  PROVE  WayInv'
<1>. USE DEF streamVars, callVars, history
<1>1. /\ requests # <<>> /\ requests' = Tail(requests)
      /\ serverOn' = Wants(Head(requests)) /\ wire' = Append(wire, serverOn')
      /\ UNCHANGED <<state, tasks, notices, phase, outcome, last>>
  BY DEF ServerExecutes, Wants
<1>2. /\ last \in Calls /\ UnderWay(last) /\ phase[last] = "waiting" /\ state = "disabled"
      /\ WaitingFor(last) /\ Unowned
      /\ \A c \in Calls \ {last} : phase[c] \in {"idle", "over"}
  BY <1>1, WhoWaits DEF Rest
<1>3. requests = <<last>> /\ wire = <<>> /\ notices = 0
  BY <1>1, <1>2 DEF WaitingFor
<1>4. requests' = <<>> /\ serverOn' = Wants(last) /\ wire' = <<Wants(last)>>
  BY <1>1, <1>3
<1>5. AloneUnderWay' /\ TasksOwned'
  BY <1>1, <1>2, UnownedStays DEF WayInv, AloneUnderWay, UnderWay
<1>6. Settled'  BY <1>1, <1>2 DEF Settled, UnderWay
<1>7. CallOnItsWay'
  <2> SUFFICES ASSUME NEW c \in Calls PROVE Stage(c)'  BY DEF CallOnItsWay
  <2>1. CASE c # last  BY <1>1, <1>2, <2>1 DEF Stage
  <2>2. CASE c = last
    BY <1>1, <1>2, <1>3, <1>4, <2>2 DEF Stage, WaitingFor, Wants
  <2>. QED  BY <2>1, <2>2
<1>. QED  BY <1>5, <1>6, <1>7 DEF WayInv

LEMMA EventKeeps ==
  ASSUME TypeOK, WayInv, HandleEvent
  PROVE  WayInv'
<1>. USE DEF serverVars, streamVars, callVars, history
<1>1. /\ wire # <<>> /\ wire' = Tail(wire) /\ PublicationToggled(Head(wire))
      /\ UNCHANGED <<serverOn, requests, outcome, last>>
  BY DEF HandleEvent
<1>2. /\ last \in Calls /\ UnderWay(last) /\ phase[last] = "waiting" /\ state = "disabled"
      /\ WaitingFor(last) /\ Unowned
      /\ \A c \in Calls \ {last} : phase[c] \in {"idle", "over"}
  BY <1>1, WhoWaits DEF Rest
<1>3. requests = <<>> /\ wire = <<Wants(last)>> /\ notices = 0 /\ serverOn = Wants(last)
  BY <1>1, <1>2 DEF WaitingFor
<1>4. Head(wire) = Wants(last) /\ wire' = <<>>  BY <1>1, <1>3
<1>5. CASE last \in Enables
  <2>1. EventEnables /\ serverOn  BY <1>1, <1>3, <1>4, <1>5 DEF PublicationToggled, Wants
  <2>2. /\ phase'[last] = "resuming" /\ UNCHANGED <<state, tasks, notices>>
        /\ \A c \in Calls \ {last} : phase'[c] = phase[c]
    BY <1>2, <1>5, <2>1 DEF EventEnables
  <2>3. AloneUnderWay' /\ TasksOwned'
    BY <1>1, <1>2, <2>2, UnownedStays DEF WayInv, AloneUnderWay, UnderWay
  <2>4. Settled'  BY <1>1, <1>2, <2>2 DEF Settled, UnderWay
  <2>5. CallOnItsWay'
    <3> SUFFICES ASSUME NEW c \in Calls PROVE Stage(c)'  BY DEF CallOnItsWay
    <3>1. CASE c # last  BY <1>1, <1>2, <2>2, <3>1 DEF Stage
    <3>2. CASE c = last
      BY <1>1, <1>2, <1>3, <1>4, <1>5, <2>1, <2>2, <3>2 DEF Stage, Rest
    <3>. QED  BY <3>1, <3>2
  <2>. QED  BY <2>3, <2>4, <2>5 DEF WayInv
<1>6. CASE last \in Disables
  <2>1. ~Wants(last)  BY <1>6, PublicationAssumption DEF Wants
  <2>2. EventDisables  BY <1>1, <1>4, <2>1 DEF PublicationToggled
  <2>3. notices' = 1 /\ UNCHANGED <<state, tasks, phase>>
    BY <1>2, <1>3, <2>2 DEF EventDisables, DisableStream
  <2>4. AloneUnderWay' /\ TasksOwned'
    BY <1>1, <1>2, <2>3, UnownedStays DEF WayInv, AloneUnderWay, UnderWay
  <2>5. Settled'  BY <1>1, <1>2, <2>3 DEF Settled, UnderWay
  <2>6. CallOnItsWay'
    <3> SUFFICES ASSUME NEW c \in Calls PROVE Stage(c)'  BY DEF CallOnItsWay
    <3>1. CASE c # last  BY <1>1, <1>2, <2>3, <3>1 DEF Stage
    <3>2. CASE c = last
      BY <1>1, <1>2, <1>3, <1>4, <1>6, <2>1, <2>3, <3>2 DEF Stage, WaitingFor
    <3>. QED  BY <3>1, <3>2
  <2>. QED  BY <2>4, <2>5, <2>6 DEF WayInv
<1>. QED  BY <1>2, <1>5, <1>6 DEF Calls

\* onDisabled comes: the disable that waits for it is over.
LEMMA NoticeKeeps ==
  ASSUME TypeOK, WayInv, EmitDisabled
  PROVE  WayInv'
<1>. USE DEF serverVars, streamVars, callVars, history
<1>1. /\ notices > 0 /\ notices' = notices - 1
      /\ UNCHANGED <<serverOn, requests, wire, state, tasks, last>>
  BY DEF EmitDisabled
<1>2. /\ last \in Calls /\ UnderWay(last) /\ phase[last] = "waiting" /\ state = "disabled"
      /\ WaitingFor(last) /\ Unowned
      /\ \A c \in Calls \ {last} : phase[c] \in {"idle", "over"}
  BY <1>1, WhoWaits DEF Rest
<1>3. requests = <<>> /\ wire = <<>> /\ notices = 1 /\ ~serverOn /\ last \in Disables
  BY <1>1, <1>2 DEF WaitingFor
<1>4. /\ phase' = [phase EXCEPT ![last] = "over"]
      /\ \A c \in Calls \ {last} : outcome'[c] = outcome[c]
  BY <1>2, <1>3 DEF EmitDisabled, TypeOK
<1>5. Rest' /\ Agree' /\ serverOn' = Wants(last)
  <2>1. Wants(last) = FALSE  BY <1>3, PublicationAssumption DEF Wants
  <2>2. serverOn = FALSE  BY <1>3, Zenon DEF TypeOK
  <2>3. (state = "enabled") = FALSE  BY <1>2
  <2>4. Rest'  BY <1>1, <1>3 DEF Rest
  <2>. QED  BY <1>1, <2>1, <2>2, <2>3, <2>4, Zenon DEF Agree
<1>6. TasksOwned'  BY <1>1, <1>2, UnownedStays
<1>. QED
  BY <1>1, <1>2, <1>4, <1>5, <1>6, CallAdvances DEF Move, Phases

LEMMA FaultsRemain ==
  ASSUME [Next]_vars, Clean' PROVE Clean
<1>. USE DEF history
<1>1. ASSUME UNCHANGED <<overlapped, faulty>> PROVE Clean  BY <1>1 DEF Clean
<1>2. ASSUME NEW c \in Calls, Enable(c) \/ Disable(c) PROVE Clean
  BY <1>2, Zenon DEF Enable, Disable, Called, Clean
<1>3. ASSUME NEW c \in Calls, WatchTimesOut(c) PROVE Clean
  BY <1>3, Zenon DEF WatchTimesOut, Clean
<1>4. CASE ServerRefuses  BY <1>4, Zenon DEF ServerRefuses, Clean
<1>5. ASSUME NEW c \in Calls,
             EnableAsks(c) \/ EnableResumes(c) \/ DisableStarts(c) \/ DisableAsks(c)
      PROVE  Clean
  BY <1>1, <1>5 DEF EnableAsks, EnableResumes, DisableStarts, DisableAsks
<1>6. CASE HandleEvent \/ EmitDisabled \/ ServerExecutes
  BY <1>1, <1>6 DEF HandleEvent, EmitDisabled, ServerExecutes
<1>7. ASSUME NEW s \in Streams, ReplaceStream(s) \/ StreamTask(s) PROVE Clean
  BY <1>1, <1>7 DEF ReplaceStream, StreamTask
<1>8. CASE UNCHANGED vars  BY <1>1, <1>8 DEF vars
<1>. QED
  BY <1>2, <1>3, <1>4, <1>5, <1>6, <1>7, <1>8 DEF Next, Calls

LEMMA CleanNext == PublicationInv /\ CleanInv /\ [Next]_vars => CleanInv'
<1> SUFFICES ASSUME PublicationInv, CleanInv, [Next]_vars, Clean' PROVE WayInv'
  BY DEF CleanInv
<1>. USE DEF serverVars, streamVars, callVars, history
<1>1. TypeOK  BY DEF PublicationInv
<1>2. Clean  BY FaultsRemain
<1>3. WayInv  BY <1>2 DEF CleanInv
<1>4. ASSUME NEW c \in Enables, Enable(c) PROVE WayInv'
  <2>1. c \in Calls /\ Wants(c)  BY DEF Calls, Wants
  <2>. QED  BY <1>1, <1>3, <1>4, <2>1, CalledKeeps DEF Enable, Clean
<1>5. ASSUME NEW c \in Disables, Disable(c) PROVE WayInv'
  <2>1. c \in Calls /\ ~Wants(c)  BY PublicationAssumption DEF Calls, Wants
  <2>2. Wants(c) = FALSE /\ (state = "disabled" => (state = "enabled") = FALSE)
        /\ (state # "disabled" => (state = "enabled") = TRUE)
    BY <1>1, <2>1 DEF TypeOK
  <2>3. /\ state = "disabled" => Called(c, "over", "resolved") /\ (state = "enabled") = Wants(c)
        /\ state # "disabled" => Called(c, "starting", "pending") /\ (state = "enabled") # Wants(c)
    BY <1>5, <2>2, Zenon DEF Disable
  <2>. QED  BY <1>1, <1>3, <2>1, <2>3, CalledKeeps DEF Clean
<1>6. ASSUME NEW c \in Enables, EnableAsks(c) \/ EnableResumes(c) PROVE WayInv'
  BY <1>1, <1>3, <1>6, CallStepsKeep DEF Calls
<1>7. ASSUME NEW c \in Disables, DisableStarts(c) \/ DisableAsks(c) PROVE WayInv'
  BY <1>1, <1>3, <1>7, CallStepsKeep DEF Calls
\* A call that has not been told anything does not give up without a fault.
<1>8. ASSUME NEW c \in Calls, WatchTimesOut(c) PROVE WayInv'
  <2>1. UnderWay(c) /\ faulty' = (faulty \/ outcome[c] = "pending")
    BY <1>8 DEF WatchTimesOut, UnderWay
  <2>2. outcome[c] = "pending"  BY <1>3, <2>1 DEF WayInv, AloneUnderWay
  <2>. QED  BY <2>1, <2>2 DEF Clean
<1>9. ASSUME NEW s \in Streams, ReplaceStream(s) PROVE WayInv'
  BY <1>1, <1>3, <1>9, ReplaceKeeps
<1>10. ASSUME NEW s \in Streams, StreamTask(s) PROVE WayInv'
  BY <1>1, <1>3, <1>10, TaskKeeps
<1>11. CASE HandleEvent  BY <1>1, <1>3, <1>11, EventKeeps
<1>12. CASE EmitDisabled  BY <1>1, <1>3, <1>12, NoticeKeeps
<1>13. CASE ServerExecutes  BY <1>1, <1>3, <1>13, ServerKeeps
\* What a call asks for is never so already, so a refusal is a fault.
<1>14. CASE ServerRefuses
  <2>1. /\ requests # <<>>
        /\ faulty' = (faulty \/ serverOn # Wants(Head(requests)))
    BY <1>14 DEF ServerRefuses, Wants
  <2>2. WaitingFor(last)  BY <1>1, <1>3, <2>1, WhoWaits DEF Rest
  <2>3. requests = <<last>> /\ serverOn # Wants(last)  BY <2>1, <2>2 DEF WaitingFor
  <2>4. Head(requests) = last  BY <2>3
  <2>. QED  BY <2>1, <2>3, <2>4 DEF Clean
<1>15. CASE UNCHANGED vars
  BY <1>3, <1>15
  DEF vars, WayInv, AloneUnderWay, UnderWay, Settled, Rest, Agree, CallOnItsWay, Stage, WaitingFor,
      TasksOwned
<1>. QED
  BY <1>4, <1>5, <1>6, <1>7, <1>8, <1>9, <1>10, <1>11, <1>12, <1>13, <1>14, <1>15 DEF Next

-----------------------------------------------------------------------------
LEMMA TracksInit == Init => LiveTracks
<1> SUFFICES ASSUME Init, NEW s \in Streams PROVE Live(s)  BY DEF LiveTracks
<1>1. /\ track[s] = IF on[s] THEN "own" ELSE "empty"
      /\ stopped = {First} \cap {x \in Stopping : ~on[x]}
      /\ on[s] = (s = First => serverOn)
  BY DEF Init
<1>2. ~on[s] => s = First  BY <1>1
<1>. QED  BY <1>1, <1>2 DEF Live

LEMMA TracksNext == PublicationInv /\ LiveTracks /\ [Next]_vars => LiveTracks'
<1> SUFFICES ASSUME PublicationInv, LiveTracks, [Next]_vars PROVE LiveTracks'  OBVIOUS
<1>. USE DEF serverVars, streamVars, callVars, history
<1>t. TypeOK  BY DEF PublicationInv
<1>1. ASSUME UNCHANGED streamVars PROVE LiveTracks'  BY <1>1 DEF LiveTracks, Live
<1>2. ASSUME NEW c \in Calls,
             Enable(c) \/ Disable(c) \/ EnableAsks(c) \/ EnableResumes(c) \/ DisableStarts(c)
               \/ DisableAsks(c) \/ WatchTimesOut(c)
      PROVE  UNCHANGED streamVars
  BY <1>2
  DEF Enable, Disable, Called, EnableAsks, EnableResumes, DisableStarts, DisableAsks,
      WatchTimesOut
<1>3. ASSUME NEW s \in Streams, ReplaceStream(s) PROVE LiveTracks'
  <2>1. /\ stream \in Streams \ unused /\ s \in unused
        /\ stream' = s /\ unused' = unused \ {s} /\ UNCHANGED <<on, track>>
        /\ stopped \subseteq stopped' /\ stopped' \subseteq stopped \cup {stream}
    BY <1>t, <1>3 DEF TypeOK, ReplaceStream, SetStream, ReleaseOld, StopTrack
  <2>. QED  BY <2>1 DEF LiveTracks, Live
<1>4. ASSUME NEW s \in Streams, StreamTask(s) PROVE LiveTracks'
  <2>1. tasks[s] \in Seq(Tasks) /\ tasks[s] # <<>>
    BY <1>t, <1>4 DEF StreamTask, TypeOK, Tasks
  <2>4. Head(tasks[s]) \in Tasks  BY <2>1, RunKeepsEnd
  <2>2. Head(tasks[s]).on \in BOOLEAN  BY <2>4 DEF Tasks
  <2>3. Switch(s, Head(tasks[s]).on) /\ UNCHANGED <<stream, unused>>
    BY <1>4 DEF StreamTask
  <2>. QED  BY <1>t, <2>2, <2>3, SwitchSafe
<1>5. CASE HandleEvent \/ EmitDisabled \/ ServerExecutes \/ ServerRefuses \/ UNCHANGED vars
  BY <1>1, <1>5 DEF HandleEvent, EmitDisabled, ServerExecutes, ServerRefuses, vars
<1>. QED  BY <1>1, <1>2, <1>3, <1>4, <1>5 DEF Next, Calls

LEMMA PublicationAlways == Spec => []PublicationInv
<1>. QED  BY InitInv, NextInv, PTL DEF Spec

\* The types of a publication, for any number of calls and streams; a batch of
\* events under way has events left.
THEOREM PublicationTypeCorrect == Spec => []TypeOK
<1>1. PublicationInv => TypeOK  BY DEF PublicationInv
<1>. QED  BY <1>1, PublicationAlways, PTL

\* However many calls, events and replacements meet and whatever fails, once the
\* queue of the stream of the moment is empty the stream is switched as the state
\* says, sends an empty track when disabled and its own when enabled, except a
\* stream that stops its track when disabled and that has been.
THEOREM StreamIsAsStateSays == Spec => []StreamFollowsState
<1>1. PublicationInv /\ LiveTracks => StreamFollowsState
  <2> SUFFICES ASSUME PublicationInv, LiveTracks, tasks[stream] = <<>>
               PROVE  /\ on[stream] = (state = "enabled")
                      /\ state = "disabled" => track[stream] = "empty"
                      /\ state = "enabled" /\ stream \notin Stopping \cap stopped =>
                           track[stream] = "own" /\ stream \notin stopped
    BY DEF StreamFollowsState
  <2>1. on[stream] = (state = "enabled")  BY DEF PublicationInv, QueueEndsAtState, Ends
  <2>2. Live(stream) /\ track[stream] \in {"own", "empty"} /\ on[stream] \in BOOLEAN
    BY DEF PublicationInv, TypeOK, LiveTracks
  <2>3. state = "disabled" => ~on[stream]  BY <2>1
  <2>. QED  BY <2>1, <2>2, <2>3 DEF Live
<1>2. Spec => []LiveTracks
  BY PublicationAlways, TracksInit, TracksNext, PTL DEF Spec
<1>. QED  BY <1>1, <1>2, PublicationAlways, PTL

\* A call that had the publication to itself, and no request of which failed, is
\* resolved only when server and client are both where it wanted them, whatever
\* streams are replaced meanwhile and whatever calls came before.
THEOREM AloneCallHolds == Spec => []LastCallHolds
<1>1. TypeOK /\ CleanInv => LastCallHolds
  <2> SUFFICES ASSUME TypeOK, CleanInv, Clean, last # None, outcome[last] = "resolved"
               PROVE  Agree /\ serverOn = (last \in Enables)
    BY DEF LastCallHolds, Clean
  <2>1. last \in Calls  BY DEF TypeOK
  <2>2. \A c \in Calls : ~UnderWay(c)  BY <2>1 DEF CleanInv, WayInv, AloneUnderWay
  <2>. QED  BY <2>2 DEF CleanInv, WayInv, Settled, Wants
<1>2. PublicationInv => TypeOK  BY DEF PublicationInv
<1>3. Spec => []CleanInv
  BY PublicationAlways, CleanInit, CleanNext, PTL DEF Spec
<1>. QED  BY <1>1, <1>2, <1>3, PublicationAlways, PTL

=============================================================================
