---------------------------- MODULE Publication ----------------------------
(***************************************************************************)
(* A local publication that is enabled, disabled and given other streams.  *)
(*                                                                         *)
(* PublicationImpl (packages/core/src/publication/index.ts) keeps a state  *)
(* of its own beside that of the server, and the streams keep theirs.      *)
(* disable switches the state and the stream off and then asks the server; *)
(* enable asks the server and goes on when the event comes, through an     *)
(* event of its own (_onEnabled).  Between the call and its first effect   *)
(* lies createLogPayload, which waits for the statistics of the peer       *)
(* connections.  Events may be handled several in one go, before the       *)
(* continuations that they set off.  A stream that is disabled gives its   *)
(* senders an empty track in place of its own; one that stops its track    *)
(* when disabled has none to give when it is enabled again.                *)
(***************************************************************************)
EXTENDS Integers, Sequences

CONSTANTS
  Enables,     \* calls of enable
  Disables,    \* calls of disable
  Streams,     \* the stream published first, and those that replace it
  First,       \* the stream published first
  Stopping,    \* streams with the option stopTrackWhenDisabled
  Repeats,     \* whether the server tells again what is already so
  None

ASSUME PublicationAssumption ==
  /\ Enables \cap Disables = {}
  /\ First \in Streams /\ Stopping \subseteq Streams
  /\ Repeats \in BOOLEAN
  /\ None \notin Enables \cup Disables \cup Streams
  /\ {"event", "replace"} \cap (Enables \cup Disables) = {}

VARIABLES
  serverOn,    \* whether the server has it enabled
  requests,    \* calls whose request the server has yet to execute
  wire,        \* events not handled: TRUE for PublicationEnabled
  emitting,    \* a batch of events is being handled
  state,       \* _state
  stream,      \* _stream
  on,          \* _isEnabled of each stream
  track,       \* what each stream gives its senders: its own track or an empty one
  stopped,     \* streams whose own track has been stopped
  unused,      \* streams that may still replace it (each does so once)
  tasks,       \* the queue of each stream: its calls of setEnabled
  notices,     \* _disable calls that have yet to emit onDisabled
  phase,       \* how far a call has got
  outcome,     \* what its promise says
  \* history
  last,        \* the call made last
  overlapped,  \* a call was made while another was under way
  faulty       \* a request failed, or its event came too late

serverVars == <<serverOn, requests, wire>>
streamVars == <<stream, on, track, stopped, unused>>
callVars == <<phase, outcome>>
history == <<last, overlapped, faulty>>
vars == <<serverVars, emitting, state, streamVars, tasks, notices, callVars, history>>

Calls == Enables \cup Disables

Move(c, p) == phase' = [phase EXCEPT ![c] = p]
Settle(c, o) ==
  outcome' = [outcome EXCEPT ![c] = IF @ = "pending" THEN o ELSE @]

UnderWay(c) == phase[c] \notin {"idle", "over"}

\* publish leaves state and stream as the option isEnabled says.
Init ==
  /\ serverOn \in BOOLEAN
  /\ state = IF serverOn THEN "enabled" ELSE "disabled"
  /\ stream = First /\ unused = Streams \ {First}
  /\ on = [s \in Streams |-> s = First => serverOn]
  /\ track = [s \in Streams |-> IF on[s] THEN "own" ELSE "empty"]
  /\ stopped = {First} \cap {s \in Stopping : ~on[s]}
  /\ requests = <<>> /\ wire = <<>> /\ emitting = FALSE
  /\ tasks = [s \in Streams |-> <<>>] /\ notices = 0
  /\ phase = [c \in Calls |-> "idle"] /\ outcome = [c \in Calls |-> "none"]
  /\ last = None /\ overlapped = FALSE /\ faulty = FALSE

-----------------------------------------------------------------------------
(* The stream.                                                             *)

SetEnabled(s, b, owner) ==
  tasks' = [tasks EXCEPT ![s] = Append(@, [on |-> b, owner |-> owner])]

\* Mutant: the stream is switched where it stands, and the state is not.
EnableOnly(c) ==
  /\ SetEnabled(stream, TRUE, c)
  /\ Move(c, "unmuting")
  /\ UNCHANGED <<state, outcome>>

\* _enableStream, from the continuation of enable.
EnableStream(c) ==
  IF state = "enabled"
  THEN Move(c, "over") /\ Settle(c, "resolved") /\ UNCHANGED <<state, tasks>>
  ELSE /\ state' = "enabled"
       /\ SetEnabled(stream, TRUE, c)
       /\ Move(c, "unmuting") /\ UNCHANGED outcome

\* Mutant: setEnabled is left to the event.
MuteNothing(owner) == state' = "disabled" /\ UNCHANGED tasks

\* _disableStream; its caller goes on when the stream is off.
DisableStream(owner) ==
  IF state = "disabled" THEN UNCHANGED <<state, tasks>>
  ELSE state' = "disabled" /\ SetEnabled(stream, FALSE, owner)

\* The track that s gives its senders at the moment is stopped.
StopTrack(s) == stopped \cup (IF track[s] = "own" THEN {s} ELSE {})

\* _disable: the senders are given an empty track.
MuteTrack(s) ==
  /\ track' = [track EXCEPT ![s] = "empty"]
  /\ stopped' = IF s \in Stopping THEN StopTrack(s) ELSE stopped

\* A stopped track is not acquired again.
UnmuteTrack(s) ==
  /\ track' = IF s \in Stopping THEN track ELSE [track EXCEPT ![s] = "own"]
  /\ UNCHANGED stopped

\* setEnabled as it runs, which does nothing to a stream that is as it should be.
Switch(s, b) ==
  /\ on' = [on EXCEPT ![s] = b]
  /\ \/ on[s] /\ ~b /\ MuteTrack(s)
     \/ ~on[s] /\ b /\ UnmuteTrack(s)
     \/ on[s] = b /\ UNCHANGED <<track, stopped>>

\* The queue of a stream runs a setEnabled; then its caller goes on.
StreamTask(s) ==
  /\ tasks[s] # <<>> /\ ~emitting
  /\ tasks' = [tasks EXCEPT ![s] = Tail(@)]
  /\ LET t == Head(tasks[s]) IN
       /\ Switch(s, t.on)
       /\ \/ t.owner \in Enables /\ Move(t.owner, "over") /\ Settle(t.owner, "resolved")
             /\ UNCHANGED notices
          \/ t.owner \in Disables /\ Move(t.owner, "muted") /\ UNCHANGED <<outcome, notices>>
          \/ t.owner = "event" /\ notices' = notices + 1 /\ UNCHANGED callVars
          \/ t.owner = "replace" /\ UNCHANGED <<callVars, notices>>
  /\ UNCHANGED <<serverVars, emitting, state, stream, unused, history>>

\* Mutant: the new stream is taken as it comes.
ReplaceAsItIs(s) == UNCHANGED tasks

\* replaceStream hands the state on to the new stream.
HandStateOn(s) == SetEnabled(s, state = "enabled", "replace")

SetStream(s) == stream' = s /\ unused' = unused \ {s}

\* The option releaseOldStream stops the track of the old stream.
ReleaseOld == stopped' \in {stopped, StopTrack(stream)}

ReplaceStream(s) ==
  /\ s \in unused /\ ~emitting
  /\ ReleaseOld
  /\ HandStateOn(s)
  /\ SetStream(s)
  /\ UNCHANGED <<serverVars, emitting, state, on, track, notices, callVars, history>>

-----------------------------------------------------------------------------
(* enable and disable.                                                     *)

Called(c, p, o) ==
  /\ phase[c] = "idle" /\ ~emitting
  /\ Move(c, p)
  /\ outcome' = [outcome EXCEPT ![c] = o]
  /\ last' = c
  /\ overlapped' = (overlapped \/ \E d \in Calls : UnderWay(d))
  /\ UNCHANGED <<serverVars, emitting, state, streamVars, tasks, notices, faulty>>

\* A call that finds its state already there does nothing.
Enable(c) ==
  IF state = "enabled" THEN Called(c, "over", "resolved") ELSE Called(c, "starting", "pending")

Disable(c) ==
  IF state = "disabled" THEN Called(c, "over", "resolved") ELSE Called(c, "starting", "pending")

\* ChannelImpl sends the request, which is rejected if it is refused; its own
\* watch for the event has no limit and nobody waits for it.
EnablePublication(c) == requests' = Append(requests, c)
DisablePublication(c) == requests' = Append(requests, c)

\* The log is written: ask the server, and watch _onEnabled.
EnableAsks(c) ==
  /\ phase[c] = "starting" /\ ~emitting
  /\ Move(c, "waiting")
  /\ EnablePublication(c)
  /\ UNCHANGED <<serverOn, wire, emitting, state, streamVars, tasks, notices, outcome, history>>

DisableStarts(c) ==
  /\ phase[c] = "starting" /\ ~emitting
  /\ Move(c, IF state = "disabled" THEN "muted" ELSE "muting")
  /\ DisableStream(c)
  /\ UNCHANGED <<serverVars, emitting, streamVars, notices, outcome, history>>

\* Ask the server, and watch onDisabled.
DisableAsks(c) ==
  /\ phase[c] = "muted" /\ ~emitting
  /\ Move(c, "waiting")
  /\ DisablePublication(c)
  /\ UNCHANGED <<serverOn, wire, emitting, state, streamVars, tasks, notices, outcome, history>>

EnableResumes(c) ==
  /\ phase[c] = "resuming" /\ ~emitting
  /\ EnableStream(c)
  /\ UNCHANGED <<serverVars, emitting, streamVars, notices, history>>

\* Mutant: a watch that is over leaves its call as it is.
GiveUpQuietly(c) == UNCHANGED outcome

RejectCall(c) == Settle(c, "rejected")

WatchTimesOut(c) ==
  /\ phase[c] = "waiting" /\ ~emitting
  /\ Move(c, "over")
  /\ RejectCall(c)
  /\ faulty' = (faulty \/ outcome[c] = "pending")
  /\ UNCHANGED <<serverVars, emitting, state, streamVars, tasks, notices, last, overlapped>>

-----------------------------------------------------------------------------
(* The server (external), which refuses what is already so or repeats the  *)
(* event, and whose refusal the caller is told while it watches.           *)

ServerExecutes ==
  /\ requests # <<>>
  /\ Repeats \/ serverOn # (Head(requests) \in Enables)
  /\ requests' = Tail(requests)
  /\ serverOn' = (Head(requests) \in Enables)
  /\ wire' = Append(wire, serverOn')
  /\ UNCHANGED <<emitting, state, streamVars, tasks, notices, callVars, history>>

\* RtcApiImpl turns the answer into an error for the caller.
EnableRefused(c) == c \in Enables /\ RejectCall(c)
DisableRefused(c) == c \in Disables /\ RejectCall(c)

ServerRefuses ==
  /\ requests # <<>>
  /\ requests' = Tail(requests)
  /\ EnableRefused(Head(requests)) \/ DisableRefused(Head(requests))
  /\ faulty' = (faulty \/ serverOn # (Head(requests) \in Enables))
  /\ UNCHANGED <<serverOn, wire, emitting, state, streamVars, tasks, notices, phase,
                 last, overlapped>>

-----------------------------------------------------------------------------
(* The events.                                                             *)

\* _enable: only a call of enable that is watching takes notice.
EventEnables ==
  /\ phase' = [c \in Calls |->
       IF c \in Enables /\ phase[c] = "waiting" THEN "resuming" ELSE phase[c]]
  /\ UNCHANGED <<state, tasks, notices>>

\* _disable: onDisabled comes when the stream is off.
EventDisables ==
  /\ DisableStream("event")
  /\ notices' = IF state = "disabled" THEN notices + 1 ELSE notices
  /\ UNCHANGED phase

\* The channel finds the publication and tells it.
PublicationToggled(enabled) == IF enabled THEN EventEnables ELSE EventDisables

HandleEvent ==
  /\ wire # <<>>
  /\ wire' = Tail(wire)
  /\ emitting' \in {FALSE, Len(wire) > 1}
  /\ PublicationToggled(Head(wire))
  /\ UNCHANGED <<serverOn, requests, streamVars, outcome, history>>

EmitDisabled ==
  /\ notices > 0 /\ ~emitting
  /\ notices' = notices - 1
  /\ LET told == {c \in Disables : phase[c] = "waiting"} IN
       /\ phase' = [c \in Calls |-> IF c \in told THEN "over" ELSE phase[c]]
       /\ outcome' = [c \in Calls |->
            IF c \in told /\ outcome[c] = "pending" THEN "resolved" ELSE outcome[c]]
  /\ UNCHANGED <<serverVars, emitting, state, streamVars, tasks, history>>

Next ==
  \/ \E c \in Enables : Enable(c) \/ EnableAsks(c) \/ EnableResumes(c)
  \/ \E c \in Disables : Disable(c) \/ DisableStarts(c) \/ DisableAsks(c)
  \/ \E c \in Calls : WatchTimesOut(c)
  \/ \E s \in Streams : ReplaceStream(s) \/ StreamTask(s)
  \/ HandleEvent \/ EmitDisabled
  \/ ServerExecutes \/ ServerRefuses

Spec == Init /\ [][Next]_vars

\* Continuations run, timers fire and events are handled; nothing is assumed
\* of the application, nor that the server answers.
Fairness ==
  /\ \A c \in Enables : WF_vars(EnableAsks(c)) /\ WF_vars(EnableResumes(c))
  /\ \A c \in Disables : WF_vars(DisableStarts(c)) /\ WF_vars(DisableAsks(c))
  /\ \A c \in Calls : WF_vars(WatchTimesOut(c))
  /\ \A s \in Streams : WF_vars(StreamTask(s))
  /\ WF_vars(HandleEvent) /\ WF_vars(EmitDisabled)

FairSpec == Spec /\ Fairness

-----------------------------------------------------------------------------
Owners == Calls \cup {"event", "replace"}
Phases ==
  {"idle", "starting", "muting", "muted", "waiting", "resuming", "unmuting", "over"}
Outcomes == {"none", "pending", "resolved", "rejected"}

\* The shape of the state.
TypeOK ==
  /\ serverOn \in BOOLEAN
  /\ requests \in Seq(Calls)
  /\ wire \in Seq(BOOLEAN)
  /\ emitting \in BOOLEAN /\ (emitting => wire # <<>>)
  /\ state \in {"enabled", "disabled"}
  /\ stream \in Streams \ unused /\ unused \subseteq Streams
  /\ on \in [Streams -> BOOLEAN]
  /\ track \in [Streams -> {"own", "empty"}] /\ stopped \subseteq Streams
  /\ tasks \in [Streams -> Seq([on : BOOLEAN, owner : Owners])]
  /\ notices \in Nat
  /\ phase \in [Calls -> Phases]
  /\ outcome \in [Calls -> Outcomes]
  /\ last \in Calls \cup {None}
  /\ overlapped \in BOOLEAN /\ faulty \in BOOLEAN

\* Whatever calls, events and replacements meet, as soon as the stream has caught
\* up it is switched as the state says: disabled, it sends an empty track, and
\* enabled its own, live one, unless it is a stream that stops its track when
\* disabled and that has been.
StreamFollowsState ==
  tasks[stream] = <<>> =>
    /\ on[stream] = (state = "enabled")
    /\ state = "disabled" => track[stream] = "empty"
    /\ state = "enabled" /\ stream \notin Stopping \cap stopped =>
         track[stream] = "own" /\ stream \notin stopped

Quiet ==
  /\ requests = <<>> /\ wire = <<>> /\ notices = 0
  /\ \A s \in Streams : tasks[s] = <<>>
  /\ \A c \in Calls : ~UnderWay(c)

Agree == serverOn = (state = "enabled")

\* The promise of a call that had the publication to itself is resolved only
\* when the server and the client are both where it wanted them.
LastCallHolds ==
  ~overlapped /\ ~faulty /\ last # None =>
    (outcome[last] = "resolved" => Agree /\ serverOn = (last \in Enables))

\* enable and disable settle.
CallSettles ==
  \A c \in Calls : outcome[c] = "pending" ~> outcome[c] \in {"resolved", "rejected"}
=============================================================================
