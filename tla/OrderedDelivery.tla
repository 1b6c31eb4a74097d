-------------------------- MODULE OrderedDelivery --------------------------
(***************************************************************************)
(* What a channel's replica is promised by the event layer below it: it    *)
(* sees a prefix of the server's event log, starting after the snapshot it *)
(* was built from, however the network treats the events.  EventObserver   *)
(* implements it.                                                          *)
(***************************************************************************)
EXTENDS Integers, Sequences

CONSTANT Snapshot   \* the version of the snapshot

VARIABLES
  published,   \* the version of the last event in the server's log
  delivered    \* the events the replica has seen

Init == published = Snapshot /\ delivered = <<>>

Publish == published' = published + 1 /\ UNCHANGED delivered

\* One call may deliver several events: a late one releases its successors.
Deliver ==
  \E n \in 1 .. published - Snapshot - Len(delivered) :
    delivered' = delivered \o [i \in 1 .. n |->
                                 Snapshot + Len(delivered) + i]

Next == Publish \/ (Deliver /\ UNCHANGED published)

Spec == Init /\ [][Next]_<<published, delivered>>
=============================================================================
