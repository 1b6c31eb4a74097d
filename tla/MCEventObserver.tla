-------------------------- MODULE MCEventObserver --------------------------
(***************************************************************************)
(* EventObserver with the snapshot at version 7, so that the events to     *)
(* come, 8 .. MCLast, straddle the change from one to two digits, where    *)
(* the string order of the buffer's keys differs from their numeric order. *)
(***************************************************************************)
EXTENDS EventObserver

MCSnapshot == 7
MCLast == 11
=============================================================================
