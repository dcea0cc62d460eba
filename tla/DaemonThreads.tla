---------------------------- MODULE DaemonThreads ----------------------------
(***************************************************************************)
(* The daemon's event threads beside each other: the poller that turns     *)
(* RVD's results into motion events, the thread that acts on the events    *)
(* and the control server.  They share no state that either of them reads. *)
(***************************************************************************)
EXTENDS Motion, MotionActions, ControlServer

(* The poller's machine, events and shown level agree, and so do the       *)
(* actions' queue and clocks.                                              *)
ThreadsAreConsistent == MotionTypeOK /\ ActionTypeOK /\ EventsMatchTheLevel
=============================================================================
