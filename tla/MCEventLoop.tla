---------------------------- MODULE MCEventLoop ----------------------------
(***************************************************************************)
(* EventLoop for TLC.  The agent has one line of each sort that a gate, or *)
(* the reader of the log, tells from the others.                           *)
(***************************************************************************)
EXTENDS EventLoop
=============================================================================
