---------------------------- MODULE MCEventLoop ----------------------------
(* Three clients, of which one may die, and two descriptors: one is reused, or *)
(* there is none left.                                                         *)
EXTENDS EventLoop
=============================================================================
