---------------------------- MODULE EventLoopMC ----------------------------
(***************************************************************************)
(* The instance of EventLoop for TLC.                                      *)
(***************************************************************************)
EXTENDS EventLoopProperties
=============================================================================
