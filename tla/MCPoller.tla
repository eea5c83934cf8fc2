------------------------------- MODULE MCPoller -------------------------------
(***************************************************************************)
(* Instances of Poller for TLC.                                            *)
(***************************************************************************)
EXTENDS Poller

CONSTANTS tunnel, listener, link1, link2

MCFirst == <<tunnel, listener>>
===============================================================================
