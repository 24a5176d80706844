----------------------------- MODULE MCGc2World -----------------------------
(***************************************************************************)
(* Two workers, one of which runs host effects, and a host thread that may *)
(* force a collection.                                                     *)
(***************************************************************************)
EXTENDS Gc2World

CONSTANTS w1, w2, h

MCThreads == {w1, w2, h}
MCIoThreads == {w1}
MCHostThreads == {h}
=============================================================================
