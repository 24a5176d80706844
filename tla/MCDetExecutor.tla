---------------------------- MODULE MCDetExecutor ----------------------------
(***************************************************************************)
(* The deterministic executor on a small instance.  The answers of the     *)
(* host are interchangeable.                                               *)
(***************************************************************************)
EXTENDS DetExecutor, TLC

AllOps ==
  {"done", "exn", "malformed", "yield", "recv", "sleep", "spawn", "send", "sendcaps",
   "close", "io", "readbat", "readfolder", "fetch"}

Symmetry == Permutations(Results)
=============================================================================
