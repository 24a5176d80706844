------------------------------- MODULE NativeLog -------------------------------
(***************************************************************************)
(* What the native arena promises about its history: a log of saved roots  *)
(* that only grows, of which at most the newest entry is ever in doubt.    *)
(*                                                                         *)
(*   log    the history an opener of the store would read now              *)
(*   sure   the part of it that survives a loss of power                   *)
(*                                                                         *)
(* NativeStore implements this specification.                              *)
(***************************************************************************)
EXTENDS Integers, Sequences

CONSTANT Hashes

VARIABLES log, sure

logVars == <<log, sure>>

LogInit == log = <<>> /\ sure = <<>>

(* A new root becomes visible.  Nothing may be in doubt at that moment, and *)
(* saving the root that is already the newest adds no entry.                *)
Publish(h) ==
  /\ sure = log
  /\ log # <<>> => log[Len(log)] # h
  /\ log' = Append(log, h)
  /\ sure' = sure

(* A file synchronisation settles the entry in doubt. *)
Confirm == sure' = log /\ log' = log

(* The machine stops: the entry in doubt either stays or goes. *)
Lose == log' \in {log, sure} /\ sure' = log'

LogNext == Confirm \/ Lose \/ \E h \in Hashes : Publish(h)

LogSpec == LogInit /\ [][LogNext]_logVars

(* The promise in one formula: what is sure is a prefix of what is visible, *)
(* short of it by one entry at most.                                        *)
OneInDoubt ==
  /\ Len(sure) <= Len(log) /\ Len(log) <= Len(sure) + 1
  /\ \A i \in 1..Len(sure) : sure[i] = log[i]
================================================================================
