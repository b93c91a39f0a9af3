---------------------------- MODULE MCTaskLocks -----------------------------
(* Two sessions, one worker, a queue of one and one reload. *)
EXTENDS TaskLocks
CONSTANTS s1, s2, w1
=============================================================================
