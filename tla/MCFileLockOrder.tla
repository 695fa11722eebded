-------------------------- MODULE MCFileLockOrder --------------------------
(* Two calls of FileLock in a process each, for what must happen, and for  *)
(* the order in which it does.                                             *)
EXTENDS FileLockOrder

MCTwoCalls == 1..2

MCOwnProcess == [c \in Call |-> c]
===========================================================================
