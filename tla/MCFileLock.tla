---------------------------- MODULE MCFileLock ----------------------------
(* Three calls of FileLock in a process each, for what must not happen.    *)
EXTENDS FileLock

MCThreeCalls == 1..3

MCOwnProcess == [c \in Call |-> c]
===========================================================================
