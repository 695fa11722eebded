---------------------------- MODULE FileLockOrder ----------------------------
(***************************************************************************)
(* FileLock with a history variable: for each call, the calls that had     *)
(* already published their number when it raised its choosing flag.        *)
(***************************************************************************)
EXTENDS FileLock

VARIABLE ahead

Waiting == {"queued", "scanning"}

OrderInit == Init /\ ahead = [c \in Call |-> {}]

Remember ==
  ahead' = [d \in Call |-> IF pc[d] = "idle" /\ pc'[d] = "choosing"
                           THEN {c \in Call : pc[c] \in Waiting}
                           ELSE ahead[d]]

OrderNext == Next /\ Remember

OrderSpec == OrderInit /\ [][OrderNext]_<<vars, ahead>>

FairOrderSpec == OrderSpec /\ Fairness

(* First come, first served: a call that arrives when another one already  *)
(* has its number in the queue is not past the queue before that one is    *)
(* served, fails or dies.                                                  *)
FirstComeFirstServed ==
  \A d \in Call : pc[d] \in Won => \A c \in ahead[d] : pc[c] \notin Waiting
=============================================================================
