-------------------------------- MODULE Mutex --------------------------------
(***************************************************************************)
(* What the credential lock promises to the code that uses it, without a   *)
(* queue, a file or a process: withLock(path, options, fn) either runs fn  *)
(* while no other client does, or gives up before fn starts.  A client     *)
(* that dies inside is taken out like one that leaves.                     *)
(***************************************************************************)
CONSTANT Client

VARIABLE phase

Init == phase = [c \in Client |-> "out"]

Request(c) == /\ phase[c] = "out"
              /\ phase' = [phase EXCEPT ![c] = "waiting"]

Grant(c) == /\ phase[c] = "waiting"
            /\ \A d \in Client : phase[d] # "holding"
            /\ phase' = [phase EXCEPT ![c] = "holding"]

\* Release, a passed deadline, or the death of any number of clients at once.
Withdraw(S) == /\ \E c \in S : phase[c] # "out"
               /\ phase' = [c \in Client |-> IF c \in S THEN "out" ELSE phase[c]]

Next == \/ \E c \in Client : Request(c) \/ Grant(c)
        \/ \E S \in SUBSET Client : Withdraw(S)

Spec == Init /\ [][Next]_phase

\* A client goes, alone or with others that die with it.
Leave(c) == \E S \in SUBSET Client : c \in S /\ phase[c] # "out" /\ Withdraw(S)

\* The holder lets go in the end, and whoever waits while the lock is free
\* again and again is let in, or leaves by itself.
FairSpec ==
  /\ Spec
  /\ \A c \in Client : WF_phase(phase[c] = "holding" /\ Leave(c))
  /\ \A c \in Client : SF_phase(Grant(c) \/ (phase[c] = "waiting" /\ Leave(c)))
=============================================================================
