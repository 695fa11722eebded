------------------------------ MODULE Register ------------------------------
(***************************************************************************)
(* What the blob file promises to the vault: a register whose reads and    *)
(* writes are single steps, and which comes out of a power failure with    *)
(* its last durable value or with one of those written since, never with   *)
(* part of a value.                                                        *)
(***************************************************************************)
CONSTANTS
  Client,     \* each does one thing, once; a value is named for its writer
  Old,        \* the value at the start
  NoFile,     \* no value
  Careful,    \* clients that replace only what they got
  Careless,   \* clients that replace whatever there is
  Lasting     \* clients whose value is durable when they are done

VARIABLES current, firm, loose, phase, got

vars == <<current, firm, loose, phase, got>>

Init == /\ current \in {Old, NoFile}
        /\ firm = current
        /\ loose = {}
        /\ phase = [c \in Client |-> "idle"]
        /\ got = [c \in Client |-> NoFile]

Become(c, from, to) == phase[c] = from /\ phase' = [phase EXCEPT ![c] = to]

Begin(c) == /\ Become(c, "idle", "busy")
            /\ UNCHANGED <<current, firm, loose, got>>

\* A value that was put is not lost any more.
Kept(c) == phase[c] = "put" /\ c \in Lasting => c \notin loose

Get(c) == /\ phase[c] \in {"busy", "put"}
          /\ got' = [got EXCEPT ![c] = current]
          /\ \/ UNCHANGED phase
             \/ phase' = [phase EXCEPT ![c] = "failed"]
             \/ phase' = [phase EXCEPT ![c] = "done"] /\ Kept(c)
          /\ UNCHANGED <<current, firm, loose>>

Put(c) == /\ Become(c, "busy", "put")
          /\ c \in Careful => current = got[c] \/ current \in Careless
          /\ current' = c
          /\ loose' = loose \cup {c}
          /\ UNCHANGED <<firm, got>>

Remove(c) == /\ Become(c, "busy", "done")
             /\ current' = NoFile
             /\ loose' = loose \cup {NoFile}
             /\ UNCHANGED <<firm, got>>

Settle == /\ firm' = current
          /\ loose' = {}
          /\ UNCHANGED <<current, phase, got>>

Return(c) == /\ Become(c, "busy", "done") \/ Become(c, "put", "done")
             /\ Kept(c)
             /\ UNCHANGED <<current, firm, loose, got>>

\* An error, or the death of the client: a value it has put stays.
Fail(c) == /\ phase[c] \in {"busy", "put"}
           /\ phase' = [phase EXCEPT ![c] = "failed"]
           /\ UNCHANGED <<current, firm, loose, got>>

PowerLoss == /\ current' \in {firm} \cup loose
             /\ firm' = current'
             /\ loose' = {}
             /\ phase' = [c \in Client |-> IF phase[c] \in {"busy", "put"} THEN "failed" ELSE phase[c]]
             /\ UNCHANGED got

Next == \/ \E c \in Client : Begin(c) \/ Get(c) \/ Put(c) \/ Remove(c) \/ Return(c) \/ Fail(c)
        \/ Settle
        \/ PowerLoss

Spec == Init /\ [][Next]_vars
=============================================================================
