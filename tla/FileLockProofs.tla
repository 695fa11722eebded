--------------------------- MODULE FileLockProofs ---------------------------
(***************************************************************************)
(* Proofs about FileLock for any set of calls and processes, any faults    *)
(* and any initial content of the lock path; at the end, that the queue    *)
(* serves first whoever came first.                                        *)
(***************************************************************************)
EXTENDS FileLockOrder, TLAPS

(* The named parts of a step, so that each proof below can go by cases.    *)
LEMMA StepCases ==
  ASSUME Next
  PROVE  \/ \E c \in Call :
              \/ Enter(c) \/ Counted(c) \/ Publish(c) \/ Win(c) \/ Link(c)
              \/ Inspect(c) \/ Judge(c) \/ Reclaim(c) \/ Acquired(c)
              \/ Unlock(c) \/ Leave(c) \/ Fail(c)
              \/ UnlockUnread(c) \/ UnlockThrows(c) \/ LeaveThrows(c)
              \/ Readdir(c, "choosing", "counting")
              \/ Readdir(c, "queued", "scanning")
              \/ \E d \in Call : CheckPeer(c, d) \/ Count(c, d) \/ Examine(c, d)
         \/ \E p \in Process, state \in {"zombie", "dead"} : Kill(p, state) \/ Exit(p, state)
         \/ \E p \in Process : Reap(p)
         \/ Age \/ ForeignRelease \/ UNCHANGED vars
  BY DEF Next, Proceed, Terminated

(* Types: every variable keeps to its set of values.                       *)
LEMMA TypeStep == TypeOK /\ [Next]_vars => TypeOK'
<1> SUFFICES ASSUME TypeOK, [Next]_vars PROVE TypeOK'
  OBVIOUS
<1>1. ASSUME NEW c \in Call, Enter(c) PROVE TypeOK'
  BY <1>1 DEF Enter, TypeOK, Goto, PC, path
<1>2. ASSUME NEW c \in Call, \/ Counted(c) \/ Win(c) \/ Acquired(c)
                                 \/ Fail(c) \/ UnlockUnread(c) \/ UnlockThrows(c)
      PROVE  TypeOK'
  BY <1>2 DEF Counted, Win, Acquired, Fail, UnlockUnread, UnlockThrows, TypeOK, Goto, PC, tickets, scan, path
<1>3. ASSUME NEW c \in Call, Publish(c) PROVE TypeOK'
  BY <1>3 DEF Publish, TypeOK, Goto, PC, scan, path
<1>4. ASSUME NEW c \in Call, Link(c) \/ Reclaim(c) \/ Unlock(c) PROVE TypeOK'
  BY <1>4 DEF Link, Reclaim, Unlock, TypeOK, Goto, PC, tickets, scan, LockValue, Unowned
<1>5. ASSUME NEW c \in Call, Inspect(c) \/ Judge(c) PROVE TypeOK'
  BY <1>5 DEF Inspect, Judge, TypeOK, Goto, PC, tickets, scan, path
<1>6. ASSUME NEW c \in Call, Leave(c) \/ LeaveThrows(c) PROVE TypeOK'
  <2>1. number' = number \/ number' = [number EXCEPT ![c] = 0]
    BY <1>6 DEF Leave, LeaveThrows, RemoveTicket
  <2>2. number' \in [Call -> Nat]
    BY <2>1 DEF TypeOK
  <2>3. dir' \in [Call -> BOOLEAN]
    BY <1>6 DEF Leave, LeaveThrows, RemoveTicket, TypeOK
  <2>4. pc' = [pc EXCEPT ![c] = "done"] \/ pc' = [pc EXCEPT ![c] = "failed"]
    BY <1>6 DEF Leave, LeaveThrows, Goto
  <2>5. pc' \in [Call -> PC]
    BY <2>4 DEF TypeOK, PC
  <2> QED
    BY <1>6, <2>2, <2>3, <2>5 DEF Leave, LeaveThrows, TypeOK, scan, path
<1>7. ASSUME NEW c \in Call, Readdir(c, "choosing", "counting") \/ Readdir(c, "queued", "scanning")
      PROVE TypeOK'
  BY <1>7 DEF Readdir, TypeOK, Goto, PC, tickets, path
<1>8. ASSUME NEW c \in Call, NEW d \in Call, CheckPeer(c, d) PROVE TypeOK'
  <2>1. CASE OwnerIsDead(d)
    <3>1. dir' = [dir EXCEPT ![d] = FALSE] /\ number' = [number EXCEPT ![d] = 0]
      BY <1>8, <2>1 DEF CheckPeer, RemoveTicket
    <3>2. listed' \in [Call -> SUBSET Call]
      BY <1>8 DEF CheckPeer, TypeOK
    <3> QED
      BY <1>8, <2>1, <3>1, <3>2 DEF CheckPeer, TypeOK, path
  <2>2. CASE ~OwnerIsDead(d)
    BY <1>8, <2>2 DEF CheckPeer, TypeOK, tickets, path
  <2> QED
    BY <2>1, <2>2
<1>9. ASSUME NEW c \in Call, NEW d \in Call, Count(c, d) PROVE TypeOK'
  <2>1. Max2(own[c], number[d] + 1) \in Nat
    BY DEF Max2, TypeOK
  <2>2. own' = [own EXCEPT ![c] = Max2(own[c], number[d] + 1)]
    BY <1>9 DEF Count
  <2>3. peers' = [peers EXCEPT ![c] = peers[c] \ {d}]
    BY <1>9 DEF Count
  <2> QED
    BY <1>9, <2>1, <2>2, <2>3 DEF Count, TypeOK, tickets, path
<1>10. ASSUME NEW c \in Call, NEW d \in Call, Examine(c, d) PROVE TypeOK'
  <2>1. CASE Blocks(d, c)
    BY <1>10, <2>1 DEF Examine, TypeOK, Goto, PC, tickets, path
  <2>2. CASE ~Blocks(d, c)
    BY <1>10, <2>2 DEF Examine, TypeOK, tickets, path
  <2> QED
    BY <2>1, <2>2
<1>11. ASSUME NEW p \in Process, NEW state \in {"zombie", "dead"}, Kill(p, state) \/ Exit(p, state)
       PROVE TypeOK'
  <2>1. pc' \in [Call -> PC]
    BY <1>11 DEF Kill, Exit, Stop, TypeOK, PC
  <2>2. os' \in [Process -> {"alive", "zombie", "dead"}]
    <3>1. os' = [os EXCEPT ![p] = state]
      BY <1>11 DEF Kill, Exit, Stop
    <3> QED
      BY <1>11, <3>1 DEF TypeOK
  <2>3. dir' \in [Call -> BOOLEAN] /\ number' \in [Call -> Nat]
    <3>1. CASE Kill(p, state)
      BY <3>1 DEF Kill, TypeOK, tickets
    <3>2. CASE Exit(p, state)
      <4>1. PICK gone \in SUBSET Call :
              /\ dir' = [c \in Call |-> IF c \in gone THEN FALSE ELSE dir[c]]
              /\ number' = [c \in Call |-> IF c \in gone THEN 0 ELSE number[c]]
        BY <3>2 DEF Exit, Calls
      <4>2. \A c \in Call : dir[c] \in BOOLEAN /\ number[c] \in Nat
        BY DEF TypeOK
      <4> QED
        BY <4>1, <4>2
    <3> QED
      BY <1>11, <3>1, <3>2
  <2>4. lock' \in LockValue
    BY <1>11 DEF Kill, Exit, TypeOK, LockValue, Unowned
  <2> QED
    BY <1>11, <2>1, <2>2, <2>3, <2>4 DEF Kill, Exit, Stop, TypeOK, scan
<1>12. ASSUME NEW p \in Process, Reap(p) PROVE TypeOK'
  BY <1>12 DEF Reap, TypeOK, tickets, scan, path
<1>13. CASE Age \/ ForeignRelease \/ UNCHANGED vars
  BY <1>13 DEF Age, ForeignRelease, TypeOK, LockValue, Unowned, vars, tickets, scan, path
<1> QED
  BY <1>1, <1>2, <1>3, <1>4, <1>5, <1>6, <1>7, <1>8, <1>9, <1>10, <1>11, <1>12, <1>13, StepCases

LEMMA TypeInit == Init => TypeOK
<1> SUFFICES ASSUME Init PROVE TypeOK
  OBVIOUS
<1>1. lock \in LockValue /\ seen \in [Call -> LockValue]
  BY UnownedAssumption DEF Init, LockValue, Unowned
<1>2. pc \in [Call -> PC]
  BY DEF Init, PC
<1> QED
  BY <1>1, <1>2 DEF Init, TypeOK

(* Every behaviour of the lock is well typed.                              *)
THEOREM TypeCorrect == Spec => []TypeOK
  BY TypeInit, TypeStep, PTL DEF Spec

-----------------------------------------------------------------------------
(* The death of a process: what it does to each call and to the lock path. *)
Dies(c, p) ==
  /\ ProcOf[c] # p => pc'[c] = pc[c] /\ dir'[c] = dir[c] /\ number'[c] = number[c]
  /\ ProcOf[c] = p =>
       /\ pc[c] \in {"done", "failed"} => pc'[c] = pc[c]
       /\ pc[c] \notin {"done", "failed"} => pc'[c] = "dead"
       /\ \/ dir'[c] = dir[c] /\ number'[c] = number[c]
          \/ dir'[c] = FALSE /\ number'[c] = 0

LEMMA Death ==
  ASSUME TypeOK, NEW p \in Process, NEW state \in {"zombie", "dead"},
         Kill(p, state) \/ Exit(p, state)
  PROVE  /\ os[p] = "alive" /\ os' = [os EXCEPT ![p] = state]
         /\ \A c \in Call : Dies(c, p)
         /\ \/ lock' = lock
            \/ lock' = NoFile /\ lock \in Call /\ ProcOf[lock] = p /\ pc[lock] \in {"held", "stuck"}
         /\ UNCHANGED <<own, listed, peers, seen, aged>>
<1> USE DEF Dies
<1>1. Stop(p, state)
  BY DEF Kill, Exit
<1>2. CASE Kill(p, state)
  BY <1>1, <1>2 DEF Kill, Stop, Calls, TypeOK, tickets, scan
<1>3. CASE Exit(p, state)
  <2>1. PICK gone \in SUBSET Calls(p) :
          /\ dir' = [c \in Call |-> IF c \in gone THEN FALSE ELSE dir[c]]
          /\ number' = [c \in Call |-> IF c \in gone THEN 0 ELSE number[c]]
    BY <1>3 DEF Exit
  <2>2. \/ lock' = lock
        \/ lock' = NoFile /\ lock \in Call /\ ProcOf[lock] = p /\ pc[lock] \in {"held", "stuck"}
    BY <1>3 DEF Exit, Calls
  <2> QED
    BY <1>1, <2>1, <2>2 DEF Stop, Calls, TypeOK, scan
<1> QED
  BY <1>2, <1>3

-----------------------------------------------------------------------------
(* Tickets: every action keeps TicketInv. An action of call c disturbs the *)
(* ticket of c, a scan that of a dead call, a death those of its process.  *)
LEMMA TicketStep == TypeOK /\ TicketInv /\ [Next]_vars => TicketInv'
<1> SUFFICES ASSUME TypeOK, TicketInv, [Next]_vars PROVE TicketInv'
  OBVIOUS
<1> USE ProcOfAssumption DEF Goto, Published, Won, Over, TicketOK
<1>1. ASSUME NEW c \in Call, Enter(c) PROVE TicketInv'
  BY <1>1 DEF Enter, TicketInv, TypeOK, path
<1>2. ASSUME NEW c \in Call, \/ Counted(c) \/ Win(c) \/ Acquired(c)
                                 \/ UnlockUnread(c) \/ UnlockThrows(c)
      PROVE  TicketInv'
  BY <1>2 DEF Counted, Win, Acquired, UnlockUnread, UnlockThrows, TicketInv, TypeOK, tickets, scan, path
<1>3. ASSUME NEW c \in Call, Publish(c) PROVE TicketInv'
  BY <1>3 DEF Publish, TicketInv, TypeOK, scan, path
<1>4. ASSUME NEW c \in Call, Link(c) \/ Reclaim(c) \/ Unlock(c) PROVE TicketInv'
  BY <1>4 DEF Link, Reclaim, Unlock, TicketInv, TypeOK, tickets, scan
<1>5. ASSUME NEW c \in Call, Inspect(c) \/ Judge(c) PROVE TicketInv'
  BY <1>5 DEF Inspect, Judge, TicketInv, TypeOK, tickets, scan, path
<1>6. ASSUME NEW c \in Call, Leave(c) \/ LeaveThrows(c) PROVE TicketInv'
  BY <1>6 DEF Leave, LeaveThrows, RemoveTicket, TicketInv, TypeOK, scan, path
<1>7. ASSUME NEW c \in Call, Readdir(c, "choosing", "counting") \/ Readdir(c, "queued", "scanning")
      PROVE TicketInv'
  BY <1>7 DEF Readdir, TicketInv, TypeOK, tickets, path
<1>8. ASSUME NEW c \in Call, NEW d \in Call, CheckPeer(c, d) PROVE TicketInv'
  <2>1. CASE OwnerIsDead(d)
    BY <1>8, <2>1 DEF CheckPeer, RemoveTicket, OwnerIsDead, TicketInv, TypeOK, path
  <2>2. CASE ~OwnerIsDead(d)
    BY <1>8, <2>2 DEF CheckPeer, TicketInv, TypeOK, tickets, path
  <2> QED
    BY <2>1, <2>2
<1>9. ASSUME NEW c \in Call, NEW d \in Call, Count(c, d) PROVE TicketInv'
  <2>1. own' = [own EXCEPT ![c] = Max2(own[c], number[d] + 1)]
    BY <1>9 DEF Count
  <2>2. Max2(own[c], number[d] + 1) \in Nat /\ Max2(own[c], number[d] + 1) > 0
    BY DEF Max2, TypeOK
  <2> QED
    BY <1>9, <2>1, <2>2 DEF Count, TicketInv, TypeOK, tickets, path
<1>10. ASSUME NEW c \in Call, NEW d \in Call, Examine(c, d) PROVE TicketInv'
  BY <1>10 DEF Examine, TicketInv, TypeOK, tickets, path
<1>11. ASSUME NEW c \in Call, Fail(c) PROVE TicketInv'
  BY <1>11 DEF Fail, Trying, TicketInv, TypeOK, tickets, scan, path
<1>12. ASSUME NEW p \in Process, NEW state \in {"zombie", "dead"}, Kill(p, state) \/ Exit(p, state)
       PROVE TicketInv'
  <2> SUFFICES ASSUME NEW c \in Call PROVE TicketOK(c)'
    BY DEF TicketInv
  <2>1. UNCHANGED <<own, listed, peers>> /\ os' = [os EXCEPT ![p] = state] /\ Dies(c, p)
    BY <1>12, Death
  <2>2. CASE ProcOf[c] # p
    BY <2>1, <2>2 DEF Dies, TicketInv, TypeOK
  <2>3. CASE ProcOf[c] = p
    BY <2>1, <2>3 DEF Dies, TicketInv
  <2> QED
    BY <2>2, <2>3
<1>13. ASSUME NEW p \in Process, Reap(p) PROVE TicketInv'
  BY <1>13 DEF Reap, TicketInv, TypeOK, tickets, scan, path
<1>14. CASE Age \/ ForeignRelease \/ UNCHANGED vars
  BY <1>14 DEF Age, ForeignRelease, TicketInv, vars, tickets, scan, path
<1> QED
  BY <1>1, <1>2, <1>3, <1>4, <1>5, <1>6, <1>7, <1>8, <1>9, <1>10, <1>11, <1>12, <1>13, <1>14, StepCases

-----------------------------------------------------------------------------
(* The queue: every action keeps QueueInv.                                 *)

(* The order of (number, ticket name) is total and irreflexive.            *)
LEMMA BeforeOrder ==
  ASSUME NEW c \in Call, NEW d \in Call, c # d, NEW m \in Nat, NEW n \in Nat
  PROVE  Before(m, c, n, d) <=> ~Before(n, d, m, c)
  BY CallAssumption DEF Before

LEMMA QueueStep == TypeOK /\ TicketInv /\ QueueInv /\ [Next]_vars => QueueInv'
<1> SUFFICES ASSUME TypeOK, TicketInv, QueueInv, [Next]_vars,
                    NEW c \in Call, NEW d \in Call, c # d
             PROVE  QueueOK(c, d)'
  BY DEF QueueInv, QueueOK
<1> USE DEF Goto, QueueInv, QueueOK, Behind, Won
<1>0. TicketOK(c) /\ TicketOK(d) /\ QueueOK(c, d)
  BY DEF TicketInv
<1>1. ASSUME NEW e \in Call, Enter(e) PROVE QueueOK(c, d)'
  BY <1>0, <1>1 DEF Enter, TypeOK
<1>2. ASSUME NEW e \in Call, Counted(e) PROVE QueueOK(c, d)'
  BY <1>0, <1>2 DEF Counted, TypeOK, scan
<1>3. ASSUME NEW e \in Call, Publish(e) PROVE QueueOK(c, d)'
  BY <1>0, <1>3, CallAssumption DEF Publish, Before, TypeOK, scan
<1>4. ASSUME NEW e \in Call, Win(e) PROVE QueueOK(c, d)'
  BY <1>0, <1>4 DEF Win, TypeOK, scan
<1>5. ASSUME NEW e \in Call, Link(e) \/ Inspect(e) \/ Judge(e) \/ Reclaim(e) PROVE QueueOK(c, d)'
  BY <1>0, <1>5 DEF Link, Inspect, Judge, Reclaim, TypeOK, scan
<1>6. ASSUME NEW e \in Call, \/ Acquired(e) \/ Unlock(e) \/ Leave(e)
                                 \/ Fail(e) \/ UnlockUnread(e) \/ UnlockThrows(e) \/ LeaveThrows(e)
      PROVE  QueueOK(c, d)'
  BY <1>0, <1>6 DEF Acquired, Unlock, Leave, Fail, UnlockUnread, UnlockThrows, LeaveThrows, TypeOK, scan
<1>7. ASSUME NEW e \in Call, Readdir(e, "choosing", "counting") PROVE QueueOK(c, d)'
  BY <1>0, <1>7 DEF Readdir, TypeOK, TicketOK, Over
<1>8. ASSUME NEW e \in Call, Readdir(e, "queued", "scanning") PROVE QueueOK(c, d)'
  BY <1>0, <1>8 DEF Readdir, TypeOK, TicketOK, Over
<1>9. ASSUME NEW e \in Call, NEW f \in Call, CheckPeer(e, f) PROVE QueueOK(c, d)'
  BY <1>0, <1>9 DEF CheckPeer, OwnerIsDead, TicketOK, Over, TypeOK
<1>10. ASSUME NEW e \in Call, NEW f \in Call, Count(e, f) PROVE QueueOK(c, d)'
  BY <1>0, <1>10 DEF Count, Max2, TicketOK, Published, TypeOK
<1>11. ASSUME NEW e \in Call, NEW f \in Call, Examine(e, f) PROVE QueueOK(c, d)'
  <2>1. CASE e # c
    BY <1>0, <1>11, <2>1 DEF Examine, TypeOK
  <2>2. CASE e = c /\ (Blocks(f, e) \/ f # d)
    BY <1>0, <1>11, <2>2 DEF Examine, TypeOK
  <2>3. CASE e = c /\ f = d /\ ~Blocks(d, c)
    <3>1. UNCHANGED <<pc, own, listed>>
      BY <1>11, <2>3 DEF Examine
    <3>2. pc[d] \notin {"counting", "publish"}
      BY <1>0, <2>3 DEF Blocks, TicketOK, Over
    <3>3. CASE pc[d] \in {"queued", "scanning"} \cup Won
      <4>1. number[d] = own[d] /\ own[d] > 0
        BY <1>0, <3>3 DEF TicketOK, Published
      <4> QED
        BY <2>3, <3>1, <3>2, <4>1, BeforeOrder DEF Blocks, TypeOK
    <3> QED
      BY <3>1, <3>2, <3>3
  <2> QED
    BY <2>1, <2>2, <2>3
<1>12. ASSUME NEW p \in Process, NEW state \in {"zombie", "dead"}, Kill(p, state) \/ Exit(p, state)
       PROVE QueueOK(c, d)'
  <2>1. UNCHANGED <<own, listed, peers>> /\ Dies(c, p) /\ Dies(d, p)
    BY <1>12, Death
  <2> QED
    BY <1>0, <2>1 DEF Dies
<1>13. ASSUME NEW p \in Process, Reap(p) PROVE QueueOK(c, d)'
  BY <1>0, <1>13 DEF Reap, scan
<1>14. CASE Age \/ ForeignRelease \/ UNCHANGED vars
  BY <1>0, <1>14 DEF Age, ForeignRelease, vars, scan
<1> QED
  BY <1>1, <1>2, <1>3, <1>4, <1>5, <1>6, <1>7, <1>8, <1>9, <1>10, <1>11, <1>12, <1>13, <1>14, StepCases

(* Two calls cannot both be past the queue: each would come before the     *)
(* other in the order of the tickets.                                      *)
LEMMA Exclusion == TypeOK /\ TicketInv /\ QueueInv => OneWinner
<1> SUFFICES ASSUME TypeOK, TicketInv, QueueInv, NEW c \in Call, NEW d \in Call,
                    pc[c] \in Won, pc[d] \in Won, c # d
             PROVE  FALSE
  BY DEF OneWinner
<1>1. Before(own[c], c, own[d], d)
  BY DEF TicketInv, TicketOK, QueueInv, QueueOK, Behind
<1>2. Before(own[d], d, own[c], c)
  BY DEF TicketInv, TicketOK, QueueInv, QueueOK, Behind
<1> QED
  BY <1>1, <1>2, BeforeOrder DEF TypeOK

-----------------------------------------------------------------------------
(* The lock path: only the winner of the queue changes it, so what it read *)
(* there is what it removes, and its own file stays while it holds.        *)
LEMMA PathStep ==
  TypeOK /\ OneWinner /\ HolderOwnsFile /\ PathInv /\ [Next]_vars => HolderOwnsFile' /\ PathInv'
<1> SUFFICES ASSUME TypeOK, OneWinner, HolderOwnsFile, PathInv, [Next]_vars
             PROVE  HolderOwnsFile' /\ PathInv'
  OBVIOUS
<1> USE UnownedAssumption DEF Goto, HolderOwnsFile, PathInv, Unowned, OwnerIsDead
<1>1. ASSUME NEW c \in Call, Enter(c) \/ Counted(c) \/ Publish(c) \/ Win(c) \/ Leave(c) \/ Fail(c)
      PROVE  HolderOwnsFile' /\ PathInv'
  BY <1>1 DEF Enter, Counted, Publish, Win, Leave, Fail, Trying, TypeOK, path
<1>2. ASSUME NEW c \in Call, Link(c) PROVE HolderOwnsFile' /\ PathInv'
  BY <1>2 DEF Link, OneWinner, Won, TypeOK
<1>3. ASSUME NEW c \in Call, Inspect(c) PROVE HolderOwnsFile' /\ PathInv'
  BY <1>3 DEF Inspect, OneWinner, Won, TypeOK, LockValue, path
<1>4. ASSUME NEW c \in Call, Judge(c) PROVE HolderOwnsFile' /\ PathInv'
  BY <1>4 DEF Judge, EmptyAndOld, TypeOK, path
<1>5. ASSUME NEW c \in Call, Reclaim(c) PROVE HolderOwnsFile' /\ PathInv'
  BY <1>5 DEF Reclaim, OneWinner, Won, TypeOK
<1>6. ASSUME NEW c \in Call, Acquired(c) \/ UnlockUnread(c) \/ UnlockThrows(c) \/ LeaveThrows(c)
      PROVE  HolderOwnsFile' /\ PathInv'
  BY <1>6 DEF Acquired, UnlockUnread, UnlockThrows, LeaveThrows, TypeOK, path
<1>7. ASSUME NEW c \in Call, Unlock(c) PROVE HolderOwnsFile' /\ PathInv'
  BY <1>7 DEF Unlock, OneWinner, Won, TypeOK
<1>8. ASSUME NEW c \in Call, Readdir(c, "choosing", "counting") \/ Readdir(c, "queued", "scanning")
      PROVE  HolderOwnsFile' /\ PathInv'
  BY <1>8 DEF Readdir, TypeOK, path
<1>9. ASSUME NEW c \in Call, NEW d \in Call, CheckPeer(c, d) \/ Count(c, d) \/ Examine(c, d)
      PROVE  HolderOwnsFile' /\ PathInv'
  BY <1>9 DEF CheckPeer, Count, Examine, TypeOK, path
<1>10. ASSUME NEW p \in Process, NEW state \in {"zombie", "dead"}, Kill(p, state) \/ Exit(p, state)
       PROVE  HolderOwnsFile' /\ PathInv'
  <2>1. /\ os[p] = "alive" /\ os' = [os EXCEPT ![p] = state]
        /\ \A c \in Call : Dies(c, p)
        /\ \/ lock' = lock
           \/ lock' = NoFile /\ lock \in Call /\ ProcOf[lock] = p /\ pc[lock] \in {"held", "stuck"}
        /\ seen' = seen
    BY <1>10, Death
  <2>2. HolderOwnsFile'
    BY <2>1 DEF Dies
  <2>3. PathInv'
    BY <2>1, ProcOfAssumption DEF Dies, TypeOK
  <2> QED
    BY <2>2, <2>3
<1>11. ASSUME NEW p \in Process, Reap(p) PROVE HolderOwnsFile' /\ PathInv'
  BY <1>11, ProcOfAssumption DEF Reap, TypeOK, path
<1>12. CASE Age \/ ForeignRelease \/ UNCHANGED vars
  BY <1>12 DEF Age, ForeignRelease, vars, path
<1> QED
  BY <1>1, <1>2, <1>3, <1>4, <1>5, <1>6, <1>7, <1>8, <1>9, <1>10, <1>11, <1>12, StepCases

(* The invariant holds at the start and every step keeps it.               *)
LEMMA Inductive == Spec => []IndInv
<1>1. Init => TypeOK
  BY TypeInit
<1>2. Init => TicketInv /\ QueueInv /\ HolderOwnsFile /\ PathInv
  BY ProcOfAssumption, UnownedAssumption
  DEF Init, TicketInv, TicketOK, Published, Won, Over, QueueInv, QueueOK, HolderOwnsFile, PathInv
<1>3. IndInv /\ [Next]_vars => IndInv'
  BY TypeStep, TicketStep, QueueStep, Exclusion, PathStep DEF IndInv
<1> QED
  BY <1>1, <1>2, <1>3, PTL DEF Spec, IndInv

(* No two calls are ever past the queue: acquireLock returns to one caller *)
(* at a time, and only that caller touches the lock path.                  *)
THEOREM MutualExclusion == Spec => []OneWinner
<1>1. IndInv => OneWinner
  BY Exclusion DEF IndInv
<1> QED
  BY <1>1, Inductive, PTL

(* While a call holds the lock, the lock file is the one it linked.        *)
THEOREM HolderNamed == Spec => []HolderOwnsFile
<1>1. IndInv => HolderOwnsFile
  BY DEF IndInv
<1> QED
  BY <1>1, Inductive, PTL

(* Nothing stays behind a call that has returned or thrown, but what it    *)
(* failed to remove itself.                                                *)
THEOREM CleanedUp == Spec => []LeavesNothing
<1>1. IndInv => LeavesNothing
  BY DEF IndInv, TicketInv, TicketOK, PathInv, LeavesNothing
<1> QED
  BY <1>1, Inductive, PTL

(* A lock file goes away only through its holder or after its owner's      *)
(* death, for any number of calls and however long it is held.             *)
THEOREM LiveOwnerKeepsLock == Spec => NeverStolen
<1> DEFINE Kept == \A c \in Call : lock = c /\ lock' # c =>
                     OwnerIsDead(c) \/ (pc[c] \in {"held", "stuck"} /\ pc'[c] # pc[c])
<1>1. ASSUME IndInv, [Next]_vars PROVE Kept
  <2> SUFFICES ASSUME NEW c \in Call, lock = c, lock' # c
               PROVE  OwnerIsDead(c) \/ (pc[c] \in {"held", "stuck"} /\ pc'[c] # pc[c])
    OBVIOUS
  <2>1. TypeOK /\ PathInv
    BY <1>1 DEF IndInv
  <2>2. lock # NoFile /\ lock # Foreign
    BY UnownedAssumption DEF Unowned
  <2>3. ASSUME NEW d \in Call, Link(d) PROVE FALSE
    BY <2>2, <2>3 DEF Link
  <2>4. ASSUME NEW d \in Call, Reclaim(d) PROVE OwnerIsDead(c)
    BY <2>1, <2>4 DEF Reclaim, PathInv
  <2>5. ASSUME NEW d \in Call, Unlock(d) PROVE pc[c] = "held" /\ pc'[c] = "unlocked"
    BY <2>1, <2>5 DEF Unlock, Goto, TypeOK
  <2>6. ASSUME NEW p \in Process, NEW state \in {"zombie", "dead"}, Kill(p, state) \/ Exit(p, state)
        PROVE  pc[c] \in {"held", "stuck"} /\ pc'[c] = "dead"
    BY <2>1, <2>6, Death DEF Dies
  <2>7. ASSUME NEW d \in Call,
               \/ Enter(d) \/ Counted(d) \/ Publish(d) \/ Win(d) \/ Inspect(d)
               \/ Judge(d) \/ Acquired(d) \/ Leave(d) \/ Fail(d)
               \/ UnlockUnread(d) \/ UnlockThrows(d) \/ LeaveThrows(d)
               \/ Readdir(d, "choosing", "counting") \/ Readdir(d, "queued", "scanning")
        PROVE  FALSE
    BY <2>7 DEF Enter, Counted, Publish, Win, Inspect, Judge, Acquired, Leave, Fail,
               UnlockUnread, UnlockThrows, LeaveThrows, Readdir, path
  <2>8. ASSUME NEW d \in Call, NEW e \in Call, CheckPeer(d, e) \/ Count(d, e) \/ Examine(d, e)
        PROVE  FALSE
    BY <2>8 DEF CheckPeer, Count, Examine, path
  <2>9. ASSUME (\E p \in Process : Reap(p)) \/ Age \/ ForeignRelease \/ UNCHANGED vars
        PROVE  FALSE
    BY <2>2, <2>9 DEF Reap, Age, ForeignRelease, vars, path
  <2> QED
    BY <1>1, <2>3, <2>4, <2>5, <2>6, <2>7, <2>8, <2>9, StepCases
<1>2. IndInv /\ [Next]_vars => [Kept]_vars
  BY <1>1
<1> QED
  BY <1>2, Inductive, PTL DEF Spec, NeverStolen

-----------------------------------------------------------------------------
(* The refinement: what a step of the lock is in the abstract mutex.       *)

(* An action of one call is a request, a grant, a withdrawal or nothing.   *)
LEMMA CallStepRefines ==
  ASSUME TypeOK, OneWinner, NEW c \in Call, NEW label \in PC, Goto(c, label),
         \/ PhaseOf(label) = PhaseOf(pc[c])
         \/ pc[c] = "idle" /\ label = "choosing"
         \/ pc[c] = "linked" /\ label = "held"
         \/ label \in {"stuck", "unlocked", "failing"}
  PROVE  [Abstract!Next]_Phase
<1>1. Phase' = [Phase EXCEPT ![c] = PhaseOf(label)]
  BY DEF Goto, Phase, TypeOK
<1>2. Phase[c] = PhaseOf(pc[c])
  BY DEF Phase
<1>3. CASE PhaseOf(label) = PhaseOf(pc[c])
  BY <1>1, <1>2, <1>3 DEF Phase
<1>4. CASE pc[c] = "idle" /\ label = "choosing"
  BY <1>1, <1>2, <1>4 DEF Abstract!Next, Abstract!Request, PhaseOf, Over
<1>5. CASE pc[c] = "linked" /\ label = "held"
  <2>1. \A d \in Call : Phase[d] # "holding"
    BY <1>5 DEF OneWinner, Won, Phase, PhaseOf, Over
  <2>2. PhaseOf("held") = "holding" /\ PhaseOf("linked") = "waiting"
    BY SMTT(20) DEF PhaseOf, Over
  <2> QED
    BY <1>1, <1>2, <1>5, <2>1, <2>2 DEF Abstract!Next, Abstract!Grant
<1>6. CASE label \in {"stuck", "unlocked", "failing"}
  <2>1. Phase' = [d \in Call |-> IF d \in {c} THEN "out" ELSE Phase[d]]
    <3>1. PhaseOf(label) = "out"
      BY <1>6 DEF PhaseOf
    <3>2. Phase \in [Call -> {PhaseOf(pc[d]) : d \in Call}]
      BY DEF Phase
    <3> QED
      BY <1>1, <3>1, <3>2
  <2>2. CASE Phase[c] = "out"
    BY <2>1, <2>2 DEF Phase
  <2>3. CASE Phase[c] # "out"
    BY <2>1, <2>3 DEF Abstract!Next, Abstract!Withdraw
  <2> QED
    BY <2>2, <2>3
<1> QED
  BY <1>3, <1>4, <1>5, <1>6

LEMMA StepRefines == IndInv /\ [Next]_vars => [Abstract!Next]_Phase
<1> SUFFICES ASSUME TypeOK, OneWinner, TicketInv, [Next]_vars PROVE [Abstract!Next]_Phase
  BY Exclusion DEF IndInv
<1>0. UNCHANGED pc => UNCHANGED Phase
  BY DEF Phase
<1>1. ASSUME NEW c \in Call, Enter(c) PROVE [Abstract!Next]_Phase
  BY <1>1, CallStepRefines DEF Enter, PC
<1>2. ASSUME NEW c \in Call, Counted(c) PROVE [Abstract!Next]_Phase
  BY <1>2, CallStepRefines DEF Counted, PC, PhaseOf, Over
<1>3. ASSUME NEW c \in Call, Publish(c) \/ Win(c) \/ Inspect(c) \/ Judge(c) \/ Reclaim(c)
      PROVE  [Abstract!Next]_Phase
  BY <1>3, CallStepRefines DEF Publish, Win, Inspect, Judge, Reclaim, PC, PhaseOf, Over
<1>4. ASSUME NEW c \in Call, Link(c) PROVE [Abstract!Next]_Phase
  BY <1>4, CallStepRefines DEF Link, PC, PhaseOf, Over
<1>5. ASSUME NEW c \in Call, \/ Acquired(c) \/ Unlock(c) \/ Fail(c)
                                 \/ UnlockUnread(c) \/ UnlockThrows(c)
      PROVE  [Abstract!Next]_Phase
  BY <1>5, CallStepRefines DEF Acquired, Unlock, Fail, UnlockUnread, UnlockThrows, PC
<1>6. ASSUME NEW c \in Call, Leave(c) \/ LeaveThrows(c) PROVE [Abstract!Next]_Phase
  BY <1>6, CallStepRefines DEF Leave, LeaveThrows, PC, PhaseOf, Over
<1>7. ASSUME NEW c \in Call, Readdir(c, "choosing", "counting") \/ Readdir(c, "queued", "scanning")
      PROVE  [Abstract!Next]_Phase
  BY <1>7, CallStepRefines DEF Readdir, PC, PhaseOf, Over
<1>8. ASSUME NEW c \in Call, NEW d \in Call, Examine(c, d) PROVE [Abstract!Next]_Phase
  <2>1. CASE Blocks(d, c)
    BY <1>8, <2>1, CallStepRefines DEF Examine, PC, PhaseOf, Over
  <2>2. CASE ~Blocks(d, c)
    BY <1>0, <1>8, <2>2 DEF Examine
  <2> QED
    BY <2>1, <2>2
<1>9. ASSUME NEW c \in Call, NEW d \in Call, CheckPeer(c, d) \/ Count(c, d) PROVE [Abstract!Next]_Phase
  BY <1>0, <1>9 DEF CheckPeer, Count
<1>10. ASSUME NEW p \in Process, NEW state \in {"zombie", "dead"}, Kill(p, state) \/ Exit(p, state)
       PROVE [Abstract!Next]_Phase
  <2>1. pc' = [c \in Call |-> IF c \in Calls(p) /\ pc[c] \notin {"done", "failed"}
                              THEN "dead" ELSE pc[c]]
    BY <1>10 DEF Kill, Exit, Stop
  <2>2. Phase' = [c \in Call |-> IF c \in Calls(p) THEN "out" ELSE Phase[c]]
    BY <2>1 DEF Phase, PhaseOf, Over
  <2>3. CASE \E c \in Calls(p) : Phase[c] # "out"
    BY <2>2, <2>3 DEF Abstract!Next, Abstract!Withdraw, Calls
  <2>4. CASE \A c \in Calls(p) : Phase[c] = "out"
    BY <2>2, <2>4 DEF Phase
  <2> QED
    BY <2>3, <2>4
<1>11. ASSUME (\E p \in Process : Reap(p)) \/ Age \/ ForeignRelease \/ UNCHANGED vars
       PROVE  [Abstract!Next]_Phase
  BY <1>0, <1>11 DEF Reap, Age, ForeignRelease, vars
<1> QED
  BY <1>1, <1>2, <1>3, <1>4, <1>5, <1>6, <1>7, <1>8, <1>9, <1>10, <1>11, StepCases

(* The queue of tickets and the lock file implement the abstract mutex.    *)
THEOREM Implements == Spec => ImplementsMutex
<1>1. Init => Abstract!Init
  BY DEF Init, Abstract!Init, Phase, PhaseOf
<1> QED
  BY <1>1, StepRefines, Inductive, PTL DEF Spec, ImplementsMutex, Abstract!Spec

-----------------------------------------------------------------------------
(* First come, first served: who raises its choosing flag while a number is *)
(* out reads that number, and so takes a higher one.                        *)
Early == {"idle", "choosing", "counting", "publish"}

AheadInv ==
  \A d \in Call : \A c \in ahead[d] :
    /\ c \in Call /\ c # d /\ pc[c] \notin Early
    /\ pc[c] \in Waiting => Behind(d, c)

(* A call that has its number does not choose another one, and one that has *)
(* left the queue does not come back to it.                                 *)
LEMMA NeverBack ==
  ASSUME TypeOK, [Next]_vars, NEW c \in Call, pc[c] \notin Early
  PROVE  pc'[c] \notin Early /\ (pc'[c] \in Waiting => pc[c] \in Waiting)
<1> USE DEF Early, Waiting, Goto, TypeOK
<1>1. ASSUME NEW e \in Call,
             \/ Enter(e) \/ Counted(e) \/ Publish(e) \/ Win(e) \/ Link(e) \/ Inspect(e) \/ Judge(e)
             \/ Reclaim(e) \/ Acquired(e) \/ Unlock(e) \/ Leave(e) \/ Fail(e)
             \/ UnlockUnread(e) \/ UnlockThrows(e) \/ LeaveThrows(e)
             \/ Readdir(e, "choosing", "counting") \/ Readdir(e, "queued", "scanning")
             \/ \E d \in Call : Examine(e, d)
      PROVE  pc'[c] \notin Early /\ (pc'[c] \in Waiting => pc[c] \in Waiting)
  BY <1>1 DEF Enter, Counted, Publish, Win, Link, Inspect, Judge, Reclaim, Acquired, Unlock, Leave,
              Fail, UnlockUnread, UnlockThrows, LeaveThrows, Readdir, Examine
<1>2. ASSUME NEW p \in Process, NEW state \in {"zombie", "dead"}, Kill(p, state) \/ Exit(p, state)
      PROVE  pc'[c] \notin Early /\ (pc'[c] \in Waiting => pc[c] \in Waiting)
  <2>1. Dies(c, p)
    BY <1>2, Death
  <2> QED
    BY <2>1 DEF Dies
<1>3. ASSUME \/ \E e, d \in Call : CheckPeer(e, d) \/ Count(e, d)
             \/ \E p \in Process : Reap(p)
             \/ Age \/ ForeignRelease \/ UNCHANGED vars
      PROVE  UNCHANGED pc
  BY <1>3 DEF CheckPeer, Count, Reap, Age, ForeignRelease, vars
<1> QED
  BY <1>1, <1>2, <1>3, StepCases

(* Behind a call that waits with its number is behind it for good: its      *)
(* ticket is there to be listed, and the number to be read.                 *)
LEMMA StaysBehind ==
  ASSUME TypeOK, TicketInv, [Next]_vars, NEW c \in Call, NEW d \in Call, c # d,
         pc[c] \in Waiting, pc'[c] \in Waiting, Behind(d, c)
  PROVE  Behind(d, c)'
<1> USE DEF Behind, Goto, Won, Waiting
<1>0. /\ dir[c] /\ ~OwnerIsDead(c) /\ number[c] = own[c] /\ own[c] > 0
      /\ pc[d] = "choosing" => own[d] = 1
  BY DEF TicketInv, TicketOK, Published, Over, OwnerIsDead
<1>1. ASSUME NEW e \in Call, \/ Enter(e) \/ Counted(e) \/ Win(e) \/ Link(e) \/ Inspect(e) \/ Judge(e)
                             \/ Reclaim(e) \/ Acquired(e) \/ Unlock(e) \/ Leave(e) \/ Fail(e)
                             \/ UnlockUnread(e) \/ UnlockThrows(e) \/ LeaveThrows(e)
      PROVE  Behind(d, c)'
  BY <1>0, <1>1 DEF Enter, Counted, Win, Link, Inspect, Judge, Reclaim, Acquired, Unlock, Leave,
                    Fail, UnlockUnread, UnlockThrows, LeaveThrows, TypeOK, scan
<1>2. ASSUME NEW e \in Call, Publish(e) PROVE Behind(d, c)'
  BY <1>0, <1>2 DEF Publish, Before, TypeOK, scan
<1>3. ASSUME NEW e \in Call, Readdir(e, "choosing", "counting") \/ Readdir(e, "queued", "scanning")
      PROVE  Behind(d, c)'
  BY <1>0, <1>3 DEF Readdir, TypeOK
<1>4. ASSUME NEW e \in Call, NEW f \in Call, CheckPeer(e, f) PROVE Behind(d, c)'
  BY <1>0, <1>4 DEF CheckPeer, TypeOK
<1>5. ASSUME NEW e \in Call, NEW f \in Call, Count(e, f) PROVE Behind(d, c)'
  BY <1>0, <1>5 DEF Count, Max2, TypeOK
<1>6. ASSUME NEW e \in Call, NEW f \in Call, Examine(e, f) PROVE Behind(d, c)'
  BY <1>0, <1>6 DEF Examine, TypeOK
<1>7. ASSUME NEW p \in Process, NEW state \in {"zombie", "dead"}, Kill(p, state) \/ Exit(p, state)
      PROVE  Behind(d, c)'
  <2>1. UNCHANGED <<own, listed, peers>> /\ Dies(d, p)
    BY <1>7, Death
  <2> QED
    BY <2>1 DEF Dies
<1>8. ASSUME (\E p \in Process : Reap(p)) \/ Age \/ ForeignRelease \/ UNCHANGED vars
      PROVE  Behind(d, c)'
  BY <1>8 DEF Reap, Age, ForeignRelease, vars, scan
<1> QED
  BY <1>1, <1>2, <1>3, <1>4, <1>5, <1>6, <1>7, <1>8, StepCases

LEMMA AheadStep ==
  ASSUME TypeOK, TicketInv, AheadInv, [OrderNext]_<<vars, ahead>>
  PROVE  AheadInv'
<1> SUFFICES ASSUME NEW d \in Call, NEW c \in ahead'[d]
             PROVE  /\ c \in Call /\ c # d /\ pc'[c] \notin Early
                    /\ pc'[c] \in Waiting => Behind(d, c)'
  BY DEF AheadInv
<1>0. [Next]_vars
  BY DEF OrderNext
<1>1. \/ c \in ahead[d]
      \/ c \in Call /\ pc[d] = "idle" /\ pc'[d] = "choosing" /\ pc[c] \in Waiting
  BY DEF OrderNext, Remember
<1>2. CASE c \in ahead[d]
  <2>1. c \in Call /\ c # d /\ pc[c] \notin Early /\ (pc[c] \in Waiting => Behind(d, c))
    BY <1>2 DEF AheadInv
  <2>2. pc'[c] \notin Early /\ (pc'[c] \in Waiting => pc[c] \in Waiting)
    BY <1>0, <2>1, NeverBack
  <2> QED
    BY <1>0, <2>1, <2>2, StaysBehind
<1>3. CASE c \in Call /\ pc[d] = "idle" /\ pc'[d] = "choosing" /\ pc[c] \in Waiting
  <2>1. c # d /\ pc[c] \notin Early
    BY <1>3 DEF Waiting, Early
  <2>2. pc'[c] \notin Early
    BY <1>0, <1>3, <2>1, NeverBack
  <2>3. Behind(d, c)'
    BY <1>3 DEF Behind, Won
  <2> QED
    BY <1>3, <2>1, <2>2, <2>3
<1> QED
  BY <1>1, <1>2, <1>3

(* acquireLock: no call that arrives later is past the queue before one     *)
(* that had published its number is served, fails or dies.                  *)
THEOREM ServedInOrder == OrderSpec => []FirstComeFirstServed
<1>1. OrderSpec => Spec
  <2>1. OrderInit => Init
    BY DEF OrderInit
  <2>2. [OrderNext]_<<vars, ahead>> => [Next]_vars
    BY DEF OrderNext
  <2> QED
    BY <2>1, <2>2, PTL DEF OrderSpec, Spec
<1>2. OrderInit => AheadInv
  BY DEF OrderInit, AheadInv
<1>3. IndInv /\ AheadInv /\ [OrderNext]_<<vars, ahead>> => AheadInv'
  BY AheadStep DEF IndInv
<1>4. IndInv /\ AheadInv => FirstComeFirstServed
  <2> SUFFICES ASSUME IndInv, AheadInv, NEW d \in Call, pc[d] \in Won, NEW c \in ahead[d],
                      pc[c] \in Waiting
               PROVE  FALSE
    BY DEF FirstComeFirstServed
  <2>1. c \in Call /\ c # d /\ Before(own[c], c, own[d], d)
    BY DEF AheadInv, Behind
  <2>2. Before(own[d], d, own[c], c)
    BY <2>1 DEF IndInv, TicketInv, TicketOK, QueueInv, QueueOK, Behind, Waiting
  <2> QED
    BY <2>1, <2>2, BeforeOrder DEF IndInv, TypeOK
<1> QED
  BY <1>1, <1>2, <1>3, <1>4, Inductive, PTL DEF OrderSpec
=============================================================================
