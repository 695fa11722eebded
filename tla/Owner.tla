-------------------------------- MODULE Owner --------------------------------
(***************************************************************************)
(* The owner of a lock or of a ticket (src/lock/owner.ts): what a process  *)
(* records of itself, and how another process finds out whether it is      *)
(* dead, from the recorded identity and from what the system tells it.     *)
(*                                                                         *)
(* A place is a PID namespace on a machine: the machine itself, or one of  *)
(* its containers.  Machines reboot, processes end, leave zombies behind   *)
(* for a while, and their pids are given to others.  Every process here    *)
(* may own, or just have the pid of one that did; a judge asks.  What a    *)
(* judge asks changes nothing for anybody else.                            *)
(***************************************************************************)
EXTENDS Naturals

CONSTANTS
  Process, Pid, Start,
  Judge,                          \* processes that ask about others
  Place, Machine,
  On,                             \* the machine of a place
  Hostname, MachineId, Namespace, \* of a place, as its processes read them
  Hides,                          \* of a place: what reading may fail there
  MaxBoot                         \* bound on the reboots of a machine

Field == {"bootId", "machine", "namespace", "processStart"}

ASSUME JudgeAssumption == Judge \subseteq Process
ASSUME PlaceAssumption ==
  /\ Place # {} /\ Start # {}
  /\ On \in [Place -> Machine]
  /\ Hides \in [Place -> SUBSET Field]
  /\ MaxBoot \in Nat

(* Places that share a host name, and so could be taken for each other,     *)
(* can be told apart by something that never fails to be read.              *)
Apart(a, b) ==
  LET Reads(f) == f \notin Hides[a] \cup Hides[b]
  IN \/ Reads("machine") /\ MachineId[a] # MachineId[b]
     \/ Reads("bootId") /\ On[a] # On[b]
     \/ Reads("namespace") /\ Namespace[a] # Namespace[b]
ASSUME ApartAssumption ==
  \A a, b \in Place : Hostname[a] = Hostname[b] /\ a # b => Apart(a, b)

(* The id of a machine is its own: no clone with the same name carries it.  *)
ASSUME MachineAssumption ==
  \A a, b \in Place : Hostname[a] = Hostname[b] /\ MachineId[a] = MachineId[b] => On[a] = On[b]

VARIABLES
  boot,                           \* of a machine: how often it was rebooted
  life, at, pid, born, start,     \* of a process; born is the boot it began in
  hidden,                         \* of a process: what it could not read of itself
  stage, of, gone, verdict        \* of a judge; gone: the owner was, when asked

facts == <<at, pid, born, start, hidden>>
asked == <<stage, of, gone, verdict>>
vars == <<boot, life, facts, asked>>

(* The facts of a process that has not begun mean nothing.                  *)
Init ==
  /\ boot = [m \in Machine |-> 0]
  /\ life = [p \in Process |-> "unborn"]
  /\ at = [p \in Process |-> CHOOSE a \in Place : TRUE]
  /\ pid \in {[p \in Process |-> n] : n \in Pid}
  /\ born = [p \in Process |-> 0]
  /\ start = [p \in Process |-> CHOOSE s \in Start : TRUE]
  /\ hidden = [p \in Process |-> {}]
  /\ stage = [p \in Process |-> "none"]
  /\ of = [p \in Process |-> p]
  /\ gone = [p \in Process |-> FALSE]
  /\ verdict = [p \in Process |-> "alive"]

(* The system knows a process until it is reaped. *)
Present == {p \in Process : life[p] \in {"running", "zombie"}}
Has(a, n) == {p \in Present : at[p] = a /\ pid[p] = n}

(* A process begins, with a pid that is free; what it then records of       *)
(* itself it keeps (currentOwner).                                          *)
Begin(p, a, n, s) ==
  /\ life[p] = "unborn"
  /\ Has(a, n) = {}
  /\ life' = [life EXCEPT ![p] = "running"]
  /\ at' = [at EXCEPT ![p] = a]
  /\ pid' = [pid EXCEPT ![p] = n]
  /\ born' = [born EXCEPT ![p] = boot[On[a]]]
  /\ start' = [start EXCEPT ![p] = s]
  /\ \E h \in SUBSET Hides[a] : hidden' = [hidden EXCEPT ![p] = h]
  /\ UNCHANGED <<boot, asked>>

End(p) ==
  /\ life[p] = "running"
  /\ \E l \in {"zombie", "gone"} : life' = [life EXCEPT ![p] = l]
  /\ UNCHANGED <<boot, facts, asked>>

Reap(p) ==
  /\ life[p] = "zombie"
  /\ life' = [life EXCEPT ![p] = "gone"]
  /\ UNCHANGED <<boot, facts, asked>>

Reboot(m) ==
  /\ boot[m] < MaxBoot
  /\ boot' = [boot EXCEPT ![m] = @ + 1]
  /\ life' = [p \in Process |-> IF p \in Present /\ On[at[p]] = m THEN "gone" ELSE life[p]]
  /\ UNCHANGED <<facts, asked>>

-----------------------------------------------------------------------------
(* How the recorded identity of o compares with the judge's own. *)
Knows(p, f) == f \notin hidden[p]

OtherMachine(how, o, j) ==
  /\ Knows(o, "machine")
  /\ IF Knows(j, "machine") THEN MachineId[at[o]] # MachineId[at[j]] ELSE how = "name"

SameMachine(o, j) ==
  Knows(o, "machine") /\ Knows(j, "machine") /\ MachineId[at[o]] = MachineId[at[j]]

\* A boot id is new with every boot of every machine.
OtherBoot(o, j) ==
  Knows(o, "bootId") /\ Knows(j, "bootId") /\ <<On[at[o]], born[o]>> # <<On[at[j]], born[j]>>

\* Mutant of OtherNamespace: namespaces are not compared.
NamespaceIgnored(o, j) == FALSE

OtherNamespace(o, j) ==
  Knows(o, "namespace") /\ (Knows(j, "namespace") => Namespace[at[o]] # Namespace[at[j]])

Foreign(how, o, j) ==
  \/ Hostname[at[o]] # Hostname[at[j]]
  \/ OtherMachine(how, o, j)
  \/ IF OtherBoot(o, j) THEN ~SameMachine(o, j) ELSE OtherNamespace(o, j)

(* The identity is compared, and then kill(pid, 0) shows a process with     *)
(* that pid or none.  A payload goes to ownerIsDead, the name of a ticket   *)
(* to namedOwnerIsDead, which believes an unknown machine less.             *)
Look(j, o, how) ==
  /\ j \in Judge /\ life[j] = "running" /\ life[o] # "unborn" /\ o # j
  /\ stage[j] # "start"
  /\ LET foreign == Foreign(how, o, j)
         nobody == OtherBoot(o, j) \/ Has(at[j], pid[o]) = {}
     IN /\ stage' = [stage EXCEPT ![j] =
               IF ~foreign /\ ~nobody /\ Knows(o, "processStart") THEN "start" ELSE "told"]
        /\ verdict' = [verdict EXCEPT ![j] = IF ~foreign /\ nobody THEN "dead" ELSE "alive"]
  /\ of' = [of EXCEPT ![j] = o]
  /\ gone' = [gone EXCEPT ![j] = (life[o] = "gone")]
  /\ UNCHANGED <<boot, life, facts>>

\* Mutant of ReadStart: who has the pid is taken for the owner.
ReadNothing(j) ==
  /\ life[j] = "running" /\ stage[j] = "start"
  /\ stage' = [stage EXCEPT ![j] = "told"]
  /\ UNCHANGED <<boot, life, facts, of, gone, verdict>>

(* The process with the pid has another start time than the owner had.  By  *)
(* now it may be a zombie, be gone, or be one more process.                 *)
ReadStart(j) ==
  /\ life[j] = "running"
  /\ stage[j] = "start"
  /\ LET others == {p \in Has(at[j], pid[of[j]]) : life[p] = "running" /\ start[p] # start[of[j]]}
     IN \/ verdict' = [verdict EXCEPT ![j] = IF others = {} THEN "alive" ELSE "dead"]
        \/ "processStart" \in Hides[at[j]] /\ UNCHANGED verdict
  /\ stage' = [stage EXCEPT ![j] = "told"]
  /\ UNCHANGED <<boot, life, facts, of, gone>>

Next ==
  \/ \E p \in Process :
       \/ \E a \in Place, n \in Pid, s \in Start : Begin(p, a, n, s)
       \/ End(p) \/ Reap(p)
       \/ \E o \in Process, how \in {"payload", "name"} : Look(p, o, how)
       \/ ReadStart(p)
  \/ \E m \in Machine : Reboot(m)

Spec == Init /\ [][Next]_vars

-----------------------------------------------------------------------------
TypeOK ==
  /\ boot \in [Machine -> 0..MaxBoot]
  /\ life \in [Process -> {"unborn", "running", "zombie", "gone"}]
  /\ at \in [Process -> Place] /\ pid \in [Process -> Pid]
  /\ born \in [Process -> 0..MaxBoot] /\ start \in [Process -> Start]
  /\ hidden \in [Process -> SUBSET Field]
  /\ stage \in [Process -> {"none", "start", "told"}]
  /\ of \in [Process -> Process] /\ gone \in [Process -> BOOLEAN]
  /\ verdict \in [Process -> {"alive", "dead"}]

(* Dead is said only of the dead: whose ticket is removed or whose lock is  *)
(* reclaimed does not run any more, nor is it still to be reaped, however   *)
(* pids, namespaces and boots repeat and whatever could not be read.        *)
DeadIsGone == \A j \in Process : verdict[j] = "dead" => life[of[j]] = "gone"

(* The dead do not block the queue for ever: an owner that was gone when    *)
(* asked about is found dead from its own place, if that can read           *)
(* everything; unless its pid belongs to a process that started at the same *)
(* moment of its boot, or that was a zombie or ended by then.               *)
Covers(p, o) == /\ p # o /\ life[p] # "unborn" /\ at[p] = at[o] /\ pid[p] = pid[o]
                /\ life[p] = "running" => start[p] = start[o]
GoneIsDead ==
  \A j \in Process :
    LET o == of[j]
    IN stage[j] = "told" /\ gone[j] /\ at[j] = at[o] /\ Hides[at[o]] = {} =>
         verdict[j] = "dead" \/ \E p \in Process : Covers(p, o)

-----------------------------------------------------------------------------
(* The inductive invariant behind DeadIsGone. *)
BootInv == \A p \in Present : born[p] = boot[On[at[p]]]
PidInv == \A p, q \in Present : at[p] = at[q] /\ pid[p] = pid[q] => p = q
HiddenInv == \A p \in Process : hidden[p] \subseteq Hides[at[p]]
AskInv == \A j \in Process : stage[j] = "start" =>
  at[of[j]] = at[j] /\ life[of[j]] # "unborn" /\ life[j] # "unborn"

IndInv == TypeOK /\ BootInv /\ PidInv /\ HiddenInv /\ AskInv /\ DeadIsGone
=============================================================================
