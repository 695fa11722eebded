------------------------------ MODULE FileLock ------------------------------
(***************************************************************************)
(* The cross-process mutex of src/lock/FileLock.ts: a bakery queue of      *)
(* ticket directories in front of one shared lock file.                    *)
(*                                                                         *)
(* A Call is one invocation of acquireLock: it has its own nonce, so its   *)
(* own ticket directory, and it runs once.  Calls are numbered, and the    *)
(* order of the numbers is the order of the ticket names that breaks ties  *)
(* between equal bakery numbers.  A Process may run several calls.         *)
(*                                                                         *)
(* Each action is the code between two awaits that touch the file system.  *)
(* The removal of a ticket directory is one step: a half-removed ticket    *)
(* looks like one that has no number yet, which only makes others wait.    *)
(***************************************************************************)
EXTENDS Integers, FiniteSets

CONSTANTS
  Call,         \* invocations of acquireLock
  Process,      \* operating-system processes
  ProcOf,       \* the process that runs a call
  MaxNumber,    \* Number.MAX_SAFE_INTEGER
  MayFail,      \* calls whose deadline may pass, or whose file operations may throw
  MayDie,       \* processes that may be killed or receive a signal
  NoFile,       \* the lock path does not exist
  Empty,        \* a zero-length lock file an older client left behind
  Foreign,      \* a lock file whose owner cannot be identified
  InitialFile   \* what the lock path may hold at the start

Unowned == {NoFile, Empty, Foreign}

ASSUME CallAssumption == Call \subseteq Nat
ASSUME ProcOfAssumption == ProcOf \in [Call -> Process]
ASSUME MaxNumberAssumption == MaxNumber \in Nat
ASSUME UnownedAssumption == /\ Unowned \cap Call = {}
                            /\ NoFile # Empty
                            /\ NoFile # Foreign
                            /\ Empty # Foreign
                            /\ InitialFile \subseteq Unowned
ASSUME FaultAssumption == MayFail \subseteq Call /\ MayDie \subseteq Process

VARIABLES
  pc,       \* where a call is
  os,       \* what the kernel says of a process
  dir,      \* the ticket directory of a call exists
  number,   \* the number file in the ticket, 0 when there is none
  own,      \* the call's local variable number
  listed,   \* peers(): entries of readdir whose owner is not looked at yet
  peers,    \* peers(): entries kept, whose number file is not read yet
  lock,     \* the shared lock path: absent, a legacy file, or the payload of a call
  seen,     \* the payload a call last read at the lock path
  aged      \* an empty lock file is older than maxAgeMs

vars == <<pc, os, dir, number, own, listed, peers, lock, seen, aged>>
tickets == <<dir, number>>
scan == <<own, listed, peers>>
path == <<lock, aged>>

PC == {"idle", "choosing", "counting", "publish", "queued", "scanning", "link",
       "inspect", "judge", "reclaim", "linked", "held", "stuck", "unlocked",
       "failing", "done", "failed", "dead"}

(* Past the bakery queue: no other call may be there. *)
Won == {"link", "inspect", "judge", "reclaim", "linked", "held", "stuck"}

(* Inside the try block of acquireLock, where a throw removes the ticket. *)
Trying == {"choosing", "counting", "publish", "queued", "scanning", "link",
           "inspect", "judge", "reclaim"}

(* The call returned or threw, or never started. *)
Over == {"done", "failed", "dead"}

Max2(a, b) == IF a >= b THEN a ELSE b

\* Mutant of OwnerIsDead: no owner is ever found dead.
OwnerNeverDead(c) == FALSE

(* owner.ts: a zombie still answers kill(pid, 0) and shows no start time.  *)
OwnerIsDead(c) == os[ProcOf[c]] = "dead"

(* The lexicographic order of the bakery: (number, ticket name). *)
Before(n, c, m, d) == n < m \/ (n = m /\ c < d)

Init ==
  /\ pc = [c \in Call |-> "idle"]
  /\ os = [p \in Process |-> "alive"]
  /\ dir = [c \in Call |-> FALSE]
  /\ number = [c \in Call |-> 0]
  /\ own = [c \in Call |-> 0]
  /\ listed = [c \in Call |-> {}]
  /\ peers = [c \in Call |-> {}]
  /\ lock \in InitialFile
  /\ seen = [c \in Call |-> NoFile]
  /\ aged = FALSE

Goto(c, label) == pc' = [pc EXCEPT ![c] = label]

RemoveTicket(c) == /\ dir' = [dir EXCEPT ![c] = FALSE]
                   /\ number' = [number EXCEPT ![c] = 0]

-----------------------------------------------------------------------------
(* The ticket: mkdir raises the choosing flag before anything is read. *)
Enter(c) ==
  /\ pc[c] = "idle"
  /\ os[ProcOf[c]] = "alive"
  /\ Goto(c, "choosing")
  /\ dir' = [dir EXCEPT ![c] = TRUE]
  /\ own' = [own EXCEPT ![c] = 1]
  /\ UNCHANGED <<os, number, listed, peers, path, seen>>

\* Mutant of Readdir: the peers' tickets are not found.
ReaddirNobody(c, from, to) ==
  /\ pc[c] = from
  /\ Goto(c, to)
  /\ listed' = [listed EXCEPT ![c] = {}]
  /\ peers' = [peers EXCEPT ![c] = {}]
  /\ UNCHANGED <<os, tickets, own, path, seen>>

(* peers(): readdir takes the names, once for the number and once a round. *)
Readdir(c, from, to) ==
  /\ pc[c] = from
  /\ Goto(c, to)
  /\ listed' = [listed EXCEPT ![c] = {d \in Call \ {c} : dir[d]}]
  /\ peers' = [peers EXCEPT ![c] = {}]
  /\ UNCHANGED <<os, tickets, own, path, seen>>

(* peers(): the ticket of a dead owner is removed, any other one is kept. *)
CheckPeer(c, d) ==
  /\ pc[c] \in {"counting", "scanning"}
  /\ d \in listed[c]
  /\ listed' = [listed EXCEPT ![c] = @ \ {d}]
  /\ IF OwnerIsDead(d)
     THEN RemoveTicket(d) /\ UNCHANGED peers
     ELSE peers' = [peers EXCEPT ![c] = @ \cup {d}] /\ UNCHANGED tickets
  /\ UNCHANGED <<pc, os, own, path, seen>>

\* Mutant of Count: one too low.
CountTooLow(c, d) ==
  /\ pc[c] = "counting" /\ listed[c] = {} /\ d \in peers[c]
  /\ own' = [own EXCEPT ![c] = number[d] - 1]
  /\ peers' = [peers EXCEPT ![c] = @ \ {d}]
  /\ UNCHANGED <<pc, os, tickets, listed, path, seen>>

\* Mutant of Count: the peers' numbers are read and not used.
CountIgnored(c, d) ==
  /\ pc[c] = "counting" /\ listed[c] = {} /\ d \in peers[c]
  /\ peers' = [peers EXCEPT ![c] = @ \ {d}]
  /\ UNCHANGED <<pc, os, tickets, own, listed, path, seen>>

(* One step of the loop that picks a number above every number it reads. *)
Count(c, d) ==
  /\ pc[c] = "counting"
  /\ listed[c] = {}
  /\ d \in peers[c]
  /\ own' = [own EXCEPT ![c] = Max2(@, number[d] + 1)]
  /\ peers' = [peers EXCEPT ![c] = @ \ {d}]
  /\ UNCHANGED <<pc, os, tickets, listed, path, seen>>

(* An unsafe integer is refused with "Credential lock queue exhausted". *)
Counted(c) ==
  /\ pc[c] = "counting"
  /\ listed[c] = {} /\ peers[c] = {}
  /\ Goto(c, IF own[c] <= MaxNumber THEN "publish" ELSE "failing")
  /\ UNCHANGED <<os, tickets, scan, path, seen>>

Publish(c) ==
  /\ pc[c] = "publish"
  /\ Goto(c, "queued")
  /\ number' = [number EXCEPT ![c] = own[c]]
  /\ UNCHANGED <<os, dir, scan, path, seen>>

\* Mutant of Blocks: a peer without a number is passed.
BlocksOnNumber(d, c) == number[d] > 0 /\ Before(number[d], d, own[c], c)

(* A peer blocks while it is choosing or when its number comes first. *)
Blocks(d, c) == \/ number[d] = 0 /\ dir[d]
                \/ number[d] > 0 /\ Before(number[d], d, own[c], c)

(* One step of a round: the first peer that blocks ends it. *)
Examine(c, d) ==
  /\ pc[c] = "scanning"
  /\ listed[c] = {}
  /\ d \in peers[c]
  /\ IF Blocks(d, c)
     THEN /\ Goto(c, "queued")
          /\ peers' = [peers EXCEPT ![c] = {}]
     ELSE /\ peers' = [peers EXCEPT ![c] = @ \ {d}]
          /\ UNCHANGED pc
  /\ UNCHANGED <<os, tickets, own, listed, path, seen>>

Win(c) ==
  /\ pc[c] = "scanning"
  /\ listed[c] = {} /\ peers[c] = {}
  /\ Goto(c, "link")
  /\ UNCHANGED <<os, tickets, scan, path, seen>>

-----------------------------------------------------------------------------
(* The lock file: link(2) publishes the complete payload or finds a file. *)
Link(c) ==
  /\ pc[c] = "link"
  /\ IF lock = NoFile
     THEN Goto(c, "linked") /\ lock' = c
     ELSE Goto(c, "inspect") /\ UNCHANGED lock
  /\ UNCHANGED <<os, tickets, scan, aged, seen>>

Inspect(c) ==
  /\ pc[c] = "inspect"
  /\ Goto(c, "judge")
  /\ seen' = [seen EXCEPT ![c] = lock]
  /\ UNCHANGED <<os, tickets, scan, path>>

\* Mutant of EmptyAndOld: an empty file is never given up.
EmptyNeverOld(c) == FALSE

(* payloadAt reads null from an absent or an empty file. *)
EmptyAndOld(c) == seen[c] \in {NoFile, Empty} /\ lock = Empty /\ aged

\* Mutant of Judge: any payload found at the path is reclaimed.
JudgePresent(c) ==
  /\ pc[c] = "judge"
  /\ Goto(c, IF EmptyAndOld(c) \/ seen[c] \in Call THEN "reclaim" ELSE "link")
  /\ UNCHANGED <<os, tickets, scan, path, seen>>

Judge(c) ==
  /\ pc[c] = "judge"
  /\ Goto(c, IF EmptyAndOld(c) \/ (seen[c] \in Call /\ OwnerIsDead(seen[c]))
             THEN "reclaim" ELSE "link")
  /\ UNCHANGED <<os, tickets, scan, path, seen>>

(* unlink names the path, whatever lies there by then. *)
Reclaim(c) ==
  /\ pc[c] = "reclaim"
  /\ Goto(c, "link")
  /\ lock' = NoFile
  /\ UNCHANGED <<os, tickets, scan, aged, seen>>

(* held.set and the return of the handle, in the tick after link resolved. *)
Acquired(c) ==
  /\ pc[c] = "linked"
  /\ Goto(c, "held")
  /\ UNCHANGED <<os, tickets, scan, path, seen>>

(* release(): the file is unlinked only when its nonce is this call's. *)
Unlock(c) ==
  /\ pc[c] = "held"
  /\ Goto(c, "unlocked")
  /\ lock' = IF lock = c THEN NoFile ELSE lock
  /\ UNCHANGED <<os, tickets, scan, aged, seen>>

(* release() when the lock file cannot be read: ours() answers false, and  *)
(* the file stays with a live owner.                                       *)
UnlockUnread(c) ==
  /\ c \in MayFail
  /\ pc[c] = "held"
  /\ Goto(c, "unlocked")
  /\ UNCHANGED <<os, tickets, scan, path, seen>>

(* release() when unlink throws: it rejects, and a second release does     *)
(* nothing, so the file and the ticket stay until the process exits.       *)
UnlockThrows(c) ==
  /\ c \in MayFail
  /\ pc[c] = "held"
  /\ Goto(c, "stuck")
  /\ UNCHANGED <<os, tickets, scan, path, seen>>

\* Mutant of Leave: the catch block keeps the ticket.
LeaveTicket(c) ==
  /\ pc[c] \in {"unlocked", "failing"}
  /\ Goto(c, IF pc[c] = "unlocked" THEN "done" ELSE "failed")
  /\ IF pc[c] = "unlocked" THEN RemoveTicket(c) ELSE UNCHANGED tickets
  /\ UNCHANGED <<os, scan, path, seen>>

(* The end of release(), or of the catch block: rm of the own ticket. *)
Leave(c) ==
  /\ pc[c] \in {"unlocked", "failing"}
  /\ Goto(c, IF pc[c] = "unlocked" THEN "done" ELSE "failed")
  /\ RemoveTicket(c)
  /\ UNCHANGED <<os, scan, path, seen>>

(* The same when rm throws: tickets has forgotten the ticket by then, so   *)
(* it stays, with its number file or without, whatever the process does.   *)
LeaveThrows(c) ==
  /\ c \in MayFail
  /\ pc[c] \in {"unlocked", "failing"}
  /\ Goto(c, "failed")
  /\ number' \in {number, [number EXCEPT ![c] = 0]}
  /\ UNCHANGED <<os, dir, scan, path, seen>>

(* A passed deadline or a failed file operation inside the try block. *)
Fail(c) ==
  /\ c \in MayFail
  /\ pc[c] \in Trying
  /\ Goto(c, "failing")
  /\ UNCHANGED <<os, tickets, scan, path, seen>>

-----------------------------------------------------------------------------
Calls(p) == {c \in Call : ProcOf[c] = p}

Stop(p, state) ==
  /\ p \in MayDie
  /\ os[p] = "alive"
  /\ os' = [os EXCEPT ![p] = state]
  /\ pc' = [c \in Call |-> IF c \in Calls(p) /\ pc[c] \notin {"done", "failed"}
                           THEN "dead" ELSE pc[c]]
  /\ UNCHANGED <<scan, aged, seen>>

(* SIGKILL: nothing is cleaned up. The parent has the process reaped, or not yet. *)
Kill(p, state) ==
  /\ Stop(p, state)
  /\ UNCHANGED <<tickets, lock>>

\* Mutant of Exit: the lock path of every ticket is unlinked, not only one's own.
ExitUnlinks(p, state) ==
  /\ Stop(p, state)
  /\ dir' = [c \in Call |-> IF c \in Calls(p) THEN FALSE ELSE dir[c]]
  /\ number' = [c \in Call |-> IF c \in Calls(p) THEN 0 ELSE number[c]]
  /\ lock' = IF \E c \in Calls(p) : dir[c] THEN NoFile ELSE lock

(* SIGINT, SIGTERM, SIGHUP or exit: cleanup removes what held and tickets  *)
(* name.  A ticket not yet in tickets, or no longer, may stay; that of a   *)
(* call whose own removal threw does.                                      *)
Exit(p, state) ==
  /\ Stop(p, state)
  /\ \E left \in SUBSET {c \in Calls(p) : pc[c] \in {"choosing", "unlocked", "failing"}} :
       LET gone == {c \in Calls(p) \ left : pc[c] \notin {"done", "failed"}}
       IN  /\ dir' = [c \in Call |-> IF c \in gone THEN FALSE ELSE dir[c]]
           /\ number' = [c \in Call |-> IF c \in gone THEN 0 ELSE number[c]]
  /\ lock' = IF \E c \in Calls(p) : pc[c] \in {"held", "stuck"} /\ lock = c THEN NoFile ELSE lock

(* External: the parent waits for a zombie. *)
Reap(p) ==
  /\ os[p] = "zombie"
  /\ os' = [os EXCEPT ![p] = "dead"]
  /\ UNCHANGED <<pc, tickets, scan, path, seen>>

(* External: time passes over an empty lock file. *)
Age ==
  /\ lock = Empty /\ ~aged
  /\ aged' = TRUE
  /\ UNCHANGED <<pc, os, tickets, scan, lock, seen>>

(* External: whoever wrote the foreign lock file removes it. *)
ForeignRelease ==
  /\ lock = Foreign
  /\ lock' = NoFile
  /\ UNCHANGED <<pc, os, tickets, scan, aged, seen>>

-----------------------------------------------------------------------------
(* What a call does by itself once it has entered, failures aside. *)
Proceed(c) ==
  \/ Readdir(c, "choosing", "counting")
  \/ Readdir(c, "queued", "scanning")
  \/ \E d \in Call : CheckPeer(c, d) \/ Count(c, d) \/ Examine(c, d)
  \/ Counted(c) \/ Publish(c) \/ Win(c)
  \/ Link(c) \/ Inspect(c) \/ Judge(c) \/ Reclaim(c) \/ Acquired(c)
  \/ Unlock(c) \/ Leave(c)

(* Every call is over and nothing else will happen. *)
Terminated == (\A c \in Call : pc[c] \in Over \cup {"stuck"}) /\ UNCHANGED vars

Next ==
  \/ \E c \in Call : \/ Enter(c) \/ Proceed(c) \/ Fail(c)
                    \/ UnlockUnread(c) \/ UnlockThrows(c) \/ LeaveThrows(c)
  \/ \E p \in Process : \E state \in {"zombie", "dead"} : Kill(p, state) \/ Exit(p, state)
  \/ \E p \in Process : Reap(p)
  \/ Age
  \/ ForeignRelease
  \/ Terminated

Spec == Init /\ [][Next]_vars

(* A started call is driven by its event loop, the holder's callback ends, *)
(* parents reap their children, clocks advance, and whoever owns a foreign *)
(* lock file gives it up in the end.                                       *)
Fairness ==
  /\ \A c \in Call : WF_vars(Proceed(c))
  /\ \A p \in Process : WF_vars(Reap(p))
  /\ WF_vars(Age)
  /\ WF_vars(ForeignRelease)

FairSpec == Spec /\ Fairness

-----------------------------------------------------------------------------
LockValue == Call \cup Unowned

TypeOK ==
  /\ pc \in [Call -> PC]
  /\ os \in [Process -> {"alive", "zombie", "dead"}]
  /\ dir \in [Call -> BOOLEAN]
  /\ number \in [Call -> Nat]
  /\ own \in [Call -> Nat]
  /\ listed \in [Call -> SUBSET Call]
  /\ peers \in [Call -> SUBSET Call]
  /\ lock \in LockValue
  /\ seen \in [Call -> LockValue]
  /\ aged \in BOOLEAN

(* Only the winner of the queue touches the lock path, so no two calls are *)
(* ever past the queue, and no two hold the lock.                          *)
OneWinner == \A c, d \in Call : pc[c] \in Won /\ pc[d] \in Won => c = d

(* While a call holds the lock the file names it: older clients, which see *)
(* only the file, are excluded too, and release finds its own nonce.       *)
HolderOwnsFile == \A c \in Call : pc[c] \in {"linked", "held", "stuck"} => lock = c

(* A call whose release resolved has left no ticket behind, and one that   *)
(* was released or threw has left neither a ticket nor a lock file unless  *)
(* an operation on its own files failed.                                   *)
LeavesNothing == \A c \in Call :
  /\ pc[c] = "done" => ~dir[c]
  /\ pc[c] \in {"done", "failed"} /\ c \notin MayFail => ~dir[c] /\ lock # c

(* A lock file goes away when its holder lets go of it or is dead, however *)
(* long it is held: another call never takes it from a live owner.         *)
NeverStolen ==
  [][\A c \in Call : lock = c /\ lock' # c =>
       OwnerIsDead(c) \/ (pc[c] \in {"held", "stuck"} /\ pc'[c] # pc[c])]_vars

(* With no deadline in the way, a call that entered the queue gets the     *)
(* lock or dies, whoever else crashes, exits or leaves a file behind.      *)
Served == \A c \in Call :
  pc[c] = "choosing" ~> pc[c] \in {"held", "dead"}

-----------------------------------------------------------------------------
(* The inductive invariant behind the safety properties above.             *)

(* Tickets: who has one, and when it shows the number its call chose. *)
Published == {"queued", "scanning", "unlocked"} \cup Won

TicketOK(c) ==
  /\ pc[c] \in {"idle", "done"} \/ (pc[c] = "failed" /\ c \notin MayFail) => ~dir[c]
  /\ pc[c] \notin {"idle"} \cup Over => dir[c] /\ os[ProcOf[c]] = "alive"
  /\ pc[c] \in {"choosing", "counting", "publish"} => number[c] = 0
  /\ pc[c] \in Published => number[c] = own[c]
  /\ pc[c] \in {"counting", "publish"} \cup Published => own[c] > 0
  /\ pc[c] = "choosing" => own[c] = 1
  /\ ~dir[c] => number[c] = 0
  /\ pc[c] \in Won => listed[c] = {} /\ peers[c] = {}

TicketInv == \A c \in Call : TicketOK(c)

(* Call d, as far as it has come, will not get past c, whose number is out. *)
Behind(d, c) ==
  /\ pc[d] = "counting" => c \in listed[d] \cup peers[d] \/ own[d] > own[c]
  /\ pc[d] = "publish" => own[d] > own[c]
  /\ pc[d] \in {"queued", "scanning"} \cup Won => Before(own[c], c, own[d], d)

(* What a round has dealt with is behind the call that does the round. *)
QueueOK(c, d) == pc[c] \in {"scanning"} \cup Won /\ c # d =>
                   d \in listed[c] \cup peers[c] \/ Behind(d, c)

QueueInv == \A c, d \in Call : QueueOK(c, d)

(* The lock path: whose file it may be, and what a reclaimer may find there. *)
PathInv ==
  /\ \A c \in Call : lock = c => \/ pc[c] \in {"linked", "held", "stuck", "dead"}
                                 \/ pc[c] \in {"unlocked", "done", "failed"} /\ c \in MayFail
  /\ \A c \in Call : pc[c] = "judge" => lock \in Unowned \cup {seen[c]}
  /\ \A c \in Call : pc[c] = "reclaim" /\ lock \in Call => OwnerIsDead(lock)

IndInv == TypeOK /\ TicketInv /\ QueueInv /\ HolderOwnsFile /\ PathInv

-----------------------------------------------------------------------------
(* The queue and the file together are the mutex the vault is written for. *)
PhaseOf(label) == CASE label = "held" -> "holding"
                    [] label \in {"idle", "stuck", "unlocked", "failing"} \cup Over -> "out"
                    [] OTHER -> "waiting"

Phase == [c \in Call |-> PhaseOf(pc[c])]

Abstract == INSTANCE Mutex WITH Client <- Call, phase <- Phase

(* Every step of the lock is a step of the abstract mutex or changes       *)
(* nothing in it: acquireLock hands out the lock to one call at a time.    *)
ImplementsMutex == Abstract!Spec

(* The same with fairness: a call that keeps waiting is let in.            *)
ImplementsFairMutex == Abstract!FairSpec
=============================================================================
