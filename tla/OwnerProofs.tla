----------------------------- MODULE OwnerProofs -----------------------------
(***************************************************************************)
(* Whoever is said to be dead is dead, for all places whose identities can *)
(* be told apart: the argument is that a judge which looks for a pid looks *)
(* in the owner's own place, where the pid is the owner's until it is      *)
(* reaped.                                                                 *)
(***************************************************************************)
EXTENDS Owner, TLAPS

LEMMA InitInd == Init => IndInv
<1> SUFFICES ASSUME Init PROVE IndInv  OBVIOUS
<1>1. TypeOK  BY PlaceAssumption DEF Init, TypeOK
<1>2. Present = {}  BY DEF Init, Present
<1> QED  BY <1>1, <1>2 DEF Init, IndInv, BootInv, PidInv, HiddenInv, AskInv, DeadIsGone

(* A judge that finds nothing foreign in a recorded identity, and no other  *)
(* boot, is where the owner was.                                            *)
LEMMA SamePlace ==
  ASSUME IndInv, NEW o \in Process, NEW j \in Process, NEW how,
         ~Foreign(how, o, j), ~OtherBoot(o, j)
  PROVE  at[o] = at[j]
<1> SUFFICES ASSUME at[o] # at[j] PROVE FALSE  OBVIOUS
<1>1. at[o] \in Place /\ at[j] \in Place  BY DEF IndInv, TypeOK
<1>2. Hostname[at[o]] = Hostname[at[j]]  BY DEF Foreign
<1>3. Apart(at[o], at[j])  BY <1>1, <1>2, ApartAssumption
<1>4. ASSUME NEW f, f \notin Hides[at[o]] \cup Hides[at[j]] PROVE Knows(o, f) /\ Knows(j, f)
  BY <1>4 DEF Knows, IndInv, HiddenInv
<1>5. CASE "machine" \notin Hides[at[o]] \cup Hides[at[j]] /\ MachineId[at[o]] # MachineId[at[j]]
  <2>1. OtherMachine(how, o, j)  BY <1>4, <1>5 DEF OtherMachine
  <2> QED  BY <2>1 DEF Foreign
<1>6. CASE "bootId" \notin Hides[at[o]] \cup Hides[at[j]] /\ On[at[o]] # On[at[j]]
  BY <1>4, <1>6 DEF OtherBoot
<1>7. CASE "namespace" \notin Hides[at[o]] \cup Hides[at[j]] /\ Namespace[at[o]] # Namespace[at[j]]
  <2>1. OtherNamespace(o, j)  BY <1>4, <1>7 DEF OtherNamespace
  <2> QED  BY <2>1 DEF Foreign
<1> QED  BY <1>3, <1>5, <1>6, <1>7 DEF Apart

(* An owner of an earlier boot of the machine is gone. *)
LEMMA EarlierBoot ==
  ASSUME IndInv, NEW o \in Process, NEW j \in Process, NEW how,
         life[j] = "running", life[o] # "unborn", ~Foreign(how, o, j), OtherBoot(o, j)
  PROVE  life[o] = "gone"
<1>1. On[at[o]] = On[at[j]]
  <2>1. at[o] \in Place /\ at[j] \in Place  BY DEF IndInv, TypeOK
  <2> QED  BY <2>1, MachineAssumption DEF Foreign, SameMachine
<1>2. born[o] # born[j]  BY <1>1 DEF OtherBoot
<1>3. born[j] = boot[On[at[j]]]  BY DEF IndInv, BootInv, Present
<1>4. o \notin Present  BY <1>1, <1>2, <1>3 DEF IndInv, BootInv
<1> QED  BY <1>4 DEF Present, IndInv, TypeOK

(* A pid that nobody has in the owner's place is not the owner's any more.  *)
LEMMA NobodyThere ==
  ASSUME IndInv, NEW o \in Process, NEW j \in Process,
         life[o] # "unborn", at[o] = at[j], Has(at[j], pid[o]) = {}
  PROVE  life[o] = "gone"
<1>1. o \notin Present  BY DEF Has
<1> QED  BY <1>1 DEF Present, IndInv, TypeOK

LEMMA BeginInd ==
  ASSUME IndInv, NEW p \in Process, NEW a \in Place, NEW n \in Pid, NEW s \in Start, Begin(p, a, n, s)
  PROVE  IndInv'
<1> USE DEF Begin, asked
<1>0. TypeOK  BY DEF IndInv
<1>1. TypeOK'
  <2>1. On[a] \in Machine /\ Hides[a] \subseteq Field  BY PlaceAssumption
  <2>2. boot[On[a]] \in 0..MaxBoot  BY <2>1, <1>0 DEF TypeOK
  <2>3. hidden' \in [Process -> SUBSET Field]  BY <2>1, <1>0 DEF TypeOK
  <2> QED  BY <1>0, <2>2, <2>3 DEF TypeOK
<1>2. Present' = Present \cup {p}  BY <1>0 DEF Present, TypeOK
<1>3. p \notin Present  BY DEF Present
<1>4. \A q \in Present : q # p /\ at'[q] = at[q] /\ pid'[q] = pid[q] /\ born'[q] = born[q]
  BY <1>0, <1>3 DEF TypeOK, Present
<1>5. at'[p] = a /\ pid'[p] = n /\ born'[p] = boot[On[a]]  BY <1>0 DEF TypeOK
<1>6. BootInv'
  <2>1. \A q \in Present : born'[q] = boot'[On[at'[q]]]  BY <1>4 DEF IndInv, BootInv
  <2>2. born'[p] = boot'[On[at'[p]]]  BY <1>5
  <2> QED  BY <1>2, <2>1, <2>2 DEF BootInv
<1>7. PidInv'
  <2>1. \A q \in Present : ~(at[q] = a /\ pid[q] = n)  BY DEF Has
  <2>2. \A q, r \in Present : at'[q] = at'[r] /\ pid'[q] = pid'[r] => q = r
    BY <1>4 DEF IndInv, PidInv
  <2>3. \A q \in Present : ~(at'[q] = at'[p] /\ pid'[q] = pid'[p])  BY <2>1, <1>4, <1>5
  <2> QED  BY <1>2, <2>2, <2>3 DEF PidInv
<1>8. HiddenInv'  BY <1>0 DEF IndInv, HiddenInv, TypeOK
<1>9. AskInv'
  <2> SUFFICES ASSUME NEW j \in Process, stage'[j] = "start"
               PROVE  at'[of'[j]] = at'[j] /\ life'[of'[j]] # "unborn" /\ life'[j] # "unborn"
    BY DEF AskInv
  <2>1. at[of[j]] = at[j] /\ life[of[j]] # "unborn" /\ of[j] # p /\ of[j] \in Process
    BY <1>0 DEF IndInv, AskInv, TypeOK
  <2>2. j # p /\ life[j] # "unborn"  BY <1>0 DEF IndInv, AskInv, TypeOK
  <2>3. life'[j] = life[j] /\ life'[of[j]] = life[of[j]]  BY <2>1, <2>2, <1>0 DEF TypeOK
  <2>4. at'[j] = at[j] /\ at'[of[j]] = at[of[j]]  BY <2>1, <2>2, <1>0 DEF TypeOK
  <2> QED  BY <2>1, <2>2, <2>3, <2>4
<1>10. DeadIsGone'
  <2> SUFFICES ASSUME NEW j \in Process, verdict[j] = "dead" PROVE life'[of[j]] = "gone"
    BY DEF DeadIsGone
  <2>1. life[of[j]] = "gone" /\ of[j] \in Process  BY <1>0 DEF IndInv, DeadIsGone, TypeOK
  <2> QED  BY <2>1, <1>0 DEF TypeOK
<1> QED  BY <1>1, <1>6, <1>7, <1>8, <1>9, <1>10 DEF IndInv

(* Processes end: nothing else changes, and who is gone stays gone. *)
LEMMA EndingInd ==
  ASSUME IndInv, UNCHANGED <<facts, asked>>,
         boot' \in [Machine -> 0..MaxBoot],
         life' \in [Process -> {"unborn", "running", "zombie", "gone"}],
         \A p \in Process : life[p] = "gone" => life'[p] = "gone",
         \A p \in Process : life[p] # "unborn" => life'[p] # "unborn",
         \A p \in Process : life'[p] \in {"running", "zombie"} =>
           life[p] \in {"running", "zombie"} /\ boot'[On[at[p]]] = boot[On[at[p]]]
  PROVE  IndInv'
<1> USE DEF facts, asked
<1>1. TypeOK'  BY DEF IndInv, TypeOK
<1>2. Present' \subseteq Present  BY DEF Present
<1>3. BootInv'  BY <1>2 DEF IndInv, BootInv, Present
<1>4. PidInv'  BY <1>2 DEF IndInv, PidInv
<1>5. HiddenInv'  BY DEF IndInv, HiddenInv
<1>6. AskInv'  BY DEF IndInv, AskInv, TypeOK
<1>7. DeadIsGone'  BY DEF IndInv, DeadIsGone, TypeOK
<1> QED  BY <1>1, <1>3, <1>4, <1>5, <1>6, <1>7 DEF IndInv

LEMMA LookInd ==
  ASSUME IndInv, NEW j \in Process, NEW o \in Process, NEW how, Look(j, o, how)
  PROVE  IndInv'
<1> USE DEF Look, facts
<1>0. TypeOK  BY DEF IndInv
<1>1. TypeOK'  BY <1>0 DEF TypeOK
<1>2. Present' = Present  BY DEF Present
<1>3. BootInv' /\ PidInv' /\ HiddenInv'  BY <1>2 DEF IndInv, BootInv, PidInv, HiddenInv
<1>4. AskInv'
  <2>1. stage'[j] = "start" => at[o] = at[j]
    <3> SUFFICES ASSUME stage'[j] = "start" PROVE at[o] = at[j]  OBVIOUS
    <3>1. ~Foreign(how, o, j) /\ ~OtherBoot(o, j)  BY <1>0 DEF TypeOK
    <3> QED  BY <3>1, SamePlace
  <2>2. of'[j] = o /\ \A i \in Process \ {j} : of'[i] = of[i] /\ stage'[i] = stage[i]
    BY <1>0 DEF TypeOK
  <2> QED  BY <2>1, <2>2 DEF IndInv, AskInv
<1>5. DeadIsGone'
  <2>1. verdict'[j] = "dead" => life[o] = "gone"
    <3> SUFFICES ASSUME verdict'[j] = "dead" PROVE life[o] = "gone"  OBVIOUS
    <3>1. ~Foreign(how, o, j) /\ (OtherBoot(o, j) \/ Has(at[j], pid[o]) = {})
      BY <1>0 DEF TypeOK
    <3>2. CASE OtherBoot(o, j)  BY <3>1, <3>2, EarlierBoot
    <3>3. CASE ~OtherBoot(o, j)  BY <3>1, <3>3, SamePlace, NobodyThere
    <3> QED  BY <3>2, <3>3
  <2>2. of'[j] = o /\ \A i \in Process \ {j} : of'[i] = of[i] /\ verdict'[i] = verdict[i]
    BY <1>0 DEF TypeOK
  <2> QED  BY <2>1, <2>2 DEF IndInv, DeadIsGone
<1> QED  BY <1>1, <1>3, <1>4, <1>5 DEF IndInv

LEMMA ReadStartInd ==
  ASSUME IndInv, NEW j \in Process, ReadStart(j)
  PROVE  IndInv'
<1> USE DEF ReadStart, facts
<1>0. TypeOK  BY DEF IndInv
<1>1. TypeOK'
  <2>1. verdict' \in [Process -> {"alive", "dead"}]  BY <1>0 DEF TypeOK
  <2> QED  BY <1>0, <2>1 DEF TypeOK
<1>2. Present' = Present  BY DEF Present
<1>3. BootInv' /\ PidInv' /\ HiddenInv'  BY <1>2 DEF IndInv, BootInv, PidInv, HiddenInv
<1>4. AskInv'  BY <1>0 DEF IndInv, AskInv, TypeOK
<1>5. DeadIsGone'
  <2> DEFINE o == of[j]
  <2>1. o \in Process /\ at[o] = at[j] /\ life[o] # "unborn"  BY <1>0 DEF IndInv, AskInv, TypeOK
  <2>2. ASSUME NEW p \in Has(at[j], pid[o]), start[p] # start[o] PROVE life[o] = "gone"
    <3>1. p \in Present /\ at[p] = at[o] /\ pid[p] = pid[o] /\ p # o  BY <2>1, <2>2 DEF Has
    <3>2. o \notin Present  BY <3>1 DEF IndInv, PidInv
    <3> QED  BY <2>1, <3>2, <1>0 DEF Present, TypeOK
  <2>3. verdict'[j] = "dead" => life[o] = "gone"
    BY <2>2, <1>0 DEF IndInv, DeadIsGone, TypeOK
  <2>4. \A i \in Process \ {j} : verdict'[i] = verdict[i]  BY <1>0 DEF TypeOK
  <2> QED  BY <2>3, <2>4 DEF IndInv, DeadIsGone
<1> QED  BY <1>1, <1>3, <1>4, <1>5 DEF IndInv

LEMMA StepInd == IndInv /\ [Next]_vars => IndInv'
<1> SUFFICES ASSUME IndInv, [Next]_vars PROVE IndInv'  OBVIOUS
<1>0. TypeOK  BY DEF IndInv
<1>1. ASSUME NEW p \in Process, NEW a \in Place, NEW n \in Pid, NEW s \in Start, Begin(p, a, n, s)
      PROVE  IndInv'
  BY <1>1, BeginInd
<1>2. ASSUME NEW p \in Process, End(p) \/ Reap(p) PROVE IndInv'
  <2>1. /\ UNCHANGED <<boot, facts, asked>>
        /\ life' \in [Process -> {"unborn", "running", "zombie", "gone"}]
        /\ life[p] \in {"running", "zombie"} /\ life'[p] # "unborn"
        /\ \A q \in Process \ {p} : life'[q] = life[q]
    BY <1>0, <1>2 DEF End, Reap, TypeOK
  <2> QED  BY <2>1, <1>0, EndingInd DEF TypeOK
<1>3. ASSUME NEW m \in Machine, Reboot(m) PROVE IndInv'
  <2>1. boot' \in [Machine -> 0..MaxBoot] /\ \A k \in Machine \ {m} : boot'[k] = boot[k]
    BY <1>0, <1>3, PlaceAssumption DEF Reboot, TypeOK
  <2>2. life' \in [Process -> {"unborn", "running", "zombie", "gone"}]
    BY <1>0, <1>3 DEF Reboot, TypeOK
  <2>3. \A p \in Process : life[p] = "gone" => life'[p] = "gone"  BY <1>3 DEF Reboot
  <2>4. \A p \in Process : life[p] # "unborn" => life'[p] # "unborn"  BY <1>3 DEF Reboot
  <2>5. \A p \in Process : life'[p] \in {"running", "zombie"} =>
          life[p] \in {"running", "zombie"} /\ boot'[On[at[p]]] = boot[On[at[p]]]
    <3> SUFFICES ASSUME NEW p \in Process, life'[p] \in {"running", "zombie"}
                 PROVE  life[p] \in {"running", "zombie"} /\ boot'[On[at[p]]] = boot[On[at[p]]]
      OBVIOUS
    <3>1. On[at[p]] \in Machine  BY <1>0, PlaceAssumption DEF TypeOK
    <3>2. life[p] = life'[p] /\ ~(p \in Present /\ On[at[p]] = m)  BY <1>3 DEF Reboot
    <3> QED  BY <2>1, <3>1, <3>2 DEF Present
  <2>6. UNCHANGED <<facts, asked>>  BY <1>3 DEF Reboot
  <2> QED  BY <2>1, <2>2, <2>3, <2>4, <2>5, <2>6, EndingInd
<1>4. ASSUME NEW j \in Process, NEW o \in Process, NEW how \in {"payload", "name"}, Look(j, o, how)
      PROVE  IndInv'
  BY <1>4, LookInd
<1>5. ASSUME NEW j \in Process, ReadStart(j) PROVE IndInv'
  BY <1>5, ReadStartInd
<1>6. CASE UNCHANGED vars
  <2>1. UNCHANGED <<boot, life, facts, asked>>  BY <1>6 DEF vars
  <2> QED  BY <2>1, <1>0, EndingInd DEF TypeOK
<1> QED  BY <1>1, <1>2, <1>3, <1>4, <1>5, <1>6 DEF Next

(* owner.ts keeps every fact it records in the range it is read from. *)
THEOREM TypeCorrect == Spec => []TypeOK
<1>1. IndInv => TypeOK  BY DEF IndInv
<1> QED  BY <1>1, InitInd, StepInd, PTL DEF Spec

(* ownerIsDead and namedOwnerIsDead answer true only of an owner that does  *)
(* not run any more: nobody's ticket or lock is taken away from the living. *)
THEOREM OnlyTheDead == Spec => []DeadIsGone
<1>1. IndInv => DeadIsGone  BY DEF IndInv
<1> QED  BY <1>1, InitInd, StepInd, PTL DEF Spec

-----------------------------------------------------------------------------
(* The dead are found dead: a judge that is told otherwise has met somebody *)
(* with the pid of the owner, in the place of the owner, and who is that    *)
(* does not change any more.                                                *)
Successor(p, o) == p # o /\ life[p] # "unborn" /\ at[p] = at[o] /\ pid[p] = pid[o]

Judged(j) ==
  LET o == of[j]
  IN /\ stage[j] # "none" => life[j] # "unborn" /\ life[o] # "unborn"
     /\ stage[j] = "start" /\ gone[j] => \E p \in Process : Successor(p, o)
     /\ stage[j] = "told" /\ gone[j] /\ at[j] = at[o] /\ Hides[at[o]] = {} =>
          verdict[j] = "dead" \/ \E p \in Process : Covers(p, o)
GoneInv == \A j \in Process : Judged(j)

(* Nothing that was recorded of a process changes after it has begun.       *)
Recorded ==
  \A p \in Process :
    life[p] # "unborn" =>
      /\ at'[p] = at[p] /\ pid'[p] = pid[p] /\ start'[p] = start[p]
      /\ life'[p] # "unborn" /\ (life'[p] = "running" => life[p] = "running")

LEMMA StepRecorded ==
  ASSUME TypeOK, [Next]_vars
  PROVE  Recorded
<1>1. ASSUME NEW p \in Process, NEW a \in Place, NEW n \in Pid, NEW s \in Start, Begin(p, a, n, s)
      PROVE  Recorded
  BY <1>1 DEF Begin, TypeOK, Recorded
<1>2. ASSUME NEW p \in Process, End(p) \/ Reap(p) PROVE Recorded
  BY <1>2 DEF End, Reap, facts, TypeOK, Recorded
<1>3. ASSUME NEW m \in Machine, Reboot(m) PROVE Recorded
  BY <1>3 DEF Reboot, facts, Recorded
<1>4. ASSUME UNCHANGED <<life, facts>> PROVE Recorded
  BY <1>4 DEF facts, Recorded
<1>5. ASSUME NEW j \in Process, ReadStart(j) \/ \E o \in Process, how \in {"payload", "name"} : Look(j, o, how)
      PROVE  UNCHANGED <<life, facts>>
  BY <1>5 DEF Look, ReadStart
<1>6. CASE UNCHANGED vars
  BY <1>4, <1>6 DEF vars
<1> QED  BY <1>1, <1>2, <1>3, <1>4, <1>5, <1>6 DEF Next

LEMMA SuccessorKept ==
  ASSUME Recorded, NEW p \in Process, NEW o \in Process, life[o] # "unborn"
  PROVE  /\ Successor(p, o) => Successor(p, o)'
         /\ Covers(p, o) => Covers(p, o)'
  BY DEF Recorded, Successor, Covers

(* A judge that asks nothing is in the position it was in. *)
LEMMA JudgeKept ==
  ASSUME TypeOK, GoneInv, Recorded, NEW j \in Process,
         of'[j] = of[j], gone'[j] = gone[j], stage'[j] = stage[j], verdict'[j] = verdict[j]
  PROVE  Judged(j)'
<1> PICK o \in Process : o = of[j]  BY DEF TypeOK
<1>0. Judged(j) /\ of'[j] = o  BY DEF GoneInv
<1>1. stage[j] # "none" => life'[j] # "unborn" /\ life[o] # "unborn" /\ life'[o] # "unborn"
  BY <1>0 DEF Judged, Recorded
<1>2. ASSUME stage[j] = "start", gone[j] PROVE \E p \in Process : Successor(p, o)'
  <2>1. PICK p \in Process : Successor(p, o)  BY <1>0, <1>2 DEF Judged
  <2> QED  BY <1>1, <1>2, <2>1, SuccessorKept
<1>3. ASSUME stage[j] = "told", gone[j], at'[j] = at'[o], Hides[at'[o]] = {}, verdict[j] # "dead"
      PROVE  \E p \in Process : Covers(p, o)'
  <2>1. at[j] = at[o] /\ Hides[at[o]] = {} /\ life[o] # "unborn"
    BY <1>0, <1>1, <1>3 DEF Judged, Recorded
  <2>2. PICK p \in Process : Covers(p, o)  BY <1>0, <1>3, <2>1 DEF Judged
  <2> QED  BY <2>1, <2>2, SuccessorKept
<1> QED  BY <1>0, <1>1, <1>2, <1>3 DEF Judged

(* In its own place, with everything read, an owner is not foreign.         *)
LEMMA NotForeign ==
  ASSUME IndInv, NEW o \in Process, NEW j \in Process, NEW how, at[j] = at[o], Hides[at[o]] = {}
  PROVE  ~Foreign(how, o, j) /\ Knows(o, "processStart")
<1>1. hidden[o] = {} /\ hidden[j] = {}  BY DEF IndInv, HiddenInv
<1>2. \A f : Knows(o, f) /\ Knows(j, f)  BY <1>1 DEF Knows
<1>3. ~OtherMachine(how, o, j) /\ SameMachine(o, j) /\ ~OtherNamespace(o, j)
  BY <1>2 DEF OtherMachine, SameMachine, OtherNamespace
<1> QED  BY <1>2, <1>3 DEF Foreign

LEMMA LookGone ==
  ASSUME IndInv, GoneInv, NEW j \in Process, NEW o \in Process, NEW how, Look(j, o, how)
  PROVE  GoneInv'
<1> USE DEF Look, facts
<1>0. TypeOK  BY DEF IndInv
<1>1. Recorded  BY DEF Recorded
<1>2. of'[j] = o /\ gone'[j] = (life[o] = "gone")  BY <1>0 DEF TypeOK
<1>3. life'[j] # "unborn" /\ life'[o] # "unborn"  OBVIOUS
<1>4. ASSUME stage'[j] = "start", gone'[j] PROVE \E p \in Process : Successor(p, o)'
  <2>1. ~Foreign(how, o, j) /\ ~OtherBoot(o, j) /\ Has(at[j], pid[o]) # {}
    BY <1>0, <1>4 DEF TypeOK
  <2>2. at[o] = at[j]  BY <2>1, SamePlace
  <2>3. PICK p \in Has(at[j], pid[o]) : TRUE  BY <2>1
  <2>4. p \in Process /\ p # o /\ life[p] # "unborn" /\ at[p] = at[o] /\ pid[p] = pid[o]
    BY <1>2, <1>4, <2>2, <2>3 DEF Has, Present
  <2> QED  BY <2>4 DEF Successor
<1>5. ASSUME stage'[j] = "told", gone'[j], at'[j] = at'[o], Hides[at'[o]] = {} PROVE verdict'[j] = "dead"
  <2>1. ~Foreign(how, o, j) /\ Knows(o, "processStart")  BY <1>5, NotForeign
  <2>2. OtherBoot(o, j) \/ Has(at[j], pid[o]) = {}  BY <1>0, <1>5, <2>1 DEF TypeOK
  <2> QED  BY <1>0, <2>1, <2>2 DEF TypeOK
<1>6. \A i \in Process \ {j} : /\ of'[i] = of[i] /\ gone'[i] = gone[i]
                               /\ stage'[i] = stage[i] /\ verdict'[i] = verdict[i]
  BY <1>0 DEF TypeOK
<1>7. Judged(j)'  BY <1>2, <1>3, <1>4, <1>5 DEF Judged
<1>8. ASSUME NEW i \in Process \ {j} PROVE Judged(i)'  BY <1>0, <1>1, <1>6, JudgeKept
<1> QED  BY <1>7, <1>8 DEF GoneInv

LEMMA ReadStartGone ==
  ASSUME IndInv, GoneInv, NEW j \in Process, ReadStart(j)
  PROVE  GoneInv'
<1> USE DEF ReadStart, facts
<1> PICK o \in Process : o = of[j]  BY DEF IndInv, TypeOK
<1>0. TypeOK /\ Judged(j)  BY DEF IndInv, GoneInv
<1>1. Recorded  BY DEF Recorded
<1>2. of'[j] = o /\ gone'[j] = gone[j] /\ life'[j] # "unborn" /\ life'[o] # "unborn" /\ stage'[j] = "told"
  BY <1>0 DEF Judged, TypeOK
<1>3. ASSUME gone[j], at'[j] = at'[o], Hides[at'[o]] = {}, verdict'[j] # "dead"
      PROVE  \E p \in Process : Covers(p, o)'
  <2>1. PICK p \in Process : Successor(p, o)  BY <1>0, <1>3 DEF Judged
  <2>2. {q \in Has(at[j], pid[o]) : life[q] = "running" /\ start[q] # start[o]} = {}
    BY <1>0, <1>3 DEF TypeOK
  <2>3. life[p] = "running" => start[p] = start[o]
    BY <1>3, <2>1, <2>2 DEF Successor, Has, Present
  <2> QED  BY <2>1, <2>3 DEF Successor, Covers
<1>4. \A i \in Process \ {j} : /\ of'[i] = of[i] /\ gone'[i] = gone[i]
                               /\ stage'[i] = stage[i] /\ verdict'[i] = verdict[i]
  BY <1>0 DEF TypeOK
<1>5. Judged(j)'  BY <1>2, <1>3 DEF Judged
<1>6. ASSUME NEW i \in Process \ {j} PROVE Judged(i)'  BY <1>0, <1>1, <1>4, JudgeKept
<1> QED  BY <1>5, <1>6 DEF GoneInv

LEMMA GoneStep == IndInv /\ GoneInv /\ [Next]_vars => GoneInv'
<1> SUFFICES ASSUME IndInv, GoneInv, [Next]_vars PROVE GoneInv'  OBVIOUS
<1>0. TypeOK /\ Recorded  BY StepRecorded DEF IndInv
<1>1. ASSUME UNCHANGED asked PROVE GoneInv'
  <2>1. ASSUME NEW j \in Process
        PROVE  of'[j] = of[j] /\ gone'[j] = gone[j] /\ stage'[j] = stage[j] /\ verdict'[j] = verdict[j]
    BY <1>1 DEF asked
  <2>2. ASSUME NEW j \in Process PROVE Judged(j)'  BY <1>0, <2>1, JudgeKept
  <2> QED  BY <2>2 DEF GoneInv
<1>2. ASSUME NEW j \in Process, NEW o \in Process, NEW how \in {"payload", "name"}, Look(j, o, how)
      PROVE  GoneInv'
  BY <1>2, LookGone
<1>3. ASSUME NEW j \in Process, ReadStart(j) PROVE GoneInv'
  BY <1>3, ReadStartGone
<1>4. ASSUME NEW p \in Process,
             End(p) \/ Reap(p) \/ \E a \in Place, n \in Pid, s \in Start : Begin(p, a, n, s)
      PROVE  UNCHANGED asked
  BY <1>4 DEF Begin, End, Reap
<1>5. ASSUME NEW m \in Machine, Reboot(m) PROVE UNCHANGED asked
  BY <1>5 DEF Reboot
<1>6. CASE UNCHANGED vars
  BY <1>1, <1>6 DEF vars
<1> QED  BY <1>1, <1>2, <1>3, <1>4, <1>5, <1>6 DEF Next

(* ownerIsDead and namedOwnerIsDead find the dead dead, from a place where  *)
(* everything can be read, but for a pid that is in use again: tickets and  *)
(* locks that are left behind do not block the queue for ever.              *)
THEOREM DeadAreFound == Spec => []GoneIsDead
<1>1. Init => GoneInv  BY DEF Init, GoneInv, Judged
<1>2. GoneInv => GoneIsDead  BY DEF GoneInv, Judged, GoneIsDead
<1> QED  BY <1>1, <1>2, InitInd, StepInd, GoneStep, PTL DEF Spec
=============================================================================
