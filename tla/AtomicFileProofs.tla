-------------------------- MODULE AtomicFileProofs --------------------------
(***************************************************************************)
(* Proofs about AtomicFile, for any calls, stores, versions and failures:  *)
(* its inductive invariant, what follows from it, and that the file        *)
(* operations implement Register.                                          *)
(***************************************************************************)
EXTENDS AtomicFile, TLAPS

USE KindAssumption, NameAssumption, VersionAssumption
USE DEF Call, Locked, Writer, File

LEMMA Initially == Init => IndInv
  BY DEF Init, IndInv, TypeOK, Data, Labels, Making, Over, Whole, Named, Durable,
         KindInv, LockInv, Live, FileInv, UpdateInv

(* Where a read may lead. *)
LEMMA ReadLeads ==
  ASSUME IndInv, NEW c \in Call, NEW part \in {"content", "stat"}, Half(c, part)
  PROVE  \/ UNCHANGED <<pc, holder>>
         \/ \E label \in {"done", "failed", "checking", "sealing", "creating"} :
              /\ Goto(c, label)
              /\ label = "checking" => c \in Updater
              /\ label \in {"sealing", "creating"} => c \in Migrator /\ pc[c] = "reading"
<1> DEFINE content == IF part = "content" \/ name = NoFile THEN name ELSE got[c]
<1>1. \/ UNCHANGED <<pc, holder>>
      \/ \E label \in AfterRead(c, content) : Goto(c, label)
  BY Zenon DEF Half
<1>2. /\ c \in Reader \/ c \in Updater \/ c \in Migrator
      /\ pc[c] \in {"reading", "verifying"}
  BY DEF IndInv, KindInv, Half, Reading
<1>3. \A label \in AfterRead(c, content) :
        /\ label \in {"done", "failed", "checking", "sealing", "creating"}
        /\ label = "checking" => c \in Updater
        /\ label \in {"sealing", "creating"} => c \in Migrator /\ pc[c] = "reading"
  BY <1>2 DEF AfterRead, Encoding
<1> QED BY <1>1, <1>3

(* Each part of the invariant is kept by every step. *)
LEMMA TypeKept ==
  ASSUME IndInv, [Next]_vars
  PROVE  TypeOK'
<1> USE DEF TypeOK, Data, Labels, Making, Over
<1>1. ASSUME NEW c \in Call, Begin(c) PROVE TypeOK'
  BY <1>1 DEF IndInv, Begin, path, files
<1>2. ASSUME NEW c \in Call, NEW part \in {"content", "stat"}, Half(c, part) PROVE TypeOK'
  <2>3. pc' \in [Call -> Labels] /\ holder' \in Locked \cup {Nobody}
    BY <1>2, ReadLeads DEF IndInv, Goto
  <2>4. todo' \in [Call -> SUBSET {"content", "stat"}]
    BY <1>2 DEF IndInv, Half
  <2>5. got' \in [Call -> File \cup {NoFile}]
    BY <1>2 DEF IndInv, Half
  <2>6. seen' \in [Call -> Version \cup {NoFile}]
    BY <1>2 DEF IndInv, Half
  <2> QED BY <1>2, <2>3, <2>4, <2>5, <2>6 DEF IndInv, Half, path, files
<1>3. ASSUME NEW c \in Call, Check(c) PROVE TypeOK'
  BY <1>3 DEF IndInv, Check, Goto, Encoding, path, files
<1>4. ASSUME NEW c \in Call, Seal(c) PROVE TypeOK'
  BY <1>4 DEF IndInv, Seal, Goto, path, files, read
<1>5. ASSUME NEW c \in Call, Create(c) PROVE TypeOK'
  BY <1>5 DEF IndInv, KindInv, Create, Goto, path, read
<1>6. ASSUME NEW c \in Call, Fill(c) PROVE TypeOK'
  BY <1>6 DEF IndInv, KindInv, Fill, Goto, path, read
<1>7. ASSUME NEW c \in Call, Sync(c) PROVE TypeOK'
  BY <1>7 DEF IndInv, KindInv, Sync, Goto, path, read
<1>8. ASSUME NEW c \in Call, Name(c) PROVE TypeOK'
  BY <1>8 DEF IndInv, KindInv, Name, Goto, read
<1>9. ASSUME NEW c \in Call, SyncDir(c) PROVE TypeOK'
  BY <1>9 DEF IndInv, SyncDir, Goto, files, read
<1>10. ASSUME NEW c \in Call, Stat(c) PROVE TypeOK'
  BY <1>10 DEF IndInv, Stat, Goto, path, files
<1>11. ASSUME NEW c \in Call, Unlink(c) PROVE TypeOK'
  BY <1>11 DEF IndInv, Unlink, Goto, files, read
<1>12. ASSUME NEW c \in Call, Fail(c) PROVE TypeOK'
  BY <1>12 DEF IndInv, KindInv, Fail, Goto, path, read
<1>13. ASSUME NEW c \in Call, Die(c) PROVE TypeOK'
  BY <1>13 DEF IndInv, Die, Goto, path, files, read
<1>14. ASSUME PowerLoss PROVE TypeOK'
  BY <1>14 DEF IndInv, PowerLoss, read
<1>15. ASSUME UNCHANGED vars PROVE TypeOK'
  BY <1>15 DEF IndInv, vars, path, files, read
<1> QED
  BY <1>1, <1>2, <1>3, <1>4, <1>5, <1>6, <1>7, <1>8, <1>9, <1>10, <1>11, <1>12, <1>13, <1>14, <1>15
     DEF Next, Step

(* What a step may do to another call, and to its own. *)
LEMMA KindKept ==
  ASSUME IndInv, [Next]_vars
  PROVE  KindInv'
<1> USE DEF TypeOK, Labels, Making, Over, KindInv
<1>1. ASSUME NEW c \in Call, Begin(c) PROVE KindInv'
  BY <1>1 DEF IndInv, Begin
<1>2. ASSUME NEW c \in Call, NEW part \in {"content", "stat"}, Half(c, part) PROVE KindInv'
  <2>1. CASE UNCHANGED <<pc, holder>>
    BY <2>1 DEF IndInv
  <2>2. CASE ~UNCHANGED <<pc, holder>>
    <3>1. PICK label \in {"done", "failed", "checking", "sealing", "creating"} :
            /\ Goto(c, label)
            /\ label = "checking" => c \in Updater
            /\ label \in {"sealing", "creating"} => c \in Migrator
      BY <1>2, <2>2, ReadLeads
    <3> QED BY <3>1 DEF IndInv, Goto
  <2> QED BY <2>1, <2>2
<1>3. ASSUME NEW c \in Call, Check(c) PROVE KindInv'
  BY <1>3 DEF IndInv, Check, Goto, Encoding
<1>4. ASSUME NEW c \in Call, Seal(c) \/ Create(c) \/ Fill(c) \/ Sync(c) \/ Name(c) \/ SyncDir(c) PROVE KindInv'
  BY <1>4 DEF IndInv, Seal, Create, Fill, Sync, Name, SyncDir, Goto
<1>5. ASSUME NEW c \in Call, Stat(c) \/ Unlink(c) \/ Fail(c) \/ Die(c) PROVE KindInv'
  BY <1>5 DEF IndInv, Stat, Unlink, Fail, Die, Goto
<1>6. ASSUME PowerLoss PROVE KindInv'
  BY <1>6 DEF IndInv, PowerLoss
<1>7. ASSUME UNCHANGED vars PROVE KindInv'
  BY <1>7 DEF IndInv, vars
<1> QED BY <1>1, <1>2, <1>3, <1>4, <1>5, <1>6, <1>7 DEF Next, Step

LEMMA LockKept ==
  ASSUME IndInv, [Next]_vars
  PROVE  LockInv'
<1> USE DEF TypeOK, Labels, Making, Over, LockInv, Live
<1>1. ASSUME NEW c \in Call, Begin(c) PROVE LockInv'
  BY <1>1 DEF IndInv, Begin
<1>2. ASSUME NEW c \in Call, NEW label \in Labels, Live(c), Goto(c, label) PROVE LockInv'
  BY <1>2 DEF IndInv, Goto
<1>3. ASSUME NEW c \in Call, NEW part \in {"content", "stat"}, Half(c, part) PROVE LockInv'
  <2>1. Live(c)
    BY <1>3 DEF Half, Reading
  <2>2. CASE UNCHANGED <<pc, holder>>
    BY <2>2 DEF IndInv
  <2>3. CASE \E label \in {"done", "failed", "checking", "sealing", "creating"} : Goto(c, label)
    BY <2>1, <2>3, <1>2
  <2> QED BY <1>3, <2>2, <2>3, ReadLeads
<1>4. ASSUME NEW c \in Call, Check(c) \/ Seal(c) \/ Create(c) \/ Fill(c) \/ Sync(c) \/ Name(c) PROVE LockInv'
  <2>1. Live(c) /\ \E label \in Labels : Goto(c, label)
    BY <1>4 DEF Check, Encoding, Seal, Create, Fill, Sync, Name
  <2> QED BY <2>1, <1>2
<1>5. ASSUME NEW c \in Call, SyncDir(c) \/ Stat(c) \/ Unlink(c) \/ Fail(c) \/ Die(c) PROVE LockInv'
  <2>1. Live(c) /\ \E label \in Labels : Goto(c, label)
    BY <1>5 DEF SyncDir, Stat, Unlink, Fail, Die
  <2> QED BY <2>1, <1>2
<1>6. ASSUME PowerLoss PROVE LockInv'
  BY <1>6 DEF IndInv, PowerLoss
<1>7. ASSUME UNCHANGED vars PROVE LockInv'
  BY <1>7 DEF IndInv, vars
<1> QED BY <1>1, <1>3, <1>4, <1>5, <1>6, <1>7 DEF Next, Step

LEMMA FileKept ==
  ASSUME IndInv, [Next]_vars
  PROVE  Whole' /\ Durable' /\ FileInv'
<1> USE DEF TypeOK, Data, Labels, Making, Over, Whole, Named, Durable, FileInv
<1>1. ASSUME NEW c \in Call, Begin(c) PROVE Whole' /\ Durable' /\ FileInv'
  BY <1>1 DEF IndInv, Begin, path, files
<1>2. ASSUME NEW c \in Call, NEW part \in {"content", "stat"}, Half(c, part)
      PROVE  Whole' /\ Durable' /\ FileInv'
  <2>1. UNCHANGED <<name, firm, loose, data>>
    BY <1>2 DEF Half, path, files
  <2>2. CASE UNCHANGED <<pc, holder>>
    BY <2>1, <2>2 DEF IndInv
  <2>3. CASE ~UNCHANGED <<pc, holder>>
    <3>1. PICK label \in {"done", "failed", "checking", "sealing", "creating"} :
            /\ Goto(c, label)
            /\ label = "checking" => c \in Updater
            /\ label \in {"sealing", "creating"} => c \in Migrator /\ pc[c] = "reading"
      BY <1>2, <2>3, ReadLeads
    <3>2. pc[c] \in {"reading", "verifying"}
      BY <1>2 DEF Half, Reading
    <3> QED BY <2>1, <3>1, <3>2 DEF IndInv, KindInv, Goto
  <2> QED BY <2>2, <2>3
<1>3. ASSUME NEW c \in Call, Check(c) \/ Seal(c) PROVE Whole' /\ Durable' /\ FileInv'
  BY <1>3 DEF IndInv, Check, Seal, Goto, Encoding, path, files
<1>4. ASSUME NEW c \in Call, Create(c) \/ Fill(c) \/ Sync(c) PROVE Whole' /\ Durable' /\ FileInv'
  BY <1>4 DEF IndInv, KindInv, Create, Fill, Sync, Goto, path
<1>5. ASSUME NEW c \in Call, Name(c) PROVE Whole' /\ Durable' /\ FileInv'
  BY <1>5 DEF IndInv, KindInv, Name, Goto
<1>6. ASSUME NEW c \in Call, SyncDir(c) PROVE Whole' /\ Durable' /\ FileInv'
  BY <1>6 DEF IndInv, SyncDir, Goto, files
<1>7. ASSUME NEW c \in Call, Stat(c) PROVE Whole' /\ Durable' /\ FileInv'
  BY <1>7 DEF IndInv, Stat, Goto, path, files
<1>8. ASSUME NEW c \in Call, Unlink(c) PROVE Whole' /\ Durable' /\ FileInv'
  BY <1>8 DEF IndInv, KindInv, Unlink, Goto, files
<1>9. ASSUME NEW c \in Call, Fail(c) \/ Die(c) PROVE Whole' /\ Durable' /\ FileInv'
  BY <1>9 DEF IndInv, KindInv, Fail, Die, Goto, path, files, Live
<1>10. ASSUME PowerLoss PROVE Whole' /\ Durable' /\ FileInv'
  BY <1>10 DEF IndInv, PowerLoss, Live
<1>11. ASSUME UNCHANGED vars PROVE Whole' /\ Durable' /\ FileInv'
  BY <1>11 DEF IndInv, vars, path, files
<1> QED
  BY <1>1, <1>2, <1>3, <1>4, <1>5, <1>6, <1>7, <1>8, <1>9, <1>10, <1>11 DEF Next, Step

LEMMA UpdateKept ==
  ASSUME IndInv, [Next]_vars
  PROVE  UpdateInv'
<1> USE DEF TypeOK, Labels, Making, Over, UpdateInv
<1>1. ASSUME NEW c \in Call, Begin(c) PROVE UpdateInv'
  BY <1>1 DEF IndInv, Begin, path
<1>2. ASSUME NEW c \in Call, NEW part \in {"content", "stat"}, Half(c, part) PROVE UpdateInv'
  <2>1. SUFFICES ASSUME NEW d \in Updater,
                        \/ pc'[d] \in {"checking"} \cup Making
                        \/ pc'[d] = "reading" /\ "content" \notin todo'[d]
                 PROVE  name = got'[d] \/ name \in Migrator
    BY <1>2 DEF Half, path
  <2>2. CASE d # c
    <3>1. pc'[d] = pc[d] /\ todo'[d] = todo[d] /\ got'[d] = got[d]
      BY <1>2, <2>2 DEF IndInv, Half, Goto
    <3> QED BY <2>1, <3>1 DEF IndInv
  <2>3. CASE d = c
    <3>1. pc[c] = "reading"
      BY <1>2, <2>3 DEF IndInv, KindInv, Half, Reading
    <3>2. CASE name = NoFile \/ part = "content"
      BY <1>2, <2>3, <3>2 DEF IndInv, Half
    <3>3. CASE name # NoFile /\ part = "stat"
      <4>1. "content" \notin todo[c]
        <5>1. CASE todo'[c] = {}
          BY <1>2, <3>3, <5>1 DEF IndInv, Half
        <5>2. CASE todo'[c] # {}
          BY <1>2, <2>1, <2>3, <3>1, <3>3, <5>2 DEF IndInv, Half
        <5> QED BY <5>1, <5>2
      <4>2. got'[c] = got[c]
        BY <1>2, <3>3 DEF IndInv, Half
      <4> QED BY <2>3, <3>1, <4>1, <4>2 DEF IndInv
    <3> QED BY <3>2, <3>3
  <2> QED BY <2>2, <2>3
<1>3. ASSUME NEW c \in Call,
             Check(c) \/ Seal(c) \/ Create(c) \/ Fill(c) \/ Sync(c) \/ SyncDir(c) \/ Stat(c) \/ Fail(c) \/ Die(c)
      PROVE  UpdateInv'
  <2>1. /\ name' = name /\ got' = got
        /\ \A d \in Updater : d # c => todo'[d] = todo[d] /\ pc'[d] = pc[d]
        /\ \/ todo' = todo
           \/ pc'[c] = "verifying"
        /\ \/ pc'[c] \notin {"reading", "checking"} \cup Making
           \/ pc[c] \in {"checking"} \cup Making
    BY <1>3 DEF IndInv, Check, Encoding, Seal, Create, Fill, Sync, SyncDir, Stat, Fail, Die, Goto,
                path, read
  <2> QED BY <2>1 DEF IndInv
<1>4. ASSUME NEW c \in Call, Name(c) \/ Unlink(c) PROVE UpdateInv'
  <2>1. Live(c) /\ c \in Writer \cup Deleter
    BY <1>4 DEF IndInv, KindInv, Name, Unlink, Live
  <2>2. ASSUME NEW d \in Updater, d # c, Live(d) PROVE c \in Migrator
    BY <2>1, <2>2 DEF IndInv, LockInv
  <2>3. UNCHANGED <<todo, got>> /\ \A d \in Updater : d # c => pc'[d] = pc[d]
    BY <1>4 DEF IndInv, Name, Unlink, Goto, read
  <2>4. pc'[c] \notin {"reading", "checking"} \cup Making
    BY <1>4 DEF IndInv, Name, Unlink, Goto
  <2>5. c \in Migrator => name' \in Migrator
    BY <1>4 DEF IndInv, KindInv, Name, Unlink
  <2> QED BY <2>2, <2>3, <2>4, <2>5 DEF IndInv, Live
<1>5. ASSUME PowerLoss PROVE UpdateInv'
  BY <1>5 DEF IndInv, PowerLoss, Live
<1>6. ASSUME UNCHANGED vars PROVE UpdateInv'
  BY <1>6 DEF IndInv, vars, path, read
<1> QED BY <1>1, <1>2, <1>3, <1>4, <1>5, <1>6 DEF Next, Step

LEMMA Inductive == Spec => []IndInv
<1>1. IndInv /\ [Next]_vars => IndInv'
  BY TypeKept, KindKept, LockKept, FileKept, UpdateKept DEF IndInv
<1> QED BY Initially, <1>1, PTL DEF Spec

-----------------------------------------------------------------------------
(* The file's variables keep their types. *)
THEOREM TypeCorrect == Spec => []TypeOK
<1>1. IndInv => TypeOK
  BY DEF IndInv
<1> QED BY Inductive, <1>1, PTL

(* Neither a reader nor a power failure ever meets part of a blob: a file  *)
(* has its name only after its content is on the disk.                     *)
THEOREM NeverTorn == Spec => []Whole
<1>1. IndInv => Whole
  BY DEF IndInv
<1> QED BY Inductive, <1>1, PTL

(* What writeFileAtomic has reported as written outlives a power failure,  *)
(* where the directory can be synced.                                      *)
THEOREM WritesLast == Spec => []Durable
<1>1. IndInv => Durable
  BY DEF IndInv
<1> QED BY Inductive, <1>1, PTL

(* An update under the lock replaces what it was computed from: the lock,  *)
(* and not the comparison of versions, makes that so.                      *)
THEOREM UpdatesKept == Spec => NoLostUpdate
<1>1. IndInv /\ [Next]_vars => [\A c \in Updater : Replaces(c) => name = got[c] \/ name \in Migrator]_vars
  BY DEF IndInv, UpdateInv, Replaces, Making
<1> QED BY Inductive, <1>1, PTL DEF Spec, NoLostUpdate

-----------------------------------------------------------------------------
(* The refinement: what a step does to the phases of the register's clients. *)
LEMMA PhaseMoves ==
  ASSUME TypeOK, NEW c \in Call, NEW label, pc' = [pc EXCEPT ![c] = label]
  PROVE  Phase' = [Phase EXCEPT ![c] = PhaseOf(label)]
  BY DEF TypeOK, Phase

LEMMA PhaseStays ==
  ASSUME TypeOK, NEW c \in Call, NEW label, pc' = [pc EXCEPT ![c] = label],
         PhaseOf(label) = PhaseOf(pc[c])
  PROVE  Phase' = Phase
  BY DEF TypeOK, Phase

(* A call's read is the register's: it gets what there is, or learns        *)
(* nothing new.                                                             *)
LEMMA HalfRefines ==
  ASSUME IndInv, NEW c \in Call, NEW part \in {"content", "stat"}, Half(c, part)
  PROVE  [Abstract!Next]_Abstract!vars
<1>1. Phase[c] \in {"busy", "put"} /\ pc[c] \in {"reading", "verifying"}
  BY DEF Half, Reading, Phase, PhaseOf, Over
<1>2. /\ UNCHANGED <<name, firm, loose>>
      /\ got' = [got EXCEPT ![c] = name] \/ got' = got
  BY DEF IndInv, TypeOK, Half, path
<1>3. /\ Phase[c] = "put" /\ c \notin MayFail => c \notin loose
      /\ Phase[c] = "put" => pc[c] = "verifying" /\ c \in Writer
  BY <1>1 DEF IndInv, FileInv, KindInv, Phase, PhaseOf, Over
<1>4. \/ Phase' = Phase
      \/ Phase' = [Phase EXCEPT ![c] = "done"]
      \/ Phase' = [Phase EXCEPT ![c] = "failed"]
  <2>1. CASE UNCHANGED <<pc, holder>>
    BY <2>1 DEF Phase
  <2>2. CASE ~UNCHANGED <<pc, holder>>
    <3>1. PICK label \in {"done", "failed", "checking", "sealing", "creating"} :
            /\ Goto(c, label)
            /\ label = "checking" => c \in Updater
            /\ label \in {"sealing", "creating"} => c \in Migrator /\ pc[c] = "reading"
      BY <2>2, ReadLeads
    <3>2. Phase' = [Phase EXCEPT ![c] = PhaseOf(label)]
      BY <3>1, PhaseMoves DEF Goto, IndInv
    <3>3. label \in {"checking", "sealing", "creating"} => pc[c] = "reading"
      BY <1>1, <3>1 DEF IndInv, KindInv
    <3>4. /\ label = "done" => PhaseOf(label) = "done"
          /\ label = "failed" => PhaseOf(label) = "failed"
          /\ label \in {"checking", "sealing", "creating"} => PhaseOf(label) = "busy"
      BY DEF PhaseOf
    <3>5. Phase \in [Call -> {"idle", "busy", "put", "done", "failed"}]
      BY DEF Phase, PhaseOf
    <3>6. pc[c] = "reading" => Phase[c] = "busy"
      BY DEF Phase, PhaseOf, Over
    <3> QED BY <3>1, <3>2, <3>3, <3>4, <3>5, <3>6
  <2> QED BY <2>1, <2>2
<1>5. CASE got' = [got EXCEPT ![c] = name]
  <2>1. Abstract!Get(c)
    BY <1>1, <1>2, <1>3, <1>4, <1>5 DEF Abstract!Get, Abstract!Kept
  <2> QED BY <2>1 DEF Abstract!Next
<1>6. CASE got' = got
  <2>1. CASE Phase' = Phase
    BY <1>2, <1>6, <2>1 DEF Abstract!vars
  <2>2. CASE Phase' = [Phase EXCEPT ![c] = "done"]
    <3>1. Abstract!Return(c)
      BY <1>1, <1>2, <1>3, <1>6, <2>2 DEF Abstract!Return, Abstract!Become, Abstract!Kept
    <3> QED BY <3>1 DEF Abstract!Next
  <2>3. CASE Phase' = [Phase EXCEPT ![c] = "failed"]
    <3>1. Abstract!Fail(c)
      BY <1>1, <1>2, <1>6, <2>3 DEF Abstract!Fail
    <3> QED BY <3>1 DEF Abstract!Next
  <2> QED BY <1>4, <2>1, <2>2, <2>3
<1> QED BY <1>2, <1>5, <1>6

(* Everything that ends a call early is a failure of its client. *)
LEMMA EndRefines ==
  ASSUME IndInv, NEW c \in Call, Live(c), NEW label \in {"failed", "dead"}, Goto(c, label),
         UNCHANGED <<path, got>>
  PROVE  Abstract!Fail(c)
<1>1. Phase' = [Phase EXCEPT ![c] = "failed"]
  BY PhaseMoves DEF IndInv, Goto, PhaseOf
<1>2. Phase[c] \in {"busy", "put"}
  BY DEF Live, Phase, PhaseOf, Over
<1> QED BY <1>1, <1>2 DEF Abstract!Fail, path

LEMMA StepRefines ==
  ASSUME IndInv, [Next]_vars
  PROVE  [Abstract!Next]_Abstract!vars
<1> USE DEF Over
<1>1. ASSUME NEW c \in Call, Begin(c) PROVE Abstract!Next
  <2>1. Phase[c] = "idle" /\ Phase' = [Phase EXCEPT ![c] = "busy"]
    BY <1>1, PhaseMoves DEF IndInv, Begin, Phase, PhaseOf
  <2>2. Abstract!Begin(c)
    BY <1>1, <2>1 DEF Begin, Abstract!Begin, Abstract!Become, path
  <2> QED BY <2>2 DEF Abstract!Next
<1>2. ASSUME NEW c \in Call, Check(c) PROVE [Abstract!Next]_Abstract!vars
  <2>1. CASE pc' = [pc EXCEPT ![c] = Encoding(c)]
    BY <1>2, <2>1, PhaseStays DEF IndInv, Check, Encoding, PhaseOf, Abstract!vars, path
  <2>2. CASE Goto(c, "failed")
    <3>1. Abstract!Fail(c)
      BY <1>2, <2>2, EndRefines DEF Check, Live
    <3> QED BY <3>1 DEF Abstract!Next
  <2> QED BY <1>2, <2>1, <2>2 DEF Check, Goto
<1>3. ASSUME NEW c \in Call, Seal(c) \/ Create(c) \/ Fill(c) \/ Sync(c) PROVE UNCHANGED Abstract!vars
  <2>1. \E label \in Making : pc' = [pc EXCEPT ![c] = label] /\ pc[c] \in Making
    BY <1>3 DEF Seal, Create, Fill, Sync, Goto, Making
  <2>2. Phase' = Phase
    BY <2>1, PhaseStays DEF IndInv, Making, PhaseOf
  <2> QED BY <1>3, <2>2 DEF Seal, Create, Fill, Sync, Abstract!vars, path, read
<1>4. ASSUME NEW c \in Call, Name(c) PROVE Abstract!Next
  <2>1. Phase[c] = "busy" /\ Phase' = [Phase EXCEPT ![c] = "put"]
    BY <1>4, PhaseMoves DEF IndInv, Name, Goto, Phase, PhaseOf
  <2>2. c \in Updater => name = got[c] \/ name \in Migrator
    BY <1>4 DEF IndInv, UpdateInv, Name, Making
  <2>3. Abstract!Put(c)
    BY <1>4, <2>1, <2>2 DEF Name, Abstract!Put, Abstract!Become, read
  <2> QED BY <2>3 DEF Abstract!Next
<1>5. ASSUME NEW c \in Call, SyncDir(c) PROVE [Abstract!Next]_Abstract!vars
  <2>1. Phase' = Phase
    BY <1>5, PhaseStays DEF IndInv, SyncDir, Goto, PhaseOf
  <2>2. CASE firm' = name /\ loose' = {}
    <3>1. Abstract!Settle
      BY <1>5, <2>1, <2>2 DEF SyncDir, Abstract!Settle, read
    <3> QED BY <3>1 DEF Abstract!Next
  <2>3. CASE UNCHANGED <<firm, loose>>
    BY <1>5, <2>1, <2>3 DEF SyncDir, Abstract!vars, read
  <2> QED BY <1>5, <2>2, <2>3 DEF SyncDir
<1>6. ASSUME NEW c \in Call, Stat(c) PROVE [Abstract!Next]_Abstract!vars
  <2>1. CASE Goto(c, "failed")
    <3>1. Abstract!Fail(c)
      BY <1>6, <2>1, EndRefines DEF Stat, Live
    <3> QED BY <3>1 DEF Abstract!Next
  <2>2. CASE Goto(c, "done")
    <3>1. Phase[c] = "put" /\ Phase' = [Phase EXCEPT ![c] = "done"]
      BY <1>6, <2>2, PhaseMoves DEF IndInv, Stat, Goto, Phase, PhaseOf
    <3>2. c \notin MayFail => c \notin loose
      BY <1>6 DEF IndInv, FileInv, KindInv, Stat
    <3>3. Abstract!Return(c)
      BY <1>6, <3>1, <3>2 DEF Stat, Abstract!Return, Abstract!Become, Abstract!Kept, path
    <3> QED BY <3>3 DEF Abstract!Next
  <2>3. CASE Goto(c, "verifying")
    <3>1. Phase' = Phase
      BY <1>6, <2>3, PhaseStays DEF IndInv, Stat, Goto, PhaseOf
    <3> QED BY <1>6, <3>1 DEF Stat, Abstract!vars, path
  <2> QED BY <1>6, <2>1, <2>2, <2>3 DEF Stat
<1>7. ASSUME NEW c \in Call, Unlink(c) PROVE Abstract!Next
  <2>1. Phase[c] = "busy" /\ Phase' = [Phase EXCEPT ![c] = "done"]
    BY <1>7, PhaseMoves DEF IndInv, Unlink, Goto, Phase, PhaseOf
  <2>2. CASE name = NoFile
    <3>1. Abstract!Return(c)
      BY <1>7, <2>1, <2>2 DEF Unlink, Abstract!Return, Abstract!Become, Abstract!Kept, read
    <3> QED BY <3>1 DEF Abstract!Next
  <2>3. CASE name # NoFile
    <3>1. Abstract!Remove(c)
      BY <1>7, <2>1, <2>3 DEF Unlink, Abstract!Remove, Abstract!Become, read
    <3> QED BY <3>1 DEF Abstract!Next
  <2> QED BY <2>2, <2>3
<1>8. ASSUME NEW c \in Call, Fail(c) \/ Die(c) PROVE Abstract!Next
  <2>1. Abstract!Fail(c)
    BY <1>8, EndRefines DEF Fail, Die, Live, read
  <2> QED BY <2>1 DEF Abstract!Next
<1>9. ASSUME PowerLoss PROVE Abstract!Next
  <2>1. \A c \in Call : Phase'[c] = IF Phase[c] \in {"busy", "put"} THEN "failed" ELSE Phase[c]
    BY <1>9 DEF IndInv, TypeOK, PowerLoss, Live, Phase, PhaseOf
  <2>2. Phase' = [c \in Call |-> IF Phase[c] \in {"busy", "put"} THEN "failed" ELSE Phase[c]]
    BY <2>1 DEF Phase
  <2>3. Abstract!PowerLoss
    BY <1>9, <2>2 DEF PowerLoss, Abstract!PowerLoss, read
  <2> QED BY <2>3 DEF Abstract!Next
<1>10. ASSUME UNCHANGED vars PROVE UNCHANGED Abstract!vars
  BY <1>10 DEF vars, path, read, Phase, Abstract!vars
<1> QED
  BY <1>1, <1>2, <1>3, <1>4, <1>5, <1>6, <1>7, <1>8, <1>9, <1>10, HalfRefines DEF Next, Step

(* The file operations implement a register with atomic reads and writes   *)
(* that survives a loss of power.                                          *)
THEOREM Implements == Spec => ImplementsRegister
<1>1. Init => Abstract!Init
  BY DEF Init, Abstract!Init, Phase, PhaseOf, Over
<1> QED
  BY <1>1, StepRefines, Inductive, PTL DEF Spec, ImplementsRegister, Abstract!Spec
=============================================================================
