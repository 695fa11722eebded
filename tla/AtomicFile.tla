----------------------------- MODULE AtomicFile -----------------------------
(***************************************************************************)
(* The blob file: src/store/atomicFile.ts under FileStore and              *)
(* SystemdCredsStore, used the way the vault and the migrate command use   *)
(* them.                                                                   *)
(*                                                                         *)
(* A call is one use of the store: a read in no transaction; an update,    *)
(* which under the lock reads and then writes with the version it read; a  *)
(* deletion under the lock; a migration, which reads, writes without a     *)
(* version and reads again to verify, all without the lock.  A writing     *)
(* call creates one file, which carries its name.                          *)
(***************************************************************************)
EXTENDS FiniteSets

CONSTANTS
  Reader, Updater, Deleter, Migrator,   \* calls
  Old,            \* the blob that is there at the start
  NoFile,         \* the path names nothing
  Nobody,
  Sealing,        \* calls of SystemdCredsStore (a migration: to it), and Old if sealed
  Version,        \* ino-mtime-size: two files there are differ in it
  MayFail         \* calls whose file operations or encryption may fail, or whose
                  \* process may die

Writer == Updater \cup Migrator
Locked == Updater \cup Deleter
Call == Reader \cup Locked \cup Migrator
File == Writer \cup {Old}

ASSUME KindAssumption ==
  /\ Reader \cap (Locked \cup Migrator) = {}
  /\ Updater \cap (Deleter \cup Migrator) = {}
  /\ Deleter \cap Migrator = {}
ASSUME NameAssumption ==
  /\ Old \notin Call /\ NoFile \notin Call /\ Nobody \notin Call
  /\ Old # NoFile
  /\ Sealing \subseteq Call \cup {Old}
ASSUME VersionAssumption == NoFile \notin Version /\ MayFail \subseteq Call

VARIABLES
  name,       \* the file the path names
  firm,       \* the file it names on the disk since the directory was synced
  loose,      \* what it has named since
  temp,       \* files that still have their temporary name
  data,       \* how much of a file is there
  version,    \* of a file
  holder,     \* of the vault's lock
  pc,
  todo,       \* the parts of Promise.all that have not ended
  got, seen   \* content that a call has read, and the version it will pass to write

path == <<name, firm, loose>>
files == <<temp, data, version>>
read == <<todo, got, seen>>
vars == <<path, files, holder, pc, read>>

Init ==
  /\ name \in {Old, NoFile}
  /\ firm = name
  /\ loose = {}
  /\ temp = {}
  /\ data = [f \in File |-> IF f = Old THEN "synced" ELSE "none"]
  /\ \E v \in Version : version = [f \in File |-> v]
  /\ holder = Nobody
  /\ pc = [c \in Call |-> "idle"]
  /\ todo = [c \in Call |-> {}]
  /\ got = [c \in Call |-> NoFile]
  /\ seen = [c \in Call |-> NoFile]

Over == {"done", "failed", "dead"}
Live(c) == pc[c] \notin {"idle"} \cup Over

(* A call that ends lets go of the lock. *)
Goto(c, label) ==
  /\ pc' = [pc EXCEPT ![c] = label]
  /\ holder' = IF label \in Over /\ holder = c THEN Nobody ELSE holder

\* Mutant of Begin: nobody takes the lock.
BeginUnlocked(c) ==
  /\ pc[c] = "idle"
  /\ pc' = [pc EXCEPT ![c] = IF c \in Deleter THEN "deleting" ELSE "reading"]
  /\ todo' = [todo EXCEPT ![c] = {"content", "stat"}]
  /\ UNCHANGED <<path, files, holder, got, seen>>

Begin(c) ==
  /\ pc[c] = "idle"
  /\ c \in Locked => holder = Nobody
  /\ holder' = IF c \in Locked THEN c ELSE holder
  /\ pc' = [pc EXCEPT ![c] = IF c \in Deleter THEN "deleting" ELSE "reading"]
  /\ todo' = [todo EXCEPT ![c] = {"content", "stat"}]
  /\ UNCHANGED <<path, files, got, seen>>

-----------------------------------------------------------------------------
(* readFileVersioned: readFile and stat run side by side, and the first of  *)
(* them that finds no file ends it with neither content nor version.        *)
Reading(c) == pc[c] \in {"reading", "verifying"}

(* A store reads what a store of its kind wrote: an envelope that unseals,  *)
(* or the plain blob; a migration first reads the kind it is to replace.    *)
Readable(c, f) ==
  (f \in Sealing) = IF c \in Migrator /\ pc[c] = "reading" THEN c \notin Sealing ELSE c \in Sealing

Encoding(c) == IF c \in Sealing THEN "sealing" ELSE "creating"

(* Where a call goes on with what it has read: migrate has nothing to do    *)
(* with an empty store, and of the copy it checks the number of aliases,    *)
(* which a blob that somebody else has written may share.                   *)
AfterRead(c, content) ==
  LET fit == content = NoFile \/ Readable(c, content)
  IN CASE ~fit -> {"failed"}
       [] fit /\ c \in Reader -> {"done"}
       [] fit /\ c \in Updater -> {"checking"}
       [] fit /\ c \in Migrator /\ pc[c] = "reading" ->
            {IF content = NoFile THEN "done" ELSE Encoding(c)}
       [] fit /\ c \in Migrator /\ pc[c] = "verifying" ->
            CASE content = c -> {"done"}
              [] content = NoFile -> {"failed"}
              [] OTHER -> {"done", "failed"}

\* Mutant of Half: what Promise.all returns is taken apart in the wrong order.
HalfSwapped(c, part) ==
  /\ Reading(c) /\ part \in todo[c] /\ name # NoFile
  /\ todo' = [todo EXCEPT ![c] = @ \ {part}]
  /\ got' = IF part = "stat" THEN [got EXCEPT ![c] = version[name]] ELSE got
  /\ seen' = IF part = "content" THEN [seen EXCEPT ![c] = name] ELSE seen
  /\ UNCHANGED <<path, files, pc, holder>>

Half(c, part) ==
  /\ Reading(c)
  /\ part \in todo[c]
  /\ LET left == IF name = NoFile THEN {} ELSE todo[c] \ {part}
         content == IF part = "content" \/ name = NoFile THEN name ELSE got[c]
         stamp == IF name = NoFile \/ c \notin Updater THEN NoFile
                  ELSE IF part = "stat" THEN version[name] ELSE seen[c]
     IN /\ todo' = [todo EXCEPT ![c] = left]
        /\ got' = [got EXCEPT ![c] = content]
        /\ seen' = [seen EXCEPT ![c] = stamp]
        /\ IF left = {}
           THEN \E label \in AfterRead(c, content) : Goto(c, label)
           ELSE UNCHANGED <<pc, holder>>
  /\ UNCHANGED <<path, files>>

(* write(blob, expected): the version is compared before anything is made. *)
Check(c) ==
  /\ pc[c] = "checking"
  /\ Goto(c, IF seen[c] = (IF name = NoFile THEN NoFile ELSE version[name])
             THEN Encoding(c) ELSE "failed")
  /\ seen' = [seen EXCEPT ![c] = NoFile]
  /\ UNCHANGED <<path, files, todo, got>>

(* A child process encrypts the blob, between the comparison and the write. *)
Seal(c) ==
  /\ pc[c] = "sealing"
  /\ Goto(c, "creating")
  /\ UNCHANGED <<path, files, read>>

-----------------------------------------------------------------------------
(* writeFileAtomic. *)
Named == ({name, firm} \cup loose) \ {NoFile}
There == temp \cup Named

Create(c) ==
  /\ pc[c] = "creating"
  /\ \E v \in Version \ {version[f] : f \in There} : version' = [version EXCEPT ![c] = v]
  /\ temp' = temp \cup {c}
  /\ data' = [data EXCEPT ![c] = "empty"]
  /\ Goto(c, "filling")
  /\ UNCHANGED <<path, read>>

Fill(c) ==
  /\ pc[c] = "filling"
  /\ data' = [data EXCEPT ![c] = "whole"]
  /\ Goto(c, "syncing")
  /\ UNCHANGED <<path, temp, version, read>>

\* Mutant of Sync: the file is not synced.
SyncNothing(c) ==
  /\ pc[c] = "syncing"
  /\ Goto(c, "naming")
  /\ UNCHANGED <<path, files, read>>

Sync(c) ==
  /\ pc[c] = "syncing"
  /\ data' = [data EXCEPT ![c] = "synced"]
  /\ Goto(c, "naming")
  /\ UNCHANGED <<path, temp, version, read>>

\* Mutant of Name: the target is unlinked before the rename.
NameTwice(c) ==
  /\ pc[c] = "naming"
  /\ IF name = NoFile
     THEN /\ name' = c /\ loose' = loose \cup {c} /\ temp' = temp \ {c}
          /\ Goto(c, "entering")
     ELSE /\ name' = NoFile /\ loose' = loose \cup {NoFile}
          /\ UNCHANGED <<temp, pc, holder>>
  /\ UNCHANGED <<firm, data, version, read>>

Name(c) ==
  /\ pc[c] = "naming"
  /\ name' = c
  /\ loose' = loose \cup {c}
  /\ temp' = temp \ {c}
  /\ Goto(c, "entering")
  /\ UNCHANGED <<firm, data, version, read>>

\* Mutant of SyncDir: the directory is not synced.
SyncDirNot(c) ==
  /\ pc[c] = "entering"
  /\ Goto(c, "stating")
  /\ UNCHANGED <<path, files, read>>

(* Best effort: that the directory cannot be synced is no failure. *)
SyncDir(c) ==
  /\ pc[c] = "entering"
  /\ \/ firm' = name /\ loose' = {}
     \/ c \in MayFail /\ UNCHANGED <<firm, loose>>
  /\ Goto(c, "stating")
  /\ UNCHANGED <<name, files, read>>

(* The version to return: of a file that is gone again, an error. *)
Stat(c) ==
  /\ pc[c] = "stating"
  /\ IF name = NoFile \/ c \in Updater
     THEN Goto(c, IF name = NoFile THEN "failed" ELSE "done") /\ UNCHANGED todo
     ELSE Goto(c, "verifying") /\ todo' = [todo EXCEPT ![c] = {"content", "stat"}]
  /\ UNCHANGED <<path, files, got, seen>>

(* deleteFileIfExists: the directory is not synced. *)
Unlink(c) ==
  /\ pc[c] = "deleting"
  /\ name' = NoFile
  /\ loose' = IF name = NoFile THEN loose ELSE loose \cup {NoFile}
  /\ Goto(c, "done")
  /\ UNCHANGED <<firm, files, read>>

(* A file operation throws.  A rename that fails removes the temporary      *)
(* file; what fails before it leaves one behind.                            *)
Fail(c) ==
  /\ c \in MayFail
  /\ pc[c] \in {"reading", "verifying", "checking", "sealing", "creating", "filling", "syncing",
                "naming", "stating", "deleting"}
  /\ Goto(c, "failed")
  /\ IF pc[c] = "naming"
     THEN temp' = temp \ {c} /\ data' = [data EXCEPT ![c] = "none"]
     ELSE UNCHANGED <<temp, data>>
  /\ UNCHANGED <<path, version, read>>

-----------------------------------------------------------------------------
(* The process of a call dies; the lock frees itself of a dead holder. *)
Die(c) ==
  /\ c \in MayFail
  /\ Live(c)
  /\ Goto(c, "dead")
  /\ UNCHANGED <<path, files, read>>

(* The machine loses power: a file that was not synced may be torn, and the *)
(* path may name anything it has named since the directory was synced.      *)
PowerLoss ==
  /\ name' \in {firm} \cup loose
  /\ firm' = name'
  /\ loose' = {}
  /\ data' = [f \in File |-> IF data[f] \in {"empty", "whole"} THEN "torn" ELSE data[f]]
  /\ holder' = Nobody
  /\ pc' = [c \in Call |-> IF Live(c) THEN "dead" ELSE pc[c]]
  /\ UNCHANGED <<temp, version, read>>

Step(c) ==
  \/ Begin(c)
  \/ \E part \in {"content", "stat"} : Half(c, part)
  \/ Check(c) \/ Seal(c) \/ Create(c) \/ Fill(c) \/ Sync(c) \/ Name(c) \/ SyncDir(c) \/ Stat(c)
  \/ Unlink(c)
  \/ Fail(c)
  \/ Die(c)

Next == (\E c \in Call : Step(c)) \/ PowerLoss

Spec == Init /\ [][Next]_vars

-----------------------------------------------------------------------------
Data == {"none", "empty", "whole", "synced", "torn"}
Making == {"sealing", "creating", "filling", "syncing", "naming"}
Labels == {"idle", "reading", "checking", "entering", "stating", "verifying", "deleting"}
            \cup Making \cup Over

TypeOK ==
  /\ name \in File \cup {NoFile}
  /\ firm \in File \cup {NoFile}
  /\ loose \in SUBSET (Writer \cup {NoFile})
  /\ temp \in SUBSET Writer
  /\ data \in [File -> Data]
  /\ version \in [File -> Version]
  /\ holder \in Locked \cup {Nobody}
  /\ pc \in [Call -> Labels]
  /\ todo \in [Call -> SUBSET {"content", "stat"}]
  /\ got \in [Call -> File \cup {NoFile}]
  /\ seen \in [Call -> Version \cup {NoFile}]

(* A torn blob can never be decrypted again: whatever file the path names,  *)
(* or would name after a power failure, its content is on the disk.         *)
Whole == \A f \in Named : data[f] = "synced"

(* Once a write has succeeded no power failure takes it back, unless the    *)
(* file system would not sync the directory: what may come back is its blob *)
(* or a later one.                                                          *)
Durable == \A c \in Writer \ MayFail : pc[c] = "done" => c \notin loose

Replaces(c) == pc[c] = "naming" /\ pc'[c] = "entering"

(* An update replaces the blob that it was computed from, or one that a     *)
(* migration has put there without the lock.                                *)
NoLostUpdate == [][\A c \in Updater : Replaces(c) => name = got[c] \/ name \in Migrator]_vars

-----------------------------------------------------------------------------
(* The file is a register with atomic reads and writes.                     *)
PhaseOf(label) == CASE label \in {"entering", "stating", "verifying"} -> "put"
                    [] label \in {"idle", "done"} -> label
                    [] label \in {"failed", "dead"} -> "failed"
                    [] OTHER -> "busy"

Phase == [c \in Call |-> PhaseOf(pc[c])]

Abstract == INSTANCE Register WITH
  Client <- Call, Careful <- Updater, Careless <- Migrator, Lasting <- Call \ MayFail,
  current <- name, phase <- Phase

(* Every step of the file operations is a step of the register or changes   *)
(* nothing in it.                                                           *)
ImplementsRegister == Abstract!Spec

-----------------------------------------------------------------------------
(* The inductive invariant: what a call knows where it is. *)
KindInv == \A c \in Call :
  /\ pc[c] = "reading" => c \notin Deleter
  /\ pc[c] = "checking" => c \in Updater
  /\ pc[c] \in Making \cup {"entering", "stating"} => c \in Writer
  /\ pc[c] = "verifying" => c \in Migrator
  /\ pc[c] = "deleting" => c \in Deleter

LockInv == \A c \in Locked : Live(c) => holder = c

FileInv ==
  /\ \A c \in Writer : pc[c] = "naming" => data[c] = "synced"
  /\ \A c \in Writer : pc[c] \in {"idle", "reading", "checking"} \cup Making => c \notin Named
  /\ \A c \in Writer \ MayFail : pc[c] \in {"stating", "verifying"} => c \notin loose

UpdateInv ==
  \A c \in Updater :
    \/ pc[c] \in {"checking"} \cup Making
    \/ pc[c] = "reading" /\ "content" \notin todo[c]
    => name = got[c] \/ name \in Migrator

IndInv == TypeOK /\ Whole /\ Durable /\ KindInv /\ LockInv /\ FileInv /\ UpdateInv
=============================================================================
