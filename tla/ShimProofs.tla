----------------------------- MODULE ShimProofs -----------------------------
(* For any number of copies of the SDK, of any kinds, loaded in any order: *)
(* an installed shim leaves the SDK no way to the keyring, nor to the      *)
(* vault outside of a transaction.                                         *)
EXTENDS Shim, TLAPS

TypeOK ==
  /\ pc \in {"fresh", "installed", "bypassed", "aborted"}
  /\ keychains \subseteq Copy /\ patched \subseteq Copy
  /\ required \subseteq Copy /\ strict \subseteq Copy
  /\ module \in [Module -> {"absent", "linked", "loaded"}]
  /\ armed \subseteq Module /\ wrapped \subseteq Module

(* What auth requires is there when auth is. *)
Complete ==
  \A c \in Copy : module[<<c, "auth">>] = "loaded" =>
                    c \in keychains /\ module[<<c, "OAuth">>] = "loaded"

Untouched ==
  pc \in {"fresh", "bypassed"} =>
    patched = {} /\ required = {} /\ strict = {} /\ armed = {} /\ wrapped = {}

(* Whatever loads after the installation finds the hook or an accessor, and *)
(* the keychains know which copies must run in a transaction.               *)
Hooked ==
  \A m \in Module : /\ module[m] = "loaded" => m \in wrapped
                    /\ module[m] = "linked" => m \in armed
Marked ==
  /\ \A c \in Copy : <<c, "auth">> \in wrapped => c \in required
  /\ patched \cap required \subseteq strict
Rewired == pc = "installed" => keychains \subseteq patched /\ Hooked /\ Marked

IndInv == TypeOK /\ Complete /\ Untouched /\ Rewired

Guarded == NeverKeyring /\ InTransaction

(* The program has only what it loads. *)
LEMMA InitInv == Init => IndInv /\ Guarded
  BY DEF Init, IndInv, TypeOK, Complete, Untouched, Rewired, Hooked, Marked, Guarded, NeverKeyring, InTransaction, Module

(* What an action must show that leaves the effect alone, unless it ends    *)
(* the process.                                                             *)
LEMMA GuardedKept ==
  ASSUME Guarded, effect' = effect,
         pc' = pc \/ (pc = "fresh" /\ pc' \in {"installed", "bypassed", "aborted"})
  PROVE  Guarded'
  BY DEF Guarded, NeverKeyring, InTransaction

LEMMA LinkStep ==
  ASSUME NEW m \in Module, Link(m), IndInv, Guarded
  PROVE  IndInv' /\ Guarded'
<1>1. Guarded'
  BY GuardedKept DEF Link
<1>2. TypeOK' /\ Complete' /\ Untouched' /\ Rewired'
  BY DEF Link, IndInv, TypeOK, Complete, Untouched, Rewired, Hooked, Marked, Module, shim
<1> QED BY <1>1, <1>2 DEF IndInv

LEMMA LoadKeychainStep ==
  ASSUME NEW c \in Copy, LoadKeychain(c), IndInv, Guarded
  PROVE  IndInv' /\ Guarded'
<1>0. /\ UNCHANGED <<pc, module, armed, wrapped, required, effect>>
      /\ keychains' = keychains \cup {c}
  BY DEF LoadKeychain, PatchKeychains
<1>1. Guarded'
  BY <1>0, GuardedKept
<1>2. CASE hooked
  <2>1. PatchKeychains({c}) /\ pc = "installed" /\ pc' = "installed"
    BY <1>0, <1>2 DEF LoadKeychain, hooked
  <2>2. patched' \cap required' \subseteq strict' /\ strict' \in SUBSET Copy
    BY <1>0, <2>1 DEF IndInv, TypeOK, Rewired, Hooked, Marked, PatchKeychains
  <2>3. patched' = patched \cup {c}
    BY <2>1 DEF PatchKeychains
  <2> QED BY <1>0, <1>1, <2>1, <2>2, <2>3 DEF IndInv, TypeOK, Complete, Untouched, Rewired, Hooked, Marked
<1>3. CASE ~hooked
  <2>1. UNCHANGED <<patched, strict>> /\ pc # "installed"
    BY <1>3 DEF LoadKeychain, hooked
  <2> QED BY <1>0, <1>1, <2>1 DEF IndInv, TypeOK, Complete, Untouched, Rewired, Hooked, Marked
<1> QED BY <1>2, <1>3

LEMMA EvaluateStep ==
  ASSUME NEW c \in Copy, NEW name \in {"auth", "OAuth"}, Evaluate(c, name), IndInv, Guarded
  PROVE  IndInv' /\ Guarded'
<1> DEFINE needs == IF name = "auth" THEN {<<c, "auth">>, <<c, "OAuth">>} ELSE {<<c, name>>}
           run == {m \in needs : module[m] # "loaded"}
           ours == {m \in run : module[m] = "absent" \/ m \in armed}
<1>0. /\ UNCHANGED <<pc, effect>>
      /\ module' = [m \in Module |-> IF m \in run THEN "loaded" ELSE module[m]]
      /\ keychains' = IF name = "auth" THEN keychains \cup {c} ELSE keychains
  BY DEF Evaluate, PatchKeychains, shim
<1>1. Guarded'
  BY <1>0, GuardedKept
<1>2. needs \subseteq Module /\ module' \in [Module -> {"absent", "linked", "loaded"}]
  BY <1>0 DEF Module, IndInv, TypeOK
<1>3. Complete'
  BY <1>0 DEF Complete, IndInv, Module
<1>4. CASE hooked
  <2>1. /\ pc = "installed" /\ pc' = "installed"
        /\ wrapped' = wrapped \cup ours
        /\ armed' = armed \ run
        /\ required' = IF <<c, "auth">> \in ours THEN required \cup {c} ELSE required
        /\ IF name = "auth" THEN PatchKeychains({c}) ELSE UNCHANGED <<keychains, patched, strict>>
    BY <1>0, <1>4 DEF Evaluate, hooked
  <2>2. ours = run
    BY <1>2, <2>1 DEF IndInv, TypeOK, Rewired, Hooked, Marked
  <2>3. keychains' \subseteq patched' /\ patched' \subseteq Copy /\ keychains' \subseteq Copy
    BY <1>0, <2>1 DEF PatchKeychains, IndInv, TypeOK, Rewired, Hooked, Marked
  <2>4. patched' \cap required' \subseteq strict' /\ strict' \subseteq Copy
    <3>1. CASE name = "auth"
      BY <3>1, <2>1 DEF PatchKeychains, IndInv, TypeOK, Rewired, Hooked, Marked
    <3>2. CASE name # "auth"
      <4>1. UNCHANGED <<patched, strict, required>>
        BY <3>2, <2>1
      <4> QED BY <4>1, <2>1 DEF IndInv, TypeOK, Rewired, Hooked, Marked
    <3> QED BY <3>1, <3>2
  <2>5. \A d \in Copy : <<d, "auth">> \in wrapped' => d \in required'
    BY <2>1, <2>2 DEF IndInv, Rewired, Hooked, Marked
  <2>6. \A m \in Module : /\ module'[m] = "loaded" => m \in wrapped'
                          /\ module'[m] = "linked" => m \in armed'
    <3>1. \A m \in Module : module'[m] = IF m \in run THEN "loaded" ELSE module[m]
      BY <1>0
    <3> QED BY <3>1, <2>1, <2>2 DEF IndInv, Rewired, Hooked, Marked
  <2>7. required' \subseteq Copy /\ armed' \subseteq Module /\ wrapped' \subseteq Module
    BY <2>1, <2>2, <1>2 DEF IndInv, TypeOK
  <2> HIDE DEF run, ours, needs
  <2>8. TypeOK'
    BY <1>2, <2>1, <2>3, <2>4, <2>7 DEF TypeOK
  <2>9. Untouched'
    BY <2>1 DEF Untouched
  <2>10. Rewired'
    <3>1. Hooked'
      BY <2>6 DEF Hooked
    <3>2. Marked'
      BY <2>4, <2>5 DEF Marked
    <3> QED BY <3>1, <3>2, <2>3 DEF Rewired
  <2> QED BY <1>1, <1>3, <2>8, <2>9, <2>10 DEF IndInv
<1>5. CASE ~hooked
  <2>1. UNCHANGED shim /\ pc # "installed"
    BY <1>5 DEF Evaluate, hooked
  <2> QED BY <1>0, <1>1, <1>2, <1>3, <2>1 DEF IndInv, TypeOK, Untouched, Rewired, Hooked, Marked, shim
<1> QED BY <1>4, <1>5

LEMMA InstallStep ==
  ASSUME NEW e, Install(e), IndInv, Guarded
  PROVE  IndInv' /\ Guarded'
<1>0. UNCHANGED <<module, effect>> /\ pc = "fresh" /\ pc' \in {"installed", "bypassed", "aborted"}
  BY DEF Install
<1>1. Guarded'
  BY <1>0, GuardedKept
<1>2. CASE pc' = "installed"
  <2>1. /\ armed' = Cached("linked") /\ wrapped' = Cached("loaded")
        /\ required' = {m[1] : m \in {n \in wrapped' : n[2] = "auth"}}
        /\ PatchKeychains(Swept)
    BY <1>2 DEF Install
  <2>2. patched = {} /\ required = {} /\ strict = {}
    BY <1>0 DEF IndInv, Untouched
  <2>3. Swept \subseteq Copy /\ keychains \subseteq Swept
    BY DEF Swept, IndInv, TypeOK
  <2>4. keychains' = Swept /\ patched' = Swept /\ required' \cap Swept \subseteq strict' /\ strict' \subseteq Swept
    BY <2>1, <2>2, <2>3 DEF PatchKeychains
  <2>5. \A m \in Module : m[1] \in Copy
    BY DEF Module
  <2>6. required' \subseteq Copy /\ armed' \subseteq Module /\ wrapped' \subseteq Module
    BY <2>1, <2>5 DEF Cached
  <2>7. \A c \in Copy : <<c, "auth">> \in wrapped' => c \in required'
    BY <2>1
  <2>8. \A m \in Module : /\ module'[m] = "loaded" => m \in wrapped'
                          /\ module'[m] = "linked" => m \in armed'
    BY <1>0, <2>1 DEF Cached
  <2>9. TypeOK' /\ Complete'
    BY <1>0, <1>2, <2>3, <2>4, <2>6 DEF IndInv, TypeOK, Complete
  <2>10. Untouched'
    BY <1>2 DEF Untouched
  <2>11. keychains' \subseteq patched' /\ patched' \cap required' \subseteq strict'
    BY <2>4
  <2>12. Rewired'
    <3>1. Hooked'
      BY <2>8 DEF Hooked
    <3>2. Marked'
      BY <2>7, <2>11 DEF Marked
    <3> QED BY <3>1, <3>2, <2>11 DEF Rewired
  <2> QED BY <1>1, <2>9, <2>10, <2>12 DEF IndInv
<1>3. CASE pc' # "installed"
  <2>1. UNCHANGED <<keychains, shim>>
    BY <1>3 DEF Install
  <2> QED BY <1>0, <1>1, <1>3, <2>1 DEF IndInv, TypeOK, Complete, Untouched, Rewired, Hooked, Marked, shim
<1> QED BY <1>2, <1>3

(* Of an auth that is loaded, everything is patched or nothing. *)
LEMMA Routed ==
  ASSUME NEW c \in Copy, Usable(c), IndInv
  PROVE  \/ pc = "bypassed" /\ c \notin patched
         \/ /\ pc = "installed" /\ c \in patched /\ c \in strict
            /\ <<c, "auth">> \in wrapped /\ <<c, "OAuth">> \in wrapped
<1>1. <<c, "auth">> \in Module /\ <<c, "OAuth">> \in Module
  BY DEF Module
<1>2. c \in keychains /\ module[<<c, "auth">>] = "loaded" /\ module[<<c, "OAuth">>] = "loaded"
  BY DEF Usable, IndInv, Complete
<1> QED BY <1>1, <1>2 DEF Usable, IndInv, Untouched, Rewired, Hooked, Marked

LEMMA CallStep ==
  ASSUME NEW c \in Copy, IndInv, Guarded,
         RemoveAll(c) \/ Refresh(c) \/ \E original \in BOOLEAN : Change(c, original)
  PROVE  IndInv' /\ Guarded'
<1>1. Usable(c) /\ UNCHANGED <<pc, cache, shim>>
  BY DEF RemoveAll, Refresh, Change, Effect
<1>2. IndInv'
  BY <1>1 DEF IndInv, TypeOK, Complete, Untouched, Rewired, Hooked, Marked, cache, shim
<1>3. \/ pc = "bypassed" /\ c \notin patched
      \/ /\ pc = "installed" /\ c \in patched /\ c \in strict
         /\ <<c, "auth">> \in wrapped /\ <<c, "OAuth">> \in wrapped
  BY <1>1, Routed
<1>4. CASE pc = "bypassed" /\ c \notin patched
  <2>1. wrapped = {}
    BY <1>4 DEF IndInv, Untouched
  <2>2. effect' = "keyring"
    BY <1>4, <2>1 DEF RemoveAll, Refresh, Change, Effect, Reaches
  <2> QED BY <1>1, <1>2, <1>4, <2>2 DEF Guarded, NeverKeyring, InTransaction
<1>5. CASE /\ pc = "installed" /\ c \in patched /\ c \in strict
           /\ <<c, "auth">> \in wrapped /\ <<c, "OAuth">> \in wrapped
  <2>1. effect' \in {"transaction", "refused"}
    BY <1>5 DEF RemoveAll, Refresh, Change, Effect, Reaches
  <2> QED BY <1>2, <2>1 DEF Guarded, NeverKeyring, InTransaction
<1> QED BY <1>3, <1>4, <1>5

LEMMA RestartStep == Restart => IndInv' /\ Guarded'
  BY DEF Restart, IndInv, TypeOK, Complete, Untouched, Rewired, Hooked, Marked, Guarded, NeverKeyring,
         InTransaction, Module

(* Nothing else touches the process. *)
LEMMA OtherStep ==
  ASSUME IndInv, Guarded, UNCHANGED <<pc, keychains, module, shim, effect>>
  PROVE  IndInv' /\ Guarded'
  BY DEF IndInv, TypeOK, Complete, Untouched, Rewired, Hooked, Marked, Guarded, NeverKeyring, InTransaction, shim

LEMMA NextInv == IndInv /\ Guarded /\ [Next]_vars => IndInv' /\ Guarded'
<1> SUFFICES ASSUME IndInv, Guarded, [Next]_vars PROVE IndInv' /\ Guarded'
  OBVIOUS
<1>1. ASSUME NEW m \in Module, Link(m) PROVE IndInv' /\ Guarded'
  BY <1>1, LinkStep
<1>2. ASSUME NEW m \in Module, Evaluate(m[1], m[2]) PROVE IndInv' /\ Guarded'
  <2>1. m[1] \in Copy /\ m[2] \in {"auth", "OAuth"}
    BY DEF Module
  <2> QED BY <1>2, <2>1, EvaluateStep
<1>3. ASSUME NEW c \in Copy, LoadKeychain(c) PROVE IndInv' /\ Guarded'
  BY <1>3, LoadKeychainStep
<1>4. ASSUME NEW c \in Copy, Capture(c) PROVE IndInv' /\ Guarded'
  <2>1. UNCHANGED <<pc, keychains, module, shim, effect>>
    BY <1>4 DEF Capture
  <2> QED BY <2>1, OtherStep
<1>5. ASSUME NEW c \in Copy,
             RemoveAll(c) \/ Refresh(c) \/ \E original \in BOOLEAN : Change(c, original)
      PROVE  IndInv' /\ Guarded'
  BY <1>5, CallStep
<1>6. CASE Restart
  BY <1>6, RestartStep
<1>7. ASSUME NEW e \in Environments, Install(e) PROVE IndInv' /\ Guarded'
  BY <1>7, InstallStep
<1>8. ASSUME NEW e \in Environments,
             \/ \E target \in Backends : Migrate(e, target)
             \/ \E from \in {"keyring", "stdin"} : Import(e, from)
      PROVE  IndInv' /\ Guarded'
  <2>1. UNCHANGED <<pc, keychains, module, shim, effect>>
    BY <1>8 DEF Migrate, Import, cache
  <2> QED BY <2>1, OtherStep
<1>9. CASE UNCHANGED vars
  <2>1. UNCHANGED <<pc, keychains, module, shim, effect>>
    BY <1>9 DEF vars, cache
  <2> QED BY <2>1, OtherStep
<1> QED BY <1>1, <1>2, <1>3, <1>4, <1>5, <1>6, <1>7, <1>8, <1>9 DEF Next

LEMMA Invariance == Spec => [](IndInv /\ Guarded)
  BY InitInv, NextInv, PTL DEF Spec

(* The cache and what patch.ts keeps of it have their types. *)
THEOREM TypeCorrect == Spec => []TypeOK
  BY Invariance, PTL DEF IndInv

(* installKeyChainShim: once it has returned, no call of the SDK reaches    *)
(* the OS keyring, whatever was loaded before and whatever loads later.     *)
THEOREM NoKeyring == Spec => []NeverKeyring
  BY Invariance, PTL DEF Guarded

(* patchOperations and patchPrototype: every write of the SDK that gets     *)
(* through is in a transaction, functions captured earlier included.        *)
THEOREM AlwaysInTransaction == Spec => []InTransaction
  BY Invariance, PTL DEF Guarded

-----------------------------------------------------------------------------
(* createStore chooses the file for nobody who has not asked for it.        *)
LEMMA FileIsAsked ==
  ASSUME NEW s \in Settings, NEW h \in Hosts, createStore(s, h) = "file"
  PROVE  AskedForPlain(s)
<1>1. s.env \in Selections \cup {"none"} /\ s.file \in Selections \cup {"none"}
  BY DEF Settings
<1>2. Store(s) \in Selections
  BY <1>1 DEF Store, Selections
<1>3. Store(s) \in Backends => Store(s) = "file"
  BY DEF createStore, Backends
<1>4. CASE Store(s) = "file"
  BY <1>1, <1>4 DEF Store, AskedForPlain, Selections, Backends
<1>5. CASE Store(s) = "keyring"
  BY <1>5 DEF createStore, Backends
<1>6. CASE Store(s) = "auto"
  BY <1>6 DEF createStore, Backends, AllowPlaintext, AskedForPlain
<1> QED BY <1>2, <1>3, <1>4, <1>5, <1>6 DEF Selections, Backends

PlainInv == PlainIfAsked /\ (backend = "file" => asked) /\ asked \in BOOLEAN

LEMMA PlainStep == PlainInv /\ [Next]_vars => PlainInv'
<1> SUFFICES ASSUME PlainInv, [Next]_vars PROVE PlainInv'
  OBVIOUS
<1>1. \A e \in Environments : e.settings \in Settings /\ e.host \in Hosts
  BY ShimAssumption
<1>2. ASSUME NEW e \in Environments, Install(e) PROVE PlainInv'
  <2>1. UNCHANGED <<backend, asked>> \/
          (backend' = createStore(e.settings, e.host) /\ asked' = (asked \/ AskedForPlain(e.settings)))
    BY <1>2 DEF Install
  <2>2. createStore(e.settings, e.host) = "file" => AskedForPlain(e.settings)
    BY <1>1, FileIsAsked
  <2>3. UNCHANGED blob
    BY <1>2 DEF Install
  <2>4. AskedForPlain(e.settings) \in BOOLEAN
    BY <1>1 DEF AskedForPlain, Settings
  <2> QED BY <2>1, <2>2, <2>3, <2>4 DEF PlainInv, PlainIfAsked
<1>3. ASSUME NEW e \in Environments, NEW target \in Backends, Migrate(e, target) PROVE PlainInv'
  <2>1. target = "file" \/ blob' # "plain"
    BY <1>3 DEF Migrate, Written
  <2>2. UNCHANGED backend /\ asked' = (asked \/ AskedForPlain(e.settings) \/ target = "file")
    BY <1>3 DEF Migrate
  <2>3. AskedForPlain(e.settings) \in BOOLEAN
    BY <1>1 DEF AskedForPlain, Settings
  <2> QED BY <2>1, <2>2, <2>3 DEF PlainInv, PlainIfAsked
<1>4. ASSUME NEW e \in Environments, NEW from \in {"keyring", "stdin"}, Import(e, from) PROVE PlainInv'
  <2>1. /\ UNCHANGED blob \/ blob' = Written(createStore(e.settings, e.host))
        /\ UNCHANGED backend
        /\ asked' = (asked \/ AskedForPlain(e.settings))
    BY <1>4 DEF Import
  <2>2. createStore(e.settings, e.host) = "file" => AskedForPlain(e.settings)
    BY <1>1, FileIsAsked
  <2>3. AskedForPlain(e.settings) \in BOOLEAN
    BY <1>1 DEF AskedForPlain, Settings
  <2>4. blob' = "plain" => asked \/ createStore(e.settings, e.host) = "file"
    BY <2>1 DEF PlainInv, PlainIfAsked, Written
  <2> QED BY <2>1, <2>2, <2>3, <2>4 DEF PlainInv, PlainIfAsked
<1>5. ASSUME NEW c \in Copy,
             RemoveAll(c) \/ Refresh(c) \/ \E original \in BOOLEAN : Change(c, original)
      PROVE  PlainInv'
  <2>1. /\ UNCHANGED <<backend, asked>>
        /\ UNCHANGED blob \/ blob' = "none" \/ blob' = Written(backend)
    BY <1>5 DEF RemoveAll, Refresh, Change, Effect, Update, Delete
  <2>2. blob' = "plain" => asked \/ backend = "file"
    BY <2>1 DEF PlainInv, PlainIfAsked, Written
  <2> QED BY <2>1, <2>2 DEF PlainInv, PlainIfAsked
<1>6. ASSUME UNCHANGED <<backend, blob, asked>> PROVE PlainInv'
  BY <1>6 DEF PlainInv, PlainIfAsked
<1>7. ASSUME NEW m \in Module, Link(m) \/ Evaluate(m[1], m[2]) PROVE PlainInv'
  <2>1. UNCHANGED <<backend, kept>>
    BY <1>7 DEF Link, Evaluate
  <2> QED BY <2>1, <1>6 DEF kept
<1>8. ASSUME NEW c \in Copy, LoadKeychain(c) \/ Capture(c) PROVE PlainInv'
  <2>1. UNCHANGED <<backend, kept>>
    BY <1>8 DEF LoadKeychain, Capture
  <2> QED BY <2>1, <1>6 DEF kept
<1>9. CASE Restart
  BY <1>9 DEF Restart, kept, PlainInv, PlainIfAsked
<1>10. CASE UNCHANGED vars
  BY <1>10, <1>6 DEF vars, kept
<1> QED BY <1>2, <1>3, <1>4, <1>5, <1>7, <1>8, <1>9, <1>10 DEF Next

(* createStore, cmdMigrate, cmdImport and the recovery of sidecars: the     *)
(* store becomes plain text only if the user has asked for that.            *)
THEOREM StorePlainOnlyIfAsked == Spec => []PlainIfAsked
<1>1. Init => PlainInv
  BY DEF Init, PlainInv, PlainIfAsked
<1> QED BY <1>1, PlainStep, PTL DEF Spec, PlainInv

-----------------------------------------------------------------------------
(* patchPrototype throws to nobody but a function captured before the       *)
(* operations were wrapped.                                                 *)
THEOREM OnlyHeldRefused == Spec => RefusedForCause
<1>1. IndInv /\ [Next]_vars => [effect' = "refused" /\ effect # "refused" => held # {}]_vars
  <2> SUFFICES ASSUME IndInv, Next, effect' = "refused", effect # "refused" PROVE held # {}
    OBVIOUS
  <2>1. PICK c \in Copy : RemoveAll(c) \/ Refresh(c) \/ \E original \in BOOLEAN : Change(c, original)
    BY DEF Next, Link, Evaluate, LoadKeychain, Capture, Restart, Install, Migrate, Import
  <2>2. Usable(c)
    BY <2>1 DEF RemoveAll, Refresh, Change
  <2>3. \/ c \notin patched
        \/ c \in patched /\ <<c, "auth">> \in wrapped /\ <<c, "OAuth">> \in wrapped
    BY <2>2, Routed
  <2>4. \E original \in BOOLEAN : Change(c, original) /\ original
    BY <2>1, <2>3 DEF RemoveAll, Refresh, Change, Effect, Reaches
  <2> QED BY <2>4 DEF Change
<1> QED BY <1>1, Invariance, PTL DEF Spec, RefusedForCause

LEMMA UpdateKeepsKind ==
  ASSUME NEW b, Update(b) \/ Delete(b), blob # "none"
  PROVE  UNCHANGED blob \/ blob' = "none"
  BY DEF Update, Delete, Reads

(* readStore refuses a blob of the other kind, and so no write of the SDK   *)
(* and no import replaces one: only cmdMigrate does.                        *)
THEOREM NeverOverwritten == Spec => KindKept
<1>1. [Next]_vars => [blob # "none" /\ blob' \notin {blob, "none"} =>
                        \E e \in Environments, target \in Backends : Migrate(e, target)]_vars
  <2> SUFFICES ASSUME Next, blob # "none", blob' \notin {blob, "none"}
               PROVE  \E e \in Environments, target \in Backends : Migrate(e, target)
    OBVIOUS
  <2>1. ASSUME NEW c \in Copy,
               \/ LoadKeychain(c) \/ Capture(c) \/ RemoveAll(c) \/ Refresh(c)
               \/ \E original \in BOOLEAN : Change(c, original)
        PROVE  FALSE
    BY <2>1, UpdateKeepsKind DEF LoadKeychain, Capture, RemoveAll, Refresh, Change, Effect, kept
  <2>2. ASSUME NEW m \in Module, Link(m) \/ Evaluate(m[1], m[2]) PROVE FALSE
    BY <2>2 DEF Link, Evaluate, kept
  <2>3. ASSUME NEW e \in Environments,
               Install(e) \/ \E from \in {"keyring", "stdin"} : Import(e, from)
        PROVE  FALSE
    BY <2>3 DEF Install, Import, Reads
  <2>4. ~Restart
    BY DEF Restart, kept
  <2> QED BY <2>1, <2>2, <2>3, <2>4 DEF Next
<1> QED BY <1>1, PTL DEF Spec, KindKept
=============================================================================
