-------------------------------- MODULE Shim --------------------------------
(***************************************************************************)
(* A process that uses the ServiceNow SDK: how src/shim/patch.ts rewires   *)
(* the copies of the SDK that the process loads, in whatever order they    *)
(* load, onto a vault with the backend of its configuration; and what then *)
(* becomes of the blob, over the processes that follow each other, the     *)
(* migrations and the imports.                                             *)
(*                                                                         *)
(* Of each copy three modules matter: keychain, whose prototype reads and  *)
(* writes the store, OAuth, which refreshes, and auth, which changes.      *)
(***************************************************************************)
EXTENDS Backend

CONSTANTS
  Copy,           \* copies of @servicenow/sdk-cli that the process can load
  Kinds,          \* what a copy may be like
  Environments    \* settings and hosts that a process may find

Kind == [version : {"known", "unknown", "unreadable"},
         reviewed : BOOLEAN,        \* its auth and OAuth sources are those reviewed
         candidate : BOOLEAN]       \* findSdkCliCandidates finds it

ASSUME ShimAssumption ==
  /\ Kinds \subseteq Kind
  /\ Environments \subseteq [settings : Settings, host : Hosts]

VARIABLES
  kind,                           \* of a copy; never changes
  pc, backend,                    \* of the process and its vault
  keychains,                      \* copies whose keychain module has been evaluated
  patched,                        \* and those whose prototype is ours
  required, strict,               \* transactionRequiredPaths, and its mark on prototypes
  module,                         \* of a copy: the state of auth and OAuth in the cache
  armed, wrapped,                 \* modules with accessors, and with our operations
  held,                           \* copies of whose auth somebody has the original functions
  effect,                         \* what the last call of the SDK came to
  keyring, blob, asked,           \* what is kept; asked: somebody wanted plain text
  sidecar                         \* some .pending file, always in clear text, waits

cache == <<keychains, module, held>>
shim == <<patched, required, strict, armed, wrapped>>
kept == <<keyring, blob, asked, sidecar>>
vars == <<kind, pc, backend, cache, shim, effect, kept>>

Module == Copy \X {"auth", "OAuth"}
Cached(state) == {m \in Module : module[m] = state}

Init ==
  /\ kind \in [Copy -> Kinds]
  /\ pc = "fresh" /\ backend = "none" /\ effect = "none"
  /\ keychains = {} /\ patched = {} /\ required = {} /\ strict = {}
  /\ module = [m \in Module |-> "absent"]
  /\ armed = {} /\ wrapped = {} /\ held = {}
  /\ keyring \in {"locked", "empty", "full"}
  /\ blob = "none" /\ asked = FALSE /\ sidecar = FALSE

(* assertPatchable: of a copy that does not tell its version the methods    *)
(* are all that is looked at.                                               *)
Patchable(c) == kind[c].version # "unknown"

(* assertReviewedOperationSource *)
Reviewed(c) == kind[c].version = "known" /\ kind[c].reviewed

-----------------------------------------------------------------------------
(* The program loads modules, before it installs the shim and after.  An    *)
(* import statement only links a module: it is in the cache, without        *)
(* exports, and is evaluated later, and not through Module._load.           *)
hooked == pc = "installed"
Runs == pc \in {"fresh", "installed", "bypassed"}

Link(m) ==
  /\ pc = "fresh"
  /\ module[m] = "absent"
  /\ module' = [module EXCEPT ![m] = "linked"]
  /\ UNCHANGED <<kind, pc, backend, keychains, held, shim, effect, kept>>

(* Prototypes are patched when they load, and told then whether to require  *)
(* a transaction; those loaded by now are told by                           *)
(* requireTransactionForKeychain.                                           *)
PatchKeychains(some) ==
  /\ keychains' = keychains \cup some
  /\ patched' = patched \cup some
  /\ strict' = strict \cup (keychains' \cap (required' \ required))
                     \cup ((some \ patched) \cap required')

LoadKeychain(c) ==
  /\ Runs
  /\ IF hooked
     THEN Patchable(c) /\ UNCHANGED required /\ PatchKeychains({c})
     ELSE keychains' = keychains \cup {c} /\ UNCHANGED <<patched, required, strict>>
  /\ UNCHANGED <<kind, pc, backend, module, armed, wrapped, held, effect, kept>>

(* auth requires keychain and OAuth; what it exports it assigns first.  A   *)
(* module that is required passes the hook afterwards, which wraps it or    *)
(* throws; one that was linked is wrapped by its accessors, if it is armed. *)
Evaluate(c, name) ==
  LET needs == IF name = "auth" THEN {<<c, "auth">>, <<c, "OAuth">>} ELSE {<<c, name>>}
      run == {m \in needs : module[m] # "loaded"}
      ours == {m \in run : module[m] = "absent" \/ m \in armed}
  IN /\ Runs
     /\ module[<<c, name>>] # "loaded"
     /\ module' = [m \in Module |-> IF m \in run THEN "loaded" ELSE module[m]]
     /\ IF hooked
        THEN /\ name = "auth" => Patchable(c)
             /\ ours # {} => Reviewed(c)
             /\ wrapped' = wrapped \cup ours
             /\ armed' = armed \ run
             /\ required' = IF <<c, "auth">> \in ours THEN required \cup {c} ELSE required
             /\ IF name = "auth" THEN PatchKeychains({c}) ELSE UNCHANGED <<keychains, patched, strict>>
        ELSE /\ keychains' = IF name = "auth" THEN keychains \cup {c} ELSE keychains
             /\ UNCHANGED shim
     /\ UNCHANGED <<kind, pc, backend, held, effect, kept>>

(* A load that the hook refuses throws to the one who asked, the next one   *)
(* does too, and nothing that Reaches depends on has changed.               *)

(* Somebody keeps the functions that auth exports, as Node's facade of a    *)
(* CommonJS module does for import statements.                              *)
Capture(c) ==
  /\ Runs
  /\ module[<<c, "auth">>] = "loaded" /\ <<c, "auth">> \notin wrapped
  /\ held' = held \cup {c}
  /\ UNCHANGED <<kind, pc, backend, keychains, module, shim, effect, kept>>

-----------------------------------------------------------------------------
(* installKeyChainShim: first the store, which may be refused; then what is *)
(* loaded or linked already, the hook, and the keychains of the candidates. *)
Swept == keychains \cup {c \in Copy : kind[c].candidate}

Unfit == \/ \E c \in Swept : ~Patchable(c)
         \/ \E m \in Cached("loaded") \cup Cached("linked") : ~Reviewed(m[1])

\* Mutant of Install: only what loads later is patched.
InstallHook(e) ==
  /\ pc = "fresh" /\ ~e.settings.disabled
  /\ backend' = createStore(e.settings, e.host)
  /\ asked' = (asked \/ AskedForPlain(e.settings))
  /\ pc' = IF backend' = "refused" THEN "aborted" ELSE "installed"
  /\ UNCHANGED <<kind, cache, shim, effect, keyring, blob, sidecar>>

\* Mutant of Install: nothing requires the transaction of what was held before.
InstallLax(e) ==
  /\ pc = "fresh" /\ ~e.settings.disabled /\ ~Unfit
  /\ backend' = createStore(e.settings, e.host)
  /\ asked' = (asked \/ AskedForPlain(e.settings))
  /\ pc' = IF backend' = "refused" THEN "aborted" ELSE "installed"
  /\ armed' = Cached("linked") /\ wrapped' = Cached("loaded") /\ required' = required
  /\ PatchKeychains(Swept)
  /\ UNCHANGED <<kind, module, held, effect, keyring, blob, sidecar>>

Install(e) ==
  /\ pc = "fresh"
  /\ IF e.settings.disabled
     THEN /\ pc' = "bypassed"
          /\ UNCHANGED <<backend, keychains, shim, asked>>
     ELSE /\ backend' = createStore(e.settings, e.host)
          /\ asked' = (asked \/ AskedForPlain(e.settings))
          /\ IF backend' = "refused" \/ Unfit
             THEN pc' = "aborted" /\ UNCHANGED <<keychains, shim>>
             ELSE /\ pc' = "installed"
                  /\ armed' = Cached("linked")
                  /\ wrapped' = Cached("loaded")
                  /\ required' = {m[1] : m \in {n \in wrapped' : n[2] = "auth"}}
                  /\ PatchKeychains(Swept)
  /\ UNCHANGED <<kind, module, held, effect, keyring, blob, sidecar>>

-----------------------------------------------------------------------------
(* An update of the vault: of a blob of the other kind nothing can be read, *)
(* and so nothing is written over it.  If the update fails, setPassword     *)
(* writes it to a sidecar, whatever the backend is; a sidecar that waits is *)
(* absorbed first, and may stay if there are several.                       *)
Update(b) ==
  \/ UNCHANGED blob /\ sidecar' \in {sidecar, TRUE}
  \/ Reads(b, blob) /\ blob' = Written(b) /\ sidecar' \in BOOLEAN

(* Where getPassword and setPassword of a copy end up. *)
Reaches(c, transaction) ==
  CASE c \notin patched -> "keyring"
    [] c \in patched /\ transaction -> "transaction"
    [] c \in patched /\ ~transaction -> IF c \in strict THEN "refused" ELSE "bare"

Effect(result) ==
  /\ effect' = result
  /\ IF result \in {"transaction", "bare"} THEN Update(backend) ELSE UNCHANGED <<blob, sidecar>>
  /\ IF result = "keyring" /\ keyring # "locked"
     THEN keyring' \in {"empty", "full"} ELSE UNCHANGED keyring
  /\ UNCHANGED <<kind, pc, backend, cache, shim, asked>>

Usable(c) == pc \in {"installed", "bypassed"} /\ module[<<c, "auth">>] = "loaded"

(* storeCredentials, updateDefaultCredential or removeCredentials, by the   *)
(* export or by a function held.                                            *)
ChangeUnwrapped(c, original) ==  \* mutant of Change: it outlives the transaction around it
  /\ Usable(c)
  /\ original => c \in held
  /\ Effect(Reaches(c, FALSE))

Change(c, original) ==
  /\ Usable(c)
  /\ original => c \in held
  /\ Effect(Reaches(c, ~original /\ <<c, "auth">> \in wrapped))

(* deletePassword, which removeCredentials calls to remove everything, has  *)
(* a transaction of its own: it absorbs what waits, or throws, and then     *)
(* removes the blob without reading it.                                     *)
Delete(b) ==
  \/ UNCHANGED <<blob, sidecar>>
  \/ sidecar /\ Reads(b, blob) /\ blob' = Written(b) /\ sidecar' \in BOOLEAN
  \/ (sidecar => Reads(b, blob)) /\ blob' = "none" /\ sidecar' = FALSE

RemoveAll(c) ==
  /\ Usable(c)
  /\ effect' = Reaches(c, TRUE)
  /\ IF c \in patched THEN Delete(backend) /\ UNCHANGED keyring
     ELSE /\ keyring' = (IF keyring = "locked" THEN "locked" ELSE "empty")
          /\ UNCHANGED <<blob, sidecar>>
  /\ UNCHANGED <<kind, pc, backend, cache, shim, asked>>

(* getCredentials refreshes through the exports of OAuth, whoever calls it; *)
(* unwrapped, the SDK asks the server and then writes on its own.           *)
Refresh(c) ==
  /\ Usable(c)
  /\ IF <<c, "OAuth">> \in wrapped
     THEN Effect(Reaches(c, TRUE))
     ELSE Effect(IF c \in patched THEN "stray" ELSE "keyring")

-----------------------------------------------------------------------------
(* The process ends, and another begins. *)
Restart ==
  /\ pc' = "fresh" /\ backend' = "none" /\ effect' = "none"
  /\ keychains' = {} /\ patched' = {} /\ required' = {} /\ strict' = {}
  /\ module' = [m \in Module |-> "absent"]
  /\ armed' = {} /\ wrapped' = {} /\ held' = {}
  /\ UNCHANGED <<kind, kept>>

(* sn-credstore migrate --to target. *)
Migrate(e, target) ==
  LET source == createStore(e.settings, e.host)
  IN /\ source \notin {"refused", target}
     /\ target = "systemd-creds" => Supported(e.host)
     /\ blob = Written(source)
     /\ blob' = Written(target)
     /\ asked' = (asked \/ AskedForPlain(e.settings) \/ target = "file")
     /\ UNCHANGED <<kind, pc, backend, cache, shim, effect, keyring, sidecar>>

(* KeyringStore.read throws if the keyring is locked, and answers null only *)
(* if it is empty.                                                          *)
KeyringRead == keyring = "full"

(* sn-credstore import --from keyring or --stdin: a keyring that was read   *)
(* keeps its copy.  A waiting sidecar is in the way, and none is written.   *)
Import(e, from) ==
  LET b == createStore(e.settings, e.host)
  IN /\ from = "keyring" => KeyringRead
     /\ b # "refused" /\ ~sidecar
     /\ blob' \in IF Reads(b, blob) THEN {blob, Written(b)} ELSE {blob}
     /\ asked' = (asked \/ AskedForPlain(e.settings))
     /\ UNCHANGED <<kind, pc, backend, cache, shim, effect, keyring, sidecar>>

Next ==
  \/ \E m \in Module : Link(m) \/ Evaluate(m[1], m[2])
  \/ \E c \in Copy : LoadKeychain(c) \/ Capture(c) \/ RemoveAll(c) \/ Refresh(c)
  \/ \E c \in Copy, original \in BOOLEAN : Change(c, original)
  \/ Restart
  \/ \E e \in Environments :
       \/ Install(e)
       \/ \E target \in Backends : Migrate(e, target)
       \/ \E from \in {"keyring", "stdin"} : Import(e, from)

Spec == Init /\ [][Next]_vars

-----------------------------------------------------------------------------
(* Once the shim is installed the SDK never falls back to the OS keyring,   *)
(* whichever copies were loaded before and after, in whatever order.        *)
NeverKeyring == effect = "keyring" => pc = "bypassed"

(* Every change that reaches the vault runs in a transaction, and every     *)
(* refresh in the vault's own: functions that were captured before they     *)
(* were wrapped are refused.                                                *)
InTransaction == effect \notin {"bare", "stray"}

(* The program's own use of the exports is not refused: only a function     *)
(* held from before is.                                                     *)
RefusedForCause == [][effect' = "refused" /\ effect # "refused" => held # {}]_vars

(* The store is in plain text only if somebody has asked for it, whatever   *)
(* the hosts support, which writes fail, and whose sidecars are absorbed by *)
(* whom.  It is not so of the sidecars themselves.                          *)
PlainIfAsked == blob = "plain" => asked

(* A process whose backend is not the one that wrote the blob loses nothing *)
(* of it: a blob of one kind becomes one of the other only by a migration.  *)
KindKept ==
  [][blob # "none" /\ blob' \notin {blob, "none"} =>
       \E e \in Environments, target \in Backends : Migrate(e, target)]_vars
=============================================================================
