-------------------------------- MODULE Merge --------------------------------
(***************************************************************************)
(* The three-way merge of src/vault/merge.ts: the caller's intent, which   *)
(* is what changed from base to incoming, replayed onto current.           *)
(*                                                                         *)
(* A key store maps every alias to an entry or to NoEntry.  Of credentials *)
(* the model keeps the type, the expiry (zero for basic ones) and an       *)
(* opaque secret.  The order of an object's keys is not kept: where the    *)
(* code takes the first key with a property, the operators here give the   *)
(* set of all results that some order of the keys produces.                *)
(***************************************************************************)
EXTENDS Integers, FiniteSets

CONSTANTS Alias, Secret, NoEntry

Creds == [type : {"oauth", "basic"}, expires_at : Nat, secret : Secret]

Entry == [creds : Creds, isDefault : BOOLEAN]

ASSUME NoEntryAssumption == NoEntry \notin Entry

KeyStore == [Alias -> Entry \cup {NoEntry}]

EmptyStore == [a \in Alias |-> NoEntry]

Keys(store) == {a \in Alias : store[a] # NoEntry}

Defaults(store) == {a \in Keys(store) : store[a].isDefault}

(* Two entries, or their absence, with the same credentials. *)
SameCreds(x, y) == /\ x = NoEntry <=> y = NoEntry
                   /\ x # NoEntry => x.creds = y.creds

-----------------------------------------------------------------------------
(* diffKeyStores *)
Added(base, incoming) == Keys(incoming) \ Keys(base)
Removed(base, incoming) == Keys(base) \ Keys(incoming)
Modified(base, incoming) ==
  {a \in Keys(base) \cap Keys(incoming) : base[a] # incoming[a]}

\* Mutants of PickNewer: the incoming entry always wins; the older one wins.
PickIncoming(x, y) == y
PickOlder(x, y) == IF /\ x.creds.type = "oauth" /\ y.creds.type = "oauth"
                      /\ y.creds.expires_at > x.creds.expires_at
                   THEN x ELSE y

(* Of two OAuth entries the second wins only with a later expiry. *)
PickNewer(x, y) == IF /\ x.creds.type = "oauth" /\ y.creds.type = "oauth"
                      /\ y.creds.expires_at <= x.creds.expires_at
                   THEN x ELSE y

(* The entry a changed alias gets: a changed default flag is part of the   *)
(* intent, an unchanged one stays as it is in current.                     *)
Updated(base, incoming, current) ==
  [ PickNewer(current, incoming) EXCEPT
      !.isDefault = IF base.isDefault = incoming.isDefault
                    THEN current.isDefault ELSE incoming.isDefault ]

\* Mutants of Replay: removals need no permission; a change brings the whole
\* incoming store along.
ReplayRemoving(base, incoming, current, allowRemovals) ==
  [a \in Alias |->
     CASE a \in Added(base, incoming) ->
            IF current[a] = NoEntry THEN incoming[a] ELSE PickNewer(current[a], incoming[a])
       [] a \in Modified(base, incoming) ->
            IF current[a] = NoEntry THEN incoming[a] ELSE Updated(base[a], incoming[a], current[a])
       [] a \in Removed(base, incoming) -> NoEntry
       [] OTHER -> current[a]]
ReplayIncoming(base, incoming, current, allowRemovals) ==
  [a \in Alias |-> IF incoming[a] # NoEntry THEN incoming[a] ELSE current[a]]

(* mergeKeyStores up to the defaults: alias by alias. *)
Replay(base, incoming, current, allowRemovals) ==
  [a \in Alias |->
     CASE a \in Added(base, incoming) ->
            IF current[a] = NoEntry THEN incoming[a] ELSE PickNewer(current[a], incoming[a])
       [] a \in Modified(base, incoming) ->
            IF current[a] = NoEntry THEN incoming[a] ELSE Updated(base[a], incoming[a], current[a])
       [] a \in Removed(base, incoming) /\ allowRemovals -> NoEntry
       [] OTHER -> current[a]]

-----------------------------------------------------------------------------
(* normalizeDefaults: preferred is the set the first preferred key is taken *)
(* from, and is empty when no default is asked for.                         *)
WithDefault(store, winner) ==
  [a \in Alias |-> IF store[a] = NoEntry THEN NoEntry
                   ELSE [store[a] EXCEPT !.isDefault = (a = winner)]]

\* Mutants of Winners: a default stays, whoever is preferred; none stays.
WinnersFirst(store, preferred) ==
  IF Defaults(store) # {} THEN Defaults(store) ELSE Keys(store)

WinnersAny(store, preferred) ==
  IF preferred \cap Keys(store) # {} THEN preferred \cap Keys(store) ELSE Keys(store)

(* The keys that may come first in the line for the default. *)
Winners(store, preferred) ==
  IF preferred \cap Keys(store) # {} THEN preferred \cap Keys(store)
  ELSE IF Defaults(store) # {} THEN Defaults(store)
  ELSE Keys(store)

\* Mutant of Normalize: nothing is asked of the defaults.
KeepDefaults(store, preferred) == {store}

Normalize(store, preferred) ==
  IF Keys(store) = {} THEN {store}
  ELSE {WithDefault(store, w) : w \in Winners(store, preferred)}

(* The aliases the caller made default. *)
NewDefaults(base, incoming) ==
  {a \in Defaults(incoming) : a \notin Defaults(base)}

(* mergeKeyStores: every store the merge may return. *)
MergeKeyStores(base, incoming, current, allowRemovals) ==
  LET replayed == Replay(base, incoming, current, allowRemovals)
      preferred == NewDefaults(base, incoming)
  IN  IF preferred = {} THEN Normalize(replayed, {})
      ELSE UNION {Normalize(replayed, {p}) : p \in preferred}
=============================================================================
