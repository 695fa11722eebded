------------------------------ MODULE MergeLaws ------------------------------
(***************************************************************************)
(* The laws of the merge, over a machine that merges any three stores and  *)
(* then merges the same update a second time: a pending update whose       *)
(* process died after the store was written and before the sidecar was     *)
(* deleted is absorbed again by the next process.                          *)
(***************************************************************************)
EXTENDS Merge

CONSTANT Universes  \* each has the stores that may be base, incoming and current

ASSUME StoresAssumption ==
  \A u \in Universes : u.base \cup u.incoming \cup u.current \subseteq KeyStore

VARIABLES base, incoming, current, allowRemovals, merged, again, step

update == <<base, incoming, current, allowRemovals>>
lawVars == <<update, merged, again, step>>

Init == /\ \E u \in Universes : /\ base \in u.base
                                /\ incoming \in u.incoming
                                /\ current \in u.current
        /\ allowRemovals \in BOOLEAN
        /\ merged = EmptyStore
        /\ again = EmptyStore
        /\ step = "given"

Apply == /\ step = "given"
         /\ merged' \in MergeKeyStores(base, incoming, current, allowRemovals)
         /\ step' = "merged"
         /\ UNCHANGED <<update, again>>

Absorb == /\ step = "merged"
          /\ again' \in MergeKeyStores(base, incoming, merged, allowRemovals)
          /\ step' = "again"
          /\ UNCHANGED <<update, merged>>

Next == Apply \/ Absorb

Spec == Init /\ [][Next]_lawVars

-----------------------------------------------------------------------------
Changed(b, i) == Added(b, i) \cup Modified(b, i) \cup Removed(b, i)

TypeOK == /\ base \in KeyStore /\ incoming \in KeyStore /\ current \in KeyStore
          /\ allowRemovals \in BOOLEAN
          /\ merged \in KeyStore
          /\ again \in KeyStore
          /\ step \in {"given", "merged", "again"}

(* The clobber guard: an alias goes only when the caller had been given it, *)
(* left it out, and was allowed to delete.                                  *)
RemovesOnlyIntended ==
  step = "merged" => \A a \in Keys(current) \ Keys(merged) :
                       a \in Removed(base, incoming) /\ allowRemovals

(* An alias the caller did not change keeps what current has for it: an     *)
(* update or a removal by someone else is neither lost nor undone.          *)
OthersKept ==
  step = "merged" => \A a \in Alias \ Changed(base, incoming) : SameCreds(merged[a], current[a])

(* A change of the caller is in the result, unless both credentials are     *)
(* OAuth and current has the one that expires no earlier.                   *)
ChangesApplied ==
  step = "merged" => \A a \in Added(base, incoming) \cup Modified(base, incoming) :
    /\ merged[a] # NoEntry
    /\ \/ merged[a].creds = incoming[a].creds
       \/ /\ current[a] # NoEntry
          /\ merged[a].creds = current[a].creds
          /\ current[a].creds.type = "oauth" /\ incoming[a].creds.type = "oauth"
          /\ incoming[a].creds.expires_at <= current[a].creds.expires_at

(* Among OAuth entries of one alias the expiry never goes back.             *)
ExpiryNeverBack ==
  step = "merged" => \A a \in Keys(current) \cap Keys(merged) :
    current[a].creds.type = "oauth" /\ merged[a].creds.type = "oauth" =>
      merged[a].creds.expires_at >= current[a].creds.expires_at

(* A store that is not empty has exactly one default.                       *)
OneDefault ==
  step = "merged" /\ Keys(merged) # {} => \E w \in Alias : Defaults(merged) = {w}

Brought == Added(base, incoming) \cup {a \in Modified(base, incoming) : current[a] = NoEntry}

(* The default is the one the caller asked for; when it asked for none and  *)
(* left the flags alone, a default set by someone else since stays, unless  *)
(* the caller brings an entry whole, with its flag: a newer one for that    *)
(* alias, which both have added, or a default alias deleted meanwhile.      *)
DefaultIntended ==
  step = "merged" =>
    /\ \A p \in Alias : NewDefaults(base, incoming) = {p} => Defaults(merged) = {p}
    /\ \A d \in Alias :
         /\ Defaults(base) = Defaults(incoming)
         /\ Defaults(current) = {d} /\ d \in Keys(merged)
         /\ d \notin Brought /\ Brought \cap Defaults(incoming) = {}
         => Defaults(merged) = {d}

(* Absorbing the same update again changes no credential and drops no       *)
(* alias, and keeps the default the caller asked for.                       *)
AbsorbedOnce ==
  step = "again" =>
    /\ \A a \in Alias : SameCreds(again[a], merged[a])
    /\ \A p \in Alias : NewDefaults(base, incoming) = {p} => Defaults(again) = {p}
=============================================================================
