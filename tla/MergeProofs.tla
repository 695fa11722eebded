---------------------------- MODULE MergeProofs ----------------------------
(***************************************************************************)
(* Proofs of the merge laws for any aliases, any secrets and any stores,   *)
(* any number of entries marked default included.                          *)
(***************************************************************************)
EXTENDS MergeLaws, TLAPS

(* pickNewer returns one of its two entries.                               *)
LEMMA PickNewerType ==
  ASSUME NEW x \in Entry, NEW y \in Entry
  PROVE  PickNewer(x, y) \in {x, y}
  BY DEF PickNewer

(* An updated entry has the credentials pickNewer chose.                   *)
LEMMA UpdatedType ==
  ASSUME NEW b \in Entry, NEW i \in Entry, NEW c \in Entry
  PROVE  Updated(b, i, c) \in Entry /\ Updated(b, i, c).creds = PickNewer(c, i).creds
<1>1. PickNewer(c, i) \in Entry
  BY PickNewerType
<1> QED
  BY <1>1 DEF Updated, Entry

(* Alias by alias, what the replay of an update gives.                     *)
LEMMA ReplayAt ==
  ASSUME NEW b \in KeyStore, NEW i \in KeyStore, NEW c \in KeyStore,
         NEW allow \in BOOLEAN, NEW a \in Alias
  PROVE  LET r == Replay(b, i, c, allow)[a]
         IN  /\ r \in Entry \cup {NoEntry}
             /\ a \notin Changed(b, i) => r = c[a]
             /\ a \in Removed(b, i) => r = IF allow THEN NoEntry ELSE c[a]
             /\ a \in Added(b, i) \cup Modified(b, i) =>
                  /\ r # NoEntry
                  /\ c[a] = NoEntry => r.creds = i[a].creds
                  /\ c[a] # NoEntry => r.creds = PickNewer(c[a], i[a]).creds
<1> DEFINE r == Replay(b, i, c, allow)[a]
<1>1. b[a] \in Entry \cup {NoEntry} /\ i[a] \in Entry \cup {NoEntry} /\ c[a] \in Entry \cup {NoEntry}
  BY DEF KeyStore
<1>2. CASE a \in Added(b, i)
  <2>1. i[a] \in Entry /\ a \notin Modified(b, i) /\ a \notin Removed(b, i)
    BY <1>1, <1>2 DEF Added, Modified, Removed, Keys
  <2>2. r = IF c[a] = NoEntry THEN i[a] ELSE PickNewer(c[a], i[a])
    BY <1>2, <2>1 DEF Replay
  <2> QED
    BY <1>1, <1>2, <2>1, <2>2, PickNewerType, NoEntryAssumption DEF Changed
<1>3. CASE a \in Modified(b, i)
  <2>1. i[a] \in Entry /\ b[a] \in Entry /\ a \notin Added(b, i) /\ a \notin Removed(b, i)
    BY <1>1, <1>3 DEF Added, Modified, Removed, Keys
  <2>2. r = IF c[a] = NoEntry THEN i[a] ELSE Updated(b[a], i[a], c[a])
    BY <1>3, <2>1 DEF Replay
  <2> QED
    BY <1>1, <1>3, <2>1, <2>2, UpdatedType, NoEntryAssumption DEF Changed
<1>4. CASE a \in Removed(b, i)
  <2>1. a \notin Added(b, i) /\ a \notin Modified(b, i)
    BY <1>4 DEF Added, Modified, Removed, Keys
  <2>2. r = IF allow THEN NoEntry ELSE c[a]
    BY <1>4, <2>1 DEF Replay
  <2> QED
    BY <1>1, <1>4, <2>1, <2>2 DEF Changed
<1>5. CASE a \notin Changed(b, i)
  <2>1. r = c[a]
    BY <1>5 DEF Replay, Changed
  <2> QED
    BY <1>1, <1>5, <2>1 DEF Changed
<1> QED
  BY <1>2, <1>3, <1>4, <1>5 DEF Changed

LEMMA ReplayType ==
  ASSUME NEW b \in KeyStore, NEW i \in KeyStore, NEW c \in KeyStore, NEW allow \in BOOLEAN
  PROVE  Replay(b, i, c, allow) \in KeyStore
<1>1. \A a \in Alias : Replay(b, i, c, allow)[a] \in Entry \cup {NoEntry}
  BY ReplayAt
<1>2. Replay(b, i, c, allow) = [a \in Alias |-> Replay(b, i, c, allow)[a]]
  BY DEF Replay
<1> QED
  BY <1>1, <1>2 DEF KeyStore

(* Choosing a default changes flags only, and leaves one default.          *)
LEMMA WithDefaultAt ==
  ASSUME NEW s \in KeyStore, NEW w \in Keys(s)
  PROVE  /\ WithDefault(s, w) \in KeyStore
         /\ \A a \in Alias : SameCreds(WithDefault(s, w)[a], s[a])
         /\ Keys(WithDefault(s, w)) = Keys(s)
         /\ Defaults(WithDefault(s, w)) = {w}
<1> DEFINE m == WithDefault(s, w)
<1>1. ASSUME NEW a \in Alias, s[a] = NoEntry PROVE m[a] = NoEntry
  BY <1>1 DEF WithDefault
<1>2. ASSUME NEW a \in Alias, s[a] # NoEntry
      PROVE  m[a] \in Entry /\ m[a].creds = s[a].creds /\ m[a].isDefault = (a = w) /\ m[a] # NoEntry
  <2>1. s[a] \in Entry
    BY <1>2 DEF KeyStore
  <2>2. m[a] = [s[a] EXCEPT !.isDefault = (a = w)]
    BY <1>2 DEF WithDefault
  <2> QED
    BY <2>1, <2>2, NoEntryAssumption DEF Entry
<1>3. m = [a \in Alias |-> m[a]]
  BY DEF WithDefault
<1>4. m \in KeyStore
  <2>1. \A a \in Alias : m[a] \in Entry \cup {NoEntry}
    BY <1>1, <1>2
  <2> QED
    BY <1>3, <2>1 DEF KeyStore
<1>5. Keys(m) = Keys(s)
  BY <1>1, <1>2 DEF Keys
<1>6. Defaults(m) = {w}
  BY <1>2, <1>5 DEF Defaults, Keys
<1> QED
  BY <1>1, <1>2, <1>4, <1>5, <1>6 DEF SameCreds
(* What mergeKeyStores returns, in terms of the replay.                    *)
LEMMA MergeAt ==
  ASSUME NEW b \in KeyStore, NEW i \in KeyStore, NEW c \in KeyStore, NEW allow \in BOOLEAN,
         NEW m \in MergeKeyStores(b, i, c, allow)
  PROVE  LET r == Replay(b, i, c, allow)
         IN  /\ m \in KeyStore
             /\ \A a \in Alias : SameCreds(m[a], r[a])
             /\ Keys(m) = Keys(r)
             /\ Keys(m) # {} =>
                  \E w \in Keys(r) :
                    /\ Defaults(m) = {w}
                    /\ \/ NewDefaults(b, i) = {} /\ w \in Winners(r, {})
                       \/ \E p \in NewDefaults(b, i) : w \in Winners(r, {p})
<1> DEFINE r == Replay(b, i, c, allow)
<1>1. r \in KeyStore
  BY ReplayType
<1> HIDE DEF r
<1>2. \/ NewDefaults(b, i) = {} /\ m \in Normalize(r, {})
      \/ \E p \in NewDefaults(b, i) : m \in Normalize(r, {p})
  BY DEF MergeKeyStores, r
<1>3. ASSUME NEW preferred, m \in Normalize(r, preferred)
      PROVE  /\ m \in KeyStore /\ (\A a \in Alias : SameCreds(m[a], r[a])) /\ Keys(m) = Keys(r)
             /\ Keys(m) # {} => \E w \in Keys(r) : Defaults(m) = {w} /\ w \in Winners(r, preferred)
  <2>1. CASE Keys(r) = {}
    BY <1>1, <1>3, <2>1 DEF Normalize, SameCreds
  <2>2. CASE Keys(r) # {}
    <3>1. PICK w \in Winners(r, preferred) : m = WithDefault(r, w)
      BY <1>3, <2>2 DEF Normalize
    <3>2. w \in Keys(r)
      BY <3>1 DEF Winners, Defaults
    <3> QED
      BY <1>1, <3>1, <3>2, WithDefaultAt
  <2> QED
    BY <2>1, <2>2
<1>4. CASE NewDefaults(b, i) = {} /\ m \in Normalize(r, {})
  BY <1>3, <1>4 DEF r
<1>5. CASE \E p \in NewDefaults(b, i) : m \in Normalize(r, {p})
  <2>1. PICK p \in NewDefaults(b, i) : m \in Normalize(r, {p})
    BY <1>5
  <2> QED
    BY <1>3, <2>1 DEF r
<1> QED
  BY <1>2, <1>4, <1>5

-----------------------------------------------------------------------------
(* The machine: what it merged is a merge of what it was given.            *)
LawInv ==
  /\ base \in KeyStore /\ incoming \in KeyStore /\ current \in KeyStore
  /\ allowRemovals \in BOOLEAN
  /\ step = "merged" \/ step = "again" =>
       merged \in MergeKeyStores(base, incoming, current, allowRemovals)
  /\ step = "again" => again \in MergeKeyStores(base, incoming, merged, allowRemovals)

LEMMA LawInvariant == Spec => []LawInv
<1>1. Init => LawInv
  BY StoresAssumption DEF Init, LawInv
<1>2. LawInv /\ [Next]_lawVars => LawInv'
  BY DEF LawInv, Next, Apply, Absorb, lawVars, update
<1> QED
  BY <1>1, <1>2, PTL DEF Spec

(* An alias goes only on a permitted removal the caller asked for.         *)
THEOREM ClobberGuard == Spec => []RemovesOnlyIntended
<1>1. LawInv => RemovesOnlyIntended
  <2> SUFFICES ASSUME LawInv, step = "merged", NEW a \in Keys(current) \ Keys(merged)
               PROVE  a \in Removed(base, incoming) /\ allowRemovals
    BY DEF RemovesOnlyIntended
  <2>1. Replay(base, incoming, current, allowRemovals)[a] = NoEntry
    BY MergeAt DEF LawInv, Keys
  <2> QED
    BY <2>1, ReplayAt DEF LawInv, Keys, Changed
<1> QED
  BY <1>1, LawInvariant, PTL

(* What the caller did not change stays as current has it.                 *)
THEOREM OthersUntouched == Spec => []OthersKept
<1>1. LawInv => OthersKept
  <2> SUFFICES ASSUME LawInv, step = "merged", NEW a \in Alias, a \notin Changed(base, incoming)
               PROVE  SameCreds(merged[a], current[a])
    BY DEF OthersKept
  <2>1. Replay(base, incoming, current, allowRemovals)[a] = current[a]
    BY ReplayAt DEF LawInv
  <2> QED
    BY <2>1, MergeAt DEF LawInv
<1> QED
  BY <1>1, LawInvariant, PTL

(* The caller's changes arrive, but for a token that expires no later.     *)
THEOREM IntentApplied == Spec => []ChangesApplied
<1>1. LawInv => ChangesApplied
  <2> SUFFICES ASSUME LawInv, step = "merged",
                      NEW a \in Added(base, incoming) \cup Modified(base, incoming)
               PROVE  /\ merged[a] # NoEntry
                      /\ \/ merged[a].creds = incoming[a].creds
                         \/ /\ current[a] # NoEntry
                            /\ merged[a].creds = current[a].creds
                            /\ current[a].creds.type = "oauth" /\ incoming[a].creds.type = "oauth"
                            /\ incoming[a].creds.expires_at <= current[a].creds.expires_at
    BY DEF ChangesApplied
  <2> DEFINE r == Replay(base, incoming, current, allowRemovals)
  <2>1. a \in Alias
    BY DEF Added, Modified, Keys
  <2>2. SameCreds(merged[a], r[a])
    BY <2>1, MergeAt DEF LawInv
  <2>3. /\ r[a] # NoEntry
        /\ current[a] = NoEntry => r[a].creds = incoming[a].creds
        /\ current[a] # NoEntry => r[a].creds = PickNewer(current[a], incoming[a]).creds
    BY <2>1, ReplayAt DEF LawInv
  <2> QED
    BY <2>2, <2>3 DEF SameCreds, PickNewer
<1> QED
  BY <1>1, LawInvariant, PTL

(* The expiry of an alias's token never goes back.                         *)
THEOREM ExpiryMonotone == Spec => []ExpiryNeverBack
<1>1. LawInv => ExpiryNeverBack
  <2> SUFFICES ASSUME LawInv, step = "merged", NEW a \in Keys(current) \cap Keys(merged),
                      current[a].creds.type = "oauth", merged[a].creds.type = "oauth"
               PROVE  merged[a].creds.expires_at >= current[a].creds.expires_at
    BY DEF ExpiryNeverBack
  <2> DEFINE r == Replay(base, incoming, current, allowRemovals)
  <2>1. a \in Alias /\ current[a] # NoEntry /\ merged[a] # NoEntry
    BY DEF Keys
  <2>2. merged[a].creds = r[a].creds /\ r[a] # NoEntry
    BY <2>1, MergeAt DEF LawInv, SameCreds
  <2>3. current[a].creds.expires_at \in Nat
    BY <2>1 DEF LawInv, KeyStore, Entry, Creds
  <2>4. CASE a \in Added(base, incoming) \cup Modified(base, incoming)
    <3>1. r[a].creds = PickNewer(current[a], incoming[a]).creds
      BY <2>1, <2>4, ReplayAt DEF LawInv
    <3>2. incoming[a] \in Entry
      BY <2>1, <2>4 DEF LawInv, KeyStore, Added, Modified, Keys
    <3>3. incoming[a].creds.expires_at \in Nat
      BY <3>2 DEF Entry, Creds
    <3> QED
      BY <2>2, <2>3, <3>1, <3>3 DEF PickNewer
  <2>5. CASE a \notin Added(base, incoming) \cup Modified(base, incoming)
    <3>1. r[a] = current[a]
      BY <2>1, <2>2, <2>5, ReplayAt DEF LawInv, Changed
    <3> QED
      BY <2>2, <2>3, <3>1
  <2> QED
    BY <2>4, <2>5
<1> QED
  BY <1>1, LawInvariant, PTL

(* A store that is not empty comes out of a merge with one default.        *)
THEOREM ExactlyOneDefault == Spec => []OneDefault
<1>1. LawInv => OneDefault
  BY MergeAt DEF LawInv, OneDefault, Keys
<1> QED
  BY <1>1, LawInvariant, PTL

-----------------------------------------------------------------------------
(* An alias the caller made default is one it added or changed.             *)
LEMMA NewDefaultChanged ==
  ASSUME NEW b \in KeyStore, NEW i \in KeyStore, NEW p \in NewDefaults(b, i)
  PROVE  p \in Alias /\ p \in Added(b, i) \cup Modified(b, i)
  BY DEF NewDefaults, Defaults, Keys, Added, Modified

(* It becomes the default, when there is one such alias.                    *)
LEMMA NewDefaultWins ==
  ASSUME NEW b \in KeyStore, NEW i \in KeyStore, NEW c \in KeyStore, NEW allow \in BOOLEAN,
         NEW m \in MergeKeyStores(b, i, c, allow), NEW p \in Alias, NewDefaults(b, i) = {p}
  PROVE  Defaults(m) = {p}
<1> DEFINE r == Replay(b, i, c, allow)
<1>1. p \in Added(b, i) \cup Modified(b, i)
  BY NewDefaultChanged
<1>2. p \in Keys(r)
  BY <1>1, ReplayAt DEF Keys
<1>3. PICK w \in Keys(r) : Defaults(m) = {w} /\ \E q \in NewDefaults(b, i) : w \in Winners(r, {q})
  BY <1>2, MergeAt
<1> HIDE DEF r
<1>4. Winners(r, {p}) = {p}
  BY <1>2 DEF Winners
<1> QED BY <1>3, <1>4

(* A flag that the caller left alone stays as current has it.               *)
LEMMA FlagsLeft ==
  ASSUME NEW b \in KeyStore, NEW i \in KeyStore, NEW c \in KeyStore, NEW allow \in BOOLEAN,
         NEW d \in Alias,
         Defaults(b) = Defaults(i), Defaults(c) = {d}, d \in Keys(Replay(b, i, c, allow)),
         d \notin Added(b, i), \A a \in Added(b, i) : ~i[a].isDefault,
         \A a \in Modified(b, i) : c[a] = NoEntry => a # d /\ ~i[a].isDefault
  PROVE  Defaults(Replay(b, i, c, allow)) = {d}
<1> DEFINE r == Replay(b, i, c, allow)
<1>1. ASSUME NEW a \in Alias, r[a] # NoEntry PROVE r[a].isDefault <=> a = d
  <2>1. b[a] \in Entry \cup {NoEntry} /\ i[a] \in Entry \cup {NoEntry} /\ c[a] \in Entry \cup {NoEntry}
    BY DEF KeyStore
  <2>2. c[a] # NoEntry => (c[a].isDefault <=> a = d)
    BY DEF Defaults, Keys
  <2>3. CASE a \in Added(b, i)
    <3>1. a # d /\ ~i[a].isDefault /\ a \notin Modified(b, i) /\ a \notin Removed(b, i)
      BY <2>3 DEF Added, Modified, Removed, Keys
    <3>2. r[a] = IF c[a] = NoEntry THEN i[a] ELSE PickNewer(c[a], i[a])
      BY <2>3, <3>1 DEF Replay
    <3> HIDE DEF r
    <3> QED BY <1>1, <2>2, <3>1, <3>2 DEF PickNewer
  <2>4. CASE a \in Modified(b, i)
    <3>1. a \notin Added(b, i) /\ a \notin Removed(b, i) /\ b[a] \in Entry /\ i[a] \in Entry
      BY <2>1, <2>4 DEF Added, Modified, Removed, Keys
    <3>2. b[a].isDefault <=> i[a].isDefault
      BY <2>4 DEF Defaults, Modified, Keys
    <3>3. CASE c[a] = NoEntry
      <4>1. r[a] = i[a]
        BY <2>4, <3>1, <3>3 DEF Replay
      <4> QED BY <2>4, <3>3, <4>1
    <3>4. CASE c[a] # NoEntry
      <4>1. r[a] = Updated(b[a], i[a], c[a])
        BY <2>4, <3>1, <3>4 DEF Replay
      <4>2. c[a] \in Entry /\ PickNewer(c[a], i[a]) \in Entry
        BY <2>1, <3>1, <3>4, PickNewerType
      <4>3. r[a].isDefault <=> c[a].isDefault
        BY <3>1, <3>2, <4>1, <4>2 DEF Updated, Entry
      <4> QED BY <2>2, <3>4, <4>3
    <3> QED BY <3>3, <3>4
  <2>5. CASE a \notin Added(b, i) \cup Modified(b, i)
    <3>1. r[a] = c[a]
      BY <1>1, <2>5 DEF Replay
    <3> QED BY <1>1, <2>2, <3>1
  <2> QED BY <2>3, <2>4, <2>5
<1> QED BY <1>1 DEF Defaults, Keys

(* normalizeDefaults and mergeDefaultFlag: the default goes where the       *)
(* caller has put it, and otherwise stays where current has it.             *)
THEOREM DefaultFollowsIntent == Spec => []DefaultIntended
<1>1. LawInv => DefaultIntended
  <2> SUFFICES ASSUME LawInv, step = "merged" PROVE DefaultIntended
    BY DEF DefaultIntended
  <2>1. merged \in MergeKeyStores(base, incoming, current, allowRemovals)
    BY DEF LawInv
  <2>2. ASSUME NEW p \in Alias, NewDefaults(base, incoming) = {p} PROVE Defaults(merged) = {p}
    BY <2>1, <2>2, NewDefaultWins DEF LawInv
  <2>3. ASSUME NEW d \in Alias,
               Defaults(base) = Defaults(incoming), Defaults(current) = {d}, d \in Keys(merged),
               d \notin Brought, Brought \cap Defaults(incoming) = {}
        PROVE  Defaults(merged) = {d}
    <3> DEFINE r == Replay(base, incoming, current, allowRemovals)
    <3>1. NewDefaults(base, incoming) = {}
      BY <2>3 DEF NewDefaults
    <3>2. Keys(merged) = Keys(r) /\ \E w \in Winners(r, {}) : Defaults(merged) = {w}
      <4>1. /\ base \in KeyStore /\ incoming \in KeyStore /\ current \in KeyStore
            /\ allowRemovals \in BOOLEAN
        BY DEF LawInv
      <4>2. Keys(merged) = Keys(r)
        BY <2>1, <4>1, MergeAt
      <4>3. Keys(merged) # {}
        BY <2>3
      <4>4. PICK w \in Keys(r) :
              /\ Defaults(merged) = {w}
              /\ \/ NewDefaults(base, incoming) = {} /\ w \in Winners(r, {})
                 \/ \E p \in NewDefaults(base, incoming) : w \in Winners(r, {p})
        BY <2>1, <4>1, <4>3, MergeAt
      <4> HIDE DEF r
      <4> QED BY <3>1, <4>2, <4>4
    <3>3. \A a \in Brought : ~incoming[a].isDefault
      <4>1. \A a \in Brought : a \in Keys(incoming)
        BY DEF Brought, Added, Modified
      <4> QED BY <2>3, <4>1 DEF Defaults
    <3>4. Defaults(r) = {d}
      BY <2>3, <3>2, <3>3, FlagsLeft DEF LawInv, Brought
    <3> HIDE DEF r
    <3>5. Winners(r, {}) = {d}
      BY <3>4 DEF Winners
    <3> QED BY <3>2, <3>5
  <2> QED BY <2>2, <2>3 DEF DefaultIntended
<1> QED BY <1>1, LawInvariant, PTL

-----------------------------------------------------------------------------
(* What a merge has made of an alias the same update leaves alone: of two   *)
(* entries pickNewer takes the one that it has taken already.               *)
LEMMA PickNewerAgain ==
  ASSUME NEW x \in Entry, NEW y \in Entry, NEW z \in Entry,
         z.creds = y.creds \/ z.creds = PickNewer(x, y).creds
  PROVE  PickNewer(z, y).creds = z.creds
  BY DEF PickNewer

LEMMA AbsorbAgainAt ==
  ASSUME NEW b \in KeyStore, NEW i \in KeyStore, NEW c \in KeyStore, NEW allow \in BOOLEAN,
         NEW m \in MergeKeyStores(b, i, c, allow), NEW n \in MergeKeyStores(b, i, m, allow),
         NEW a \in Alias
  PROVE  SameCreds(n[a], m[a])
<1> DEFINE r == Replay(b, i, c, allow)[a]
           s == Replay(b, i, m, allow)[a]
<1>1. m \in KeyStore /\ SameCreds(m[a], r)
  BY MergeAt
<1>2. SameCreds(n[a], s)
  BY <1>1, MergeAt
<1>3. CASE a \notin Changed(b, i)
  <2>1. s = m[a]
    BY <1>1, <1>3, ReplayAt
  <2> QED BY <1>2, <2>1
<1>4. CASE a \in Removed(b, i)
  <2>1. /\ s = IF allow THEN NoEntry ELSE m[a]
        /\ r = IF allow THEN NoEntry ELSE c[a]
    BY <1>1, <1>4, ReplayAt
  <2> QED BY <1>1, <1>2, <2>1 DEF SameCreds
<1>5. CASE a \in Added(b, i) \cup Modified(b, i)
  <2>1. /\ r # NoEntry
        /\ c[a] = NoEntry => r.creds = i[a].creds
        /\ c[a] # NoEntry => r.creds = PickNewer(c[a], i[a]).creds
    BY <1>5, ReplayAt
  <2>2. s # NoEntry /\ (m[a] # NoEntry => s.creds = PickNewer(m[a], i[a]).creds)
    BY <1>1, <1>5, ReplayAt
  <2>3. m[a] # NoEntry /\ m[a].creds = r.creds
    BY <1>1, <2>1 DEF SameCreds
  <2>4. m[a] \in Entry /\ i[a] \in Entry /\ c[a] \in Entry \cup {NoEntry}
    BY <1>1, <1>5, <2>3 DEF KeyStore, Added, Modified, Keys
  <2>5. PickNewer(m[a], i[a]).creds = m[a].creds
    <3> HIDE DEF r
    <3>1. CASE c[a] = NoEntry
      BY <2>1, <2>3, <2>4, <3>1, PickNewerAgain
    <3>2. CASE c[a] # NoEntry
      BY <2>1, <2>3, <2>4, <3>2, PickNewerAgain
    <3> QED BY <3>1, <3>2
  <2> QED BY <1>2, <2>2, <2>3, <2>5 DEF SameCreds
<1> QED BY <1>3, <1>4, <1>5 DEF Changed

(* absorbPendingSidecars after a crash between the write and the deletion   *)
(* of the sidecar: its second absorption changes nothing that matters.      *)
THEOREM AbsorbingTwice == Spec => []AbsorbedOnce
<1>1. LawInv => AbsorbedOnce
  <2> SUFFICES ASSUME LawInv, step = "again" PROVE AbsorbedOnce
    BY DEF AbsorbedOnce
  <2>1. /\ merged \in MergeKeyStores(base, incoming, current, allowRemovals)
        /\ again \in MergeKeyStores(base, incoming, merged, allowRemovals)
    BY DEF LawInv
  <2>2. merged \in KeyStore
    BY <2>1, MergeAt DEF LawInv
  <2>3. ASSUME NEW a \in Alias PROVE SameCreds(again[a], merged[a])
    BY <2>1, AbsorbAgainAt DEF LawInv
  <2>4. ASSUME NEW p \in Alias, NewDefaults(base, incoming) = {p} PROVE Defaults(again) = {p}
    BY <2>1, <2>2, <2>4, NewDefaultWins DEF LawInv
  <2> QED BY <2>3, <2>4 DEF AbsorbedOnce
<1> QED BY <1>1, LawInvariant, PTL
=============================================================================
