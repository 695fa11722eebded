---------------------------- MODULE RefreshProofs ----------------------------
(***************************************************************************)
(* Refresh tokens that rotate, proved: as long as every change is made in  *)
(* a transaction and tokens outlive the refresh window, no call presents a *)
(* token that was exchanged before, and the store never keeps one that is  *)
(* of no more use while its successor could be had.                        *)
(***************************************************************************)
EXTENDS VaultProofs

(* V are the secrets the server takes, and the lost ones.  All of a store's *)
(* are among them; tokens that are the same come with the same credentials; *)
(* two stores hold the same credentials; all those of a store are of one of *)
(* two others.                                                              *)
Alive(V, s) == \A a \in Entries(s) : s[a].creds.secret \in V
Agree(s, t) == \A a \in Entries(s), b \in Entries(t) :
                 s[a].creds.secret = t[b].creds.secret => s[a].creds = t[b].creds
Pure(V, s) == Alive(V, s) /\ Agree(s, s)
Same(s, t) == \A a \in Alias : SameCreds(s[a], t[a])
Mix(s, t, m) == \A a \in Keys(m) : \/ s[a] # NoEntry /\ m[a].creds = s[a].creds
                                   \/ t[a] # NoEntry /\ m[a].creds = t[a].creds

(* A renewal on its way: the store s is as it was before, or as it will be. *)
Renewal(V, s, b, i, old, new) ==
  /\ b \in KeyStore /\ old \in Creds /\ new \in Creds /\ i = Renewed(b, old, new)
  /\ old.type = "oauth" /\ new.type = "oauth" /\ new.expires_at > old.expires_at
  /\ new.secret = old.secret \/ (new.secret # 0 /\ new.secret \notin Secrets(b))
  /\ Pure(V, i) /\ Agree(b, b)
  /\ \A a \in Entries(b) : b[a].creds.secret \in V \/ b[a].creds = old
  /\ Same(s, b) \/ Same(s, i)

(* Any other change on its way to the store s. *)
Edit(V, s, i) == Pure(V, i) /\ Agree(s, i)

Good == valid \cup lost
Current == Contents(stored)

Renewing(c) == /\ kind(c) = "refresh"
               /\ \/ pc[c] \in {"answered", "persist", "write", "sidecar"}
                  \/ pc[c] = "settle" /\ call[c].failure /\ pending[c] = Absent

Waits(d) ==
  /\ kind(d) \in Edited \cup {"refresh"}
  /\ kind(d) = "refresh" =>
       \E old, new \in Creds :
         Renewal(Good, Current, pending[d].base, pending[d].incoming, old, new)
  /\ kind(d) \in Edited => Edit(Good, Current, pending[d].incoming)

UseOK(c) ==
  LET r == call[c]
      i == Renewed(r.opbase, r.creds, r.renewed)
  IN /\ Renewing(c) => /\ Renewal(Good, Current, r.opbase, i, r.creds, r.renewed)
                       /\ pc[c] # "answered" => r.incoming = i
                       /\ pc[c] = "write" => r.base = r.opbase
     /\ kind(c) \in Edited /\ pc[c] \in {"persist", "write", "sidecar"} => Edit(Good, Current, r.incoming)
     /\ \/ pc[c] = "sidecar"
        \/ pc[c] = "settle" /\ r.failure /\ pending[c] = Absent
        => Pending = {}
     /\ pc[c] = "discard" /\ r.file \in Pending /\ kind(r.file) = "refresh" =>
          Same(Current, pending[r.file].incoming)

Settled == /\ \A c \in Call : ~Renewing(c)
           /\ \A d \in Pending : kind(d) # "refresh"

UseInv ==
  /\ \A c \in Call : kind(c) \notin Outside
  /\ \A d, e \in Pending : d = e
  /\ \A d \in Pending : Waits(d)
  /\ Settled => Pure(Good, Current)
  /\ \A c \in Call : UseOK(c)

(* A login that is to be stored is of the server's latest. *)
LoginInv == \A c \in Call : kind(c) = "set" /\ pc[c] \in Early => call[c].login.secret \in Good

-----------------------------------------------------------------------------
(* Stores that are made of others. *)
LEMMA Mixed ==
  ASSUME NEW V, NEW s \in KeyStore, NEW t \in KeyStore, NEW m \in KeyStore, NEW f \in KeyStore,
         Pure(V, s), Edit(V, s, t), Mix(s, t, m), Mix(s, t, f)
  PROVE  Pure(V, m) /\ Edit(V, m, f)
<1>1. ASSUME NEW x, Mix(s, t, x), NEW a \in Entries(x)
      PROVE  \/ a \in Entries(s) /\ x[a].creds = s[a].creds
             \/ a \in Entries(t) /\ x[a].creds = t[a].creds
  BY <1>1 DEF Mix, Entries, Keys
<1>2. ASSUME NEW a \in Entries(s) PROVE s[a].creds.secret \in V
  BY DEF Pure, Alive
<1>3. ASSUME NEW a \in Entries(t) PROVE t[a].creds.secret \in V
  BY DEF Edit, Pure, Alive
<1>4. ASSUME NEW x, NEW y, Mix(s, t, x), Mix(s, t, y) PROVE Alive(V, x) /\ Agree(x, y)
  <2>1. Alive(V, x)
    BY <1>1, <1>2, <1>3, <1>4 DEF Alive
  <2>2. ASSUME NEW a \in Entries(x), NEW b \in Entries(y), x[a].creds.secret = y[b].creds.secret
        PROVE  x[a].creds = y[b].creds
    <3>1. \/ a \in Entries(s) /\ x[a].creds = s[a].creds
          \/ a \in Entries(t) /\ x[a].creds = t[a].creds
      BY <1>1, <1>4
    <3>2. \/ b \in Entries(s) /\ y[b].creds = s[b].creds
          \/ b \in Entries(t) /\ y[b].creds = t[b].creds
      BY <1>1, <1>4
    <3> QED BY <2>2, <3>1, <3>2 DEF Pure, Edit, Agree
  <2> QED BY <2>1, <2>2 DEF Agree
<1> QED BY <1>4 DEF Pure, Edit

LEMMA SameIs ==
  ASSUME NEW s, NEW t, Same(s, t), NEW a \in Alias
  PROVE  /\ a \in Keys(s) <=> a \in Keys(t)
         /\ a \in Entries(s) <=> a \in Entries(t)
         /\ a \in Keys(s) => s[a].creds = t[a].creds
BY DEF Same, SameCreds, Keys, Entries

LEMMA SamePure ==
  ASSUME NEW V, NEW s, NEW t, Same(s, t), Pure(V, t)
  PROVE  Pure(V, s)
<1>1. ASSUME NEW a \in Entries(s) PROVE a \in Entries(t) /\ s[a].creds = t[a].creds
  BY SameIs DEF Entries, Keys
<1> QED BY <1>1 DEF Pure, Alive, Agree

(* A merge brings nothing that is not of the two. *)
LEMMA MergeMixes ==
  ASSUME NEW b \in KeyStore, NEW i \in KeyStore, NEW s \in KeyStore, NEW allow,
         NEW m \in MergeKeyStores(b, i, s, allow)
  PROVE  m \in KeyStore /\ Mix(s, i, m) /\ Flagged(b, i, s, m) \in KeyStore
         /\ Mix(s, i, Flagged(b, i, s, m))
<1> DEFINE f == Flagged(b, i, s, m)
<1>0. m \in KeyStore /\ f \in KeyStore
  BY MergeAt, FlaggedType
<1>1. ASSUME NEW a \in Alias, m[a] # NoEntry
      PROVE  (s[a] # NoEntry /\ m[a].creds = s[a].creds) \/ (i[a] # NoEntry /\ m[a].creds = i[a].creds)
  <2> DEFINE r == Replay(b, i, s, allow)[a]
  <2>0. s[a] \in Entry \cup {NoEntry} /\ i[a] \in Entry \cup {NoEntry}
    BY DEF KeyStore
  <2>1. SameCreds(m[a], r)
    BY MergeAt
  <2>2. CASE a \in Added(b, i) \cup Modified(b, i)
    <3>1. i[a] \in Entry /\ i[a] # NoEntry
      BY <2>0, <2>2 DEF Added, Modified, Keys
    <3>2. r # NoEntry /\ (s[a] = NoEntry => r = i[a])
          /\ (s[a] # NoEntry => r.creds = PickNewer(s[a], i[a]).creds)
      BY <2>2, ReplayAt
    <3>3. s[a] # NoEntry => PickNewer(s[a], i[a]) \in {s[a], i[a]}
      BY DEF PickNewer
    <3> QED BY <1>1, <2>1, <3>1, <3>2, <3>3 DEF SameCreds
  <2>3. CASE a \notin Added(b, i) \cup Modified(b, i)
    <3>1. r \in {NoEntry, s[a]}
      BY <2>3, ReplayAt
    <3> QED BY <1>1, <2>1, <3>1 DEF SameCreds
  <2> QED BY <2>2, <2>3
<1>2. ASSUME NEW a \in Keys(f)
      PROVE  (s[a] # NoEntry /\ f[a].creds = s[a].creds) \/ (i[a] # NoEntry /\ f[a].creds = i[a].creds)
  <2>1. a \in Alias /\ f[a] # NoEntry
    BY DEF Keys
  <2>2. f[a] = m[a] \/ f[a] = i[a]
    BY <2>1 DEF Flagged
  <2> QED BY <1>1, <2>1, <2>2
<1> QED BY <1>0, <1>1, <1>2 DEF Mix, Keys

(* refreshCredentials: what the renewal of a store holds. *)
LEMMA RenewedAt ==
  ASSUME NEW b \in KeyStore, NEW old \in Creds, NEW new \in Creds, NEW a \in Alias,
         old.type = "oauth", new.type = "oauth"
  PROVE  LET i == Renewed(b, old, new)
         IN /\ a \in Keys(i) <=> a \in Keys(b)
            /\ a \in Entries(i) <=> a \in Entries(b)
            /\ a \in Entries(b) => i[a].creds = IF b[a].creds = old THEN new ELSE b[a].creds
            /\ ~(a \in Entries(b) /\ b[a].creds = old) => i[a] = b[a]
<1> DEFINE i == Renewed(b, old, new)
           renewed == [b[a] EXCEPT !.creds = new]
<1>0. b[a] \in Entry \cup {NoEntry} /\ NoEntry \notin Entry
  BY VaultAssumption DEF KeyStore
<1>1. i[a] = IF a \in Entries(b) /\ b[a].creds = old THEN renewed ELSE b[a]
  BY Zenon DEF Renewed
<1>2. b[a] \in Entry => renewed \in Entry /\ renewed.creds = new
  BY DEF Entry
<1>3. CASE a \in Entries(b) /\ b[a].creds = old
  <2>1. b[a] \in Entry /\ a \in Keys(b)
    BY <1>0, <1>3 DEF Entries, Keys
  <2>2. i[a] \in Entry /\ i[a].creds = new
    BY <1>1, <1>2, <1>3, <2>1
  <2> HIDE DEF i
  <2>3. a \in Keys(i) /\ a \in Entries(i)
    BY <1>0, <2>2 DEF Keys, Entries
  <2> QED BY <1>3, <2>1, <2>2, <2>3 DEF i
<1>4. CASE ~(a \in Entries(b) /\ b[a].creds = old)
  <2>1. i[a] = b[a]
    BY <1>1, <1>4
  <2> HIDE DEF i
  <2>2. (a \in Keys(i) <=> a \in Keys(b)) /\ (a \in Entries(i) <=> a \in Entries(b))
    BY <2>1 DEF Keys, Entries
  <2> QED BY <1>4, <2>1, <2>2 DEF i
<1> QED BY <1>3, <1>4

(* The merge of a renewal, made before or not, is the renewed store. *)
LEMMA MergeRenews ==
  ASSUME NEW V, NEW s \in KeyStore, NEW b, NEW i, NEW old, NEW new, Renewal(V, s, b, i, old, new),
         NEW allow, NEW m \in MergeKeyStores(b, i, s, allow)
  PROVE  /\ m \in KeyStore /\ i \in KeyStore /\ b \in KeyStore
         /\ Same(m, i) /\ Flagged(b, i, s, m) = i /\ Renewal(V, m, b, i, old, new)
<1>0. /\ b \in KeyStore /\ old \in Creds /\ new \in Creds /\ i = Renewed(b, old, new)
      /\ old.type = "oauth" /\ new.type = "oauth" /\ new.expires_at > old.expires_at
      /\ Same(s, b) \/ Same(s, i)
  BY DEF Renewal
<1>1. i \in KeyStore /\ NoEntry \notin Entry
  BY <1>0, RenewedType, VaultAssumption
<1>2. m \in KeyStore
  BY <1>0, <1>1, MergeAt
<1>3. old.expires_at \in Nat /\ new.expires_at \in Nat
  BY <1>0 DEF Creds
<1>4. ASSUME NEW a \in Alias PROVE SameCreds(m[a], i[a]) /\ a \notin Added(b, i)
  <2> DEFINE r == Replay(b, i, s, allow)[a]
  <2>0. /\ s[a] \in Entry \cup {NoEntry} /\ i[a] \in Entry \cup {NoEntry}
        /\ b[a] \in Entry \cup {NoEntry}
    BY <1>0, <1>1 DEF KeyStore
  <2>1. SameCreds(m[a], r)
    BY <1>0, <1>1, MergeAt
  <2>2. /\ a \in Keys(i) <=> a \in Keys(b)
        /\ a \in Entries(i) <=> a \in Entries(b)
        /\ a \in Entries(b) => i[a].creds = IF b[a].creds = old THEN new ELSE b[a].creds
        /\ ~(a \in Entries(b) /\ b[a].creds = old) => i[a] = b[a]
    BY <1>0, RenewedAt
  <2>3. a \notin Added(b, i) \cup Removed(b, i)
    BY <2>2 DEF Added, Removed
  <2>4. SameCreds(s[a], b[a]) \/ SameCreds(s[a], i[a])
    BY <1>0 DEF Same
  <2>5. CASE a \in Entries(b) /\ b[a].creds = old
    <3>1. b[a] # NoEntry /\ i[a] # NoEntry /\ i[a].creds = new /\ b[a] # i[a]
      BY <1>3, <1>0, <2>2, <2>5 DEF Entries, Keys
    <3>2. a \in Modified(b, i)
      BY <3>1 DEF Modified, Keys
    <3>3. s[a] # NoEntry /\ s[a].creds \in {old, new}
      BY <2>4, <2>5, <3>1 DEF SameCreds
    <3>4. PickNewer(s[a], i[a]).creds = new
      BY <1>0, <1>3, <3>1, <3>3 DEF PickNewer
    <3>5. r # NoEntry /\ r.creds = new
      BY <1>0, <1>1, <3>2, <3>3, <3>4, ReplayAt
    <3> QED BY <2>1, <2>3, <3>1, <3>5 DEF SameCreds
  <2>6. CASE ~(a \in Entries(b) /\ b[a].creds = old)
    <3>1. i[a] = b[a]
      BY <2>2, <2>6
    <3>2. a \notin Modified(b, i)
      BY <3>1 DEF Modified
    <3>3. r = s[a]
      BY <1>0, <1>1, <2>3, <3>2, ReplayAt
    <3> QED BY <2>1, <2>3, <2>4, <3>1, <3>3 DEF SameCreds
  <2> QED BY <2>5, <2>6
<1>5. Same(m, i)
  BY <1>4 DEF Same
<1>6. Flagged(b, i, s, m) = i
  <2>1. Flagged(b, i, s, m) = [a \in Alias |-> i[a]]
    BY <1>4 DEF Flagged
  <2> QED BY <1>1, <2>1 DEF KeyStore
<1> QED BY <1>0, <1>1, <1>2, <1>5, <1>6 DEF Renewal

(* More secrets that the server takes do no harm. *)
LEMMA More ==
  ASSUME NEW V, NEW W, V \subseteq W, NEW s
  PROVE  /\ Pure(V, s) => Pure(W, s)
         /\ \A i : Edit(V, s, i) => Edit(W, s, i)
         /\ \A b, i, old, new : Renewal(V, s, b, i, old, new) => Renewal(W, s, b, i, old, new)
<1>1. \A t : Pure(V, t) => Pure(W, t)
  BY DEF Pure, Alive
<1>2. \A i : Edit(V, s, i) => Edit(W, s, i)
  BY <1>1 DEF Edit
<1>3. ASSUME NEW b, NEW i, NEW old, NEW new, Renewal(V, s, b, i, old, new)
      PROVE  Renewal(W, s, b, i, old, new)
  BY <1>1, <1>3 DEF Renewal
<1> QED BY <1>1, <1>2, <1>3

(* The server has renewed the credentials of some entries. *)
LEMMA RenewalBegins ==
  ASSUME NEW V, NEW W, NEW b \in KeyStore, NEW old \in Creds, NEW new \in Creds,
         old.type = "oauth", new.type = "oauth", new.expires_at > old.expires_at,
         new.secret = old.secret \/ (new.secret # 0 /\ new.secret \notin Secrets(b)),
         Pure(V, b), V \ {old.secret} \subseteq W, new.secret \in W,
         \E a \in Entries(b) : b[a].creds = old
  PROVE  Renewal(W, b, b, Renewed(b, old, new), old, new)
<1> DEFINE i == Renewed(b, old, new)
<1>1. ASSUME NEW a \in Entries(b) PROVE b[a].creds.secret \in W \/ b[a].creds = old
  <2>1. PICK o \in Entries(b) : b[o].creds = old
    OBVIOUS
  <2>2. b[a].creds.secret = old.secret => b[a].creds = old
    BY <2>1 DEF Pure, Agree
  <2>3. b[a].creds.secret \in V
    BY DEF Pure, Alive
  <2> QED BY <2>2, <2>3
<1>2. ASSUME NEW a \in Entries(i)
      PROVE  /\ a \in Entries(b)
             /\ i[a].creds = IF b[a].creds = old THEN new ELSE b[a].creds
  <2>1. a \in Alias
    BY DEF Entries, Keys
  <2> QED BY <2>1, RenewedAt
<1> HIDE DEF i
<1>3. Alive(W, i)
  BY <1>1, <1>2 DEF Alive
<1>4. ASSUME NEW a \in Entries(b), b[a].creds # old PROVE b[a].creds.secret # new.secret
  <2>1. PICK o \in Entries(b) : b[o].creds = old
    OBVIOUS
  <2>2. b[a].creds.secret # old.secret
    BY <1>4, <2>1 DEF Pure, Agree
  <2>3. b[a].creds.secret \in Secrets(b)
    BY DEF Secrets, Entries
  <2> QED BY <2>2, <2>3
<1>5. Agree(i, i)
  <2> SUFFICES ASSUME NEW a \in Entries(i), NEW o \in Entries(i), i[a].creds.secret = i[o].creds.secret
               PROVE  i[a].creds = i[o].creds
    BY DEF Agree
  <2>1. /\ a \in Entries(b) /\ i[a].creds = IF b[a].creds = old THEN new ELSE b[a].creds
        /\ o \in Entries(b) /\ i[o].creds = IF b[o].creds = old THEN new ELSE b[o].creds
    BY <1>2
  <2>2. b[a].creds.secret = b[o].creds.secret => b[a].creds = b[o].creds
    BY <2>1 DEF Pure, Agree
  <2> QED BY <1>4, <2>1, <2>2
<1>6. Same(b, b)
  BY DEF Same, SameCreds
<1> QED BY <1>1, <1>3, <1>5, <1>6 DEF Renewal, Pure, i

(* A renewal is given up: its new secret is in the store, or the old one    *)
(* counts as lost.                                                          *)
LEMMA RenewalEnds ==
  ASSUME NEW V, NEW W, NEW s, NEW b, NEW i, NEW old, NEW new, Renewal(V, s, b, i, old, new),
         V \subseteq W, new.secret \in Secrets(s) \cup {0} \/ old.secret \in W
  PROVE  Pure(W, s)
<1>0. /\ b \in KeyStore /\ old \in Creds /\ new \in Creds /\ i = Renewed(b, old, new)
      /\ old.type = "oauth" /\ new.type = "oauth"
      /\ new.secret = old.secret \/ (new.secret # 0 /\ new.secret \notin Secrets(b))
      /\ Pure(V, i) /\ Agree(b, b)
      /\ \A a \in Entries(b) : b[a].creds.secret \in V \/ b[a].creds = old
      /\ Same(s, b) \/ Same(s, i)
  BY DEF Renewal
<1>1. CASE Same(s, i)
  BY <1>0, <1>1, SamePure, More
<1>2. CASE Same(s, b)
  <2>1. old.secret \in W \/ new.secret = old.secret
    <3>1. ASSUME new.secret \in Secrets(s) PROVE new.secret \in Secrets(b)
      <4>1. PICK a \in Keys(s) : new.secret = s[a].creds.secret
        BY <3>1 DEF Secrets
      <4>2. a \in Keys(b) /\ s[a].creds = b[a].creds
        BY <1>2, <4>1, SameIs DEF Keys
      <4> QED BY <4>1, <4>2 DEF Secrets
    <3> QED BY <1>0, <3>1
  <2>2. ASSUME NEW a \in Entries(b) PROVE b[a].creds.secret \in W
    <3>1. CASE b[a].creds.secret \in V
      BY <3>1
    <3>2. CASE b[a].creds = old
      <4>1. a \in Alias
        BY DEF Entries, Keys
      <4>2. a \in Entries(i) /\ i[a].creds = new
        BY <1>0, <3>2, <4>1, RenewedAt
      <4>3. new.secret \in V
        BY <1>0, <4>2 DEF Pure, Alive
      <4> QED BY <2>1, <3>2, <4>3
    <3> QED BY <1>0, <3>1, <3>2
  <2>3. Pure(W, b)
    BY <1>0, <2>2 DEF Pure, Alive
  <2> QED BY <1>2, <2>3, SamePure
<1> QED BY <1>0, <1>1, <1>2

-----------------------------------------------------------------------------
(* Only the server's answer takes a secret away, of the call that asks. *)
LEMMA GoodKept ==
  ASSUME NEW c \in Call, Begin(c) \/ Proceed(c)
  PROVE  \/ Good \subseteq Good'
         \/ Ask(c) /\ Good \ {call[c].creds.secret} \subseteq Good'
<1>1. CASE Begin(c)
  BY <1>1 DEF Begin, Good
<1>2. CASE Scan(c) \/ Acquire(c) \/ TimeOut(c) \/ Release(c)
  BY <1>2 DEF Scan, Acquire, TimeOut, Release, server, Good
<1>3. CASE (\E e \in Call : Absorb(c, e)) \/ Discard(c) \/ Absorbed(c) \/ Get(c)
  BY <1>3 DEF Absorb, Discard, Absorbed, Get, server, Good
<1>4. CASE Read(c) \/ ReadFails(c) \/ Unread(c) \/ Reread(c)
  BY <1>4 DEF Read, ReadFails, Unread, Reread, server, Good
<1>5. CASE Ask(c)
  <2>1. \/ UNCHANGED server
        \/ \E new : valid' = (valid \ {call[c].creds.secret}) \cup {new} /\ lost \subseteq lost'
    BY <1>5 DEF Ask
  <2> QED BY <1>5, <2>1 DEF Good, server
<1>6. CASE Answered(c) \/ Settle(c)
  BY <1>6 DEF Answered, Settle, Good
<1>7. CASE Persist(c) \/ Write(c) \/ WriteUnread(c) \/ Sidecar(c) \/ Erase(c)
  BY <1>7 DEF Persist, Write, WriteUnread, Sidecar, Erase, server, Good
<1> QED BY <1>1, <1>2, <1>3, <1>4, <1>5, <1>6, <1>7 DEF Proceed

LEMMA LoginStep ==
  ASSUME VaultInv, SecretInv, LoginInv, [Next]_vars
  PROVE  LoginInv'
<1> SUFFICES ASSUME NEW c \in Call, call'[c].op.kind = "set", pc'[c] \in Early
             PROVE  call'[c].login.secret \in Good'
  BY DEF LoginInv, kind
<1>0. kind(c) = "set" /\ (\/ pc[c] \in Early /\ call'[c].login = call[c].login
                          \/ Begin(c) /\ pc[c] = "idle")
  BY EarlyOn
<1>1. CASE Begin(c)
  <2>1. PICK login \in Login(call[c].op) :
          /\ call' = [call EXCEPT ![c].login = login, ![c].then = "body"]
          /\ valid' = valid \cup ({login.secret} \ {0})
    BY <1>1 DEF Begin
  <2>2. login.secret = issued + 1 /\ issued \in Nat
    BY <1>0 DEF Login, kind, Outside, VaultInv, TypeOK
  <2>3. call'[c].login = login
    BY <2>1 DEF VaultInv, TypeOK, Calls
  <2>4. issued + 1 # 0
    BY <2>2
  <2> QED BY <2>1, <2>2, <2>3, <2>4 DEF Good
<1>2. CASE pc[c] \in Early /\ call'[c].login = call[c].login
  <2>1. call[c].login.secret \in Good
    BY <1>0, <1>2 DEF LoginInv
  <2>2. ASSUME NEW d \in Call, Begin(d) \/ Proceed(d) PROVE call[c].login.secret \in Good'
    <3>1. CASE Good \subseteq Good'
      BY <2>1, <3>1
    <3>2. CASE Ask(d) /\ Good \ {call[d].creds.secret} \subseteq Good'
      <4>1. Within(Nat \ {call[c].login.secret}, c)
        BY <1>0, <1>2 DEF SecretInv, Unseen
      <4>2. call[d].creds.secret # call[c].login.secret
        BY <4>1 DEF Within, CallKnown
      <4> QED BY <2>1, <3>2, <4>2
    <3> QED BY <2>2, <3>1, <3>2, GoodKept
  <2>3. ASSUME NEW p \in Process, Crash(p) PROVE Good \subseteq Good'
    BY <2>3 DEF Crash, Good
  <2>4. CASE Tick \/ UNCHANGED vars
    BY <2>1, <2>4, <1>2 DEF Tick, vars, server, Good
  <2> QED BY <1>2, <2>1, <2>2, <2>3, <2>4 DEF Next
<1> QED BY <1>0, <1>1, <1>2

-----------------------------------------------------------------------------
(* A call that does not hold the lock has nothing to keep. *)
LEMMA UseFree ==
  ASSUME VaultInv, NEW c \in Call, holder # c, kind(c) \notin Outside
  PROVE  UseOK(c) /\ ~Renewing(c)
<1>1. ~Locked(pc[c], call[c]) /\ kind(c) = call[c].op.kind /\ Route(pc[c], call[c])
  BY Acts DEF Local
<1> QED BY <1>1 DEF UseOK, Renewing, Locked, Route

(* One of the others is as it was. *)
LEMMA UseOther ==
  ASSUME VaultInv, NEW c \in Call, UseOK(c), kind(c) \notin Outside,
         pc'[c] = pc[c], call'[c] = call[c], \A d \in Call : call'[d].op = call[d].op,
         holder # c \/ (Good \subseteq Good' /\ UNCHANGED disk)
  PROVE  UseOK(c)' /\ (holder # c => ~Renewing(c)')
<1>1. CASE holder # c
  <2>1. ~Locked(pc[c], call[c]) /\ kind(c) = call[c].op.kind /\ Route(pc[c], call[c])
    BY <1>1, Acts DEF Local
  <2> QED BY <1>1, <2>1 DEF UseOK, Renewing, Locked, Route, kind
<1>2. CASE holder = c
  <2>1. Good \subseteq Good' /\ stored' = stored /\ pending' = pending
    BY <1>2 DEF disk
  <2>2. Current' = Current /\ Pending' = Pending /\ (Renewing(c)' <=> Renewing(c)) /\ Pending \subseteq Call
    BY <2>1 DEF Current, Contents, Pending, Renewing, kind
  <2>3. \A i : Edit(Good, Current, i) => Edit(Good', Current', i)
    BY <2>1, <2>2, More
  <2>4. \A b, i, old, new : Renewal(Good, Current, b, i, old, new) => Renewal(Good', Current', b, i, old, new)
    BY <2>1, <2>2, More
  <2> QED BY <1>2, <2>1, <2>2, <2>3, <2>4 DEF UseOK, kind
<1> QED BY <1>1, <1>2

(* Whoever is not about to change the store has nothing to keep. *)
LEMMA UseIdle ==
  ASSUME NEW c \in Call,
         pc'[c] \notin {"answered", "persist", "write", "sidecar", "settle", "discard"}
  PROVE  UseOK(c)' /\ ~Renewing(c)'
BY DEF UseOK, Renewing

LEMMA KindKeeps ==
  ASSUME VaultInv, NEW c \in Call, Begin(c) \/ Proceed(c)
  PROVE  \A d \in Call : call'[d].op = call[d].op /\ kind(d)' = kind(d)
<1>1. call'[c].op = call[c].op
  BY OpKept
<1>2. ASSUME NEW d \in Call, d # c PROVE call'[d].op = call[d].op
  BY <1>2, Others
<1> QED BY <1>1, <1>2 DEF kind

(* A step of a call that leaves the store and the sidecars as they are; and *)
(* one by the holder of the lock.                                           *)
LEMMA UseQuiet ==
  ASSUME VaultInv, UseInv, NEW c \in Call, Begin(c) \/ Proceed(c), UNCHANGED disk,
         Good \subseteq Good', UseOK(c)',
         Renewing(c) => Renewing(c)' \/ Pure(Good', Current)
  PROVE  UseInv'
<1>0. \A d \in Call : call'[d].op = call[d].op /\ kind(d)' = kind(d)
  BY KindKeeps
<1>1. stored' = stored /\ pending' = pending /\ Pending \subseteq Call
  BY DEF disk, Pending
<1>2. Current' = Current /\ Pending' = Pending
  BY <1>1 DEF Current, Contents, Pending
<1>3. ASSUME NEW d \in Call, d # c PROVE UseOK(d)' /\ (Renewing(d)' <=> Renewing(d))
  <2>1. pc'[d] = pc[d] /\ call'[d] = call[d] /\ UseOK(d) /\ kind(d) \notin Outside
    BY <1>3, Others DEF UseInv
  <2> QED BY <1>0, <1>1, <2>1, UseOther DEF Renewing
<1>4. ASSUME NEW d \in Pending PROVE Waits(d)'
  <2>1. Waits(d) /\ kind(d)' = kind(d)
    BY <1>0, <1>1 DEF UseInv
  <2>2. kind(d) \in Edited => Edit(Good', Current', pending'[d].incoming)
    BY <1>1, <1>2, <2>1, More DEF Waits
  <2>3. kind(d) = "refresh" => \E old, new \in Creds :
          Renewal(Good', Current', pending'[d].base, pending'[d].incoming, old, new)
    BY <1>1, <1>2, <2>1, More DEF Waits
  <2> QED BY <2>1, <2>2, <2>3 DEF Waits
<1>5. ASSUME Settled' PROVE Pure(Good', Current')
  <2>1. CASE Renewing(c)
    BY <1>2, <1>5, <2>1 DEF Settled
  <2>2. CASE ~Renewing(c)
    <3>1. Settled
      BY <1>0, <1>1, <1>2, <1>3, <1>5, <2>2 DEF Settled
    <3> QED BY <1>2, <3>1, More DEF UseInv
  <2> QED BY <2>1, <2>2
<1> QED BY <1>0, <1>2, <1>3, <1>4, <1>5 DEF UseInv

LEMMA UseHeld ==
  ASSUME VaultInv, UseInv, NEW c \in Call, Proceed(c), holder = c, UseOK(c)',
         \A d, e \in Pending' : d = e, \A d \in Pending' : Waits(d)',
         Settled' => Pure(Good', Current')
  PROVE  UseInv'
<1>0. \A d \in Call : call'[d].op = call[d].op /\ kind(d)' = kind(d)
  BY KindKeeps
<1>1. ASSUME NEW d \in Call, d # c PROVE UseOK(d)'
  <2>1. pc'[d] = pc[d] /\ call'[d] = call[d] /\ UseOK(d) /\ kind(d) \notin Outside
    BY <1>1, Others DEF UseInv
  <2> QED BY <1>0, <1>1, <2>1, UseOther
<1> QED BY <1>0, <1>1 DEF UseInv

(* While a call that renews nothing holds the lock, nobody renews. *)
LEMMA NobodyElse ==
  ASSUME VaultInv, UseInv, NEW c \in Call, holder = c, NEW d \in Call, d # c
  PROVE  ~Renewing(d)
BY UseFree DEF UseInv

(* Under the lock, no sidecar waits once recovery is over. *)
LEMMA NothingWaits ==
  ASSUME VaultInv, UseInv, NEW c \in Call,
         \/ pc[c] \in {"body", "ask", "answered", "write", "sidecar"}
         \/ pc[c] \in {"read", "unread"} /\ kind(c) \in Edited
         \/ pc[c] = "persist"
  PROVE  Pending = {}
<1>1. CASE pc[c] = "sidecar"
  BY <1>1 DEF UseInv, UseOK
<1>2. CASE pc[c] # "sidecar"
  <2>1. Inside = Pending
    BY DEF Inside, UseInv, Pending
  <2>2. Recovers(pc[c], call[c], Pending, Inside) /\ Route(pc[c], call[c])
        /\ kind(c) = call[c].op.kind /\ kind(c) \notin Outside
    BY Acts DEF UseInv, Local
  <2>3. Inside = {}
    BY <1>2, <2>2 DEF Recovers, Route
  <2> QED BY <2>1, <2>3
<1> QED BY <1>1, <1>2

-----------------------------------------------------------------------------
(* Steps after which a call has nothing to store.                           *)
LEMMA IdleUse ==
  ASSUME VaultInv, UseInv, NEW c \in Call,
         \/ Begin(c) \/ Scan(c) \/ Acquire(c) \/ TimeOut(c) \/ Release(c)
         \/ Absorbed(c) \/ Get(c) \/ ReadFails(c) \/ Reread(c)
  PROVE  UseInv'
<1>0. /\ pc \in [Call -> Labels] /\ Route(pc[c], call[c]) /\ kind(c) = call[c].op.kind
      /\ kind(c) \notin Outside /\ (Begin(c) \/ Proceed(c))
  BY Acts DEF UseInv, Local, VaultInv, TypeOK, Proceed
<1>1. UNCHANGED disk /\ pc[c] \in {"idle", "scan", "wait", "release", "absorb", "body", "read"}
  BY DEF Begin, Scan, Acquire, TimeOut, Release, Absorbed, Get, ReadFails, Reread
<1>2. Good \subseteq Good' /\ ~Renewing(c)
  BY <1>0, <1>1, GoodKept DEF Ask, Renewing
<1>3. pc'[c] \notin {"answered", "persist", "write", "sidecar", "settle", "discard"}
  <2>1. CASE Begin(c) \/ Scan(c) \/ Acquire(c) \/ Get(c) \/ ReadFails(c)
    BY <1>0, <2>1 DEF Begin, Scan, Acquire, Get, ReadFails, Goto
  <2>2. CASE TimeOut(c) \/ Release(c)
    BY <1>0, <2>2 DEF TimeOut, Release, Handler, End, Goto, Route, Over
  <2>3. CASE Absorbed(c)
    BY <1>0, <2>3 DEF Absorbed, Leave, Goto, Route
  <2>4. CASE Reread(c)
    BY <1>0, <2>4 DEF Reread, Throw, Leave, Goto
  <2> QED BY <2>1, <2>2, <2>3, <2>4
<1> QED BY <1>0, <1>1, <1>2, <1>3, UseIdle, UseQuiet

(* A login that nobody has seen, stored among what is there.                *)
LEMMA StoredPure ==
  ASSUME NEW V, NEW c \in Call, call[c] \in Calls, NEW s \in KeyStore, NEW t \in KeyStore,
         Edit(V, s, t), call[c].login.secret \in V,
         \A a \in Keys(s) : s[a].creds.secret # call[c].login.secret,
         \A a \in Keys(t) : t[a].creds.secret # call[c].login.secret
  PROVE  Edit(V, s, Stored(c, t))
<1> DEFINE i == Stored(c, t)
<1>1. ASSUME NEW a \in Entries(i)
      PROVE  \/ i[a].creds = call[c].login
             \/ a \in Entries(t) /\ i[a].creds = t[a].creds
  <2> DEFINE new == [creds |-> call[c].login, isDefault |-> call[c].op.default]
             old == [t[a] EXCEPT !.isDefault = FALSE]
  <2>1. a \in Alias /\ i[a] # NoEntry /\ i[a].creds.type = "oauth"
    BY DEF Entries, Keys
  <2>2. i[a] = IF a = call[c].op.alias THEN new
               ELSE IF call[c].op.default /\ t[a] # NoEntry THEN old ELSE t[a]
    BY <2>1, Zenon DEF Stored
  <2>3. t[a] \in Entry \cup {NoEntry} /\ new.creds = call[c].login
        /\ (t[a] # NoEntry => old.creds = t[a].creds)
    BY <2>1 DEF KeyStore, Entry
  <2> HIDE DEF i, new, old
  <2> QED BY <2>1, <2>2, <2>3 DEF Entries, Keys
<1> HIDE DEF i
<1>2. \A a \in Entries(s) : s[a].creds.secret # call[c].login.secret
  BY DEF Entries
<1>3. \A a \in Entries(t) : t[a].creds.secret # call[c].login.secret
  BY DEF Entries
<1>4. Alive(V, t) /\ Agree(t, t) /\ Agree(s, t)
  BY DEF Edit, Pure
<1>5. Alive(V, i)
  BY <1>1, <1>4 DEF Alive
<1>6. Agree(i, i)
  BY <1>1, <1>3, <1>4 DEF Agree
<1>7. Agree(s, i)
  BY <1>1, <1>2, <1>4 DEF Agree
<1> QED BY <1>5, <1>6, <1>7 DEF Edit, Pure, i

(* What api.ts and the SDK make of the store under the lock.                *)
LEMMA EditsPure ==
  ASSUME NEW V, VaultInv, NEW c \in Call, NEW s \in KeyStore, Pure(V, s), kind(c) \in Edited,
         kind(c) = "set" => /\ call[c].login.secret \in V
                            /\ \A a \in Keys(s) : s[a].creds.secret # call[c].login.secret,
         NEW edit \in Edits(c, s)
  PROVE  Edit(V, s, edit)
<1>0. Edit(V, s, s)
  BY DEF Edit, Pure
<1>1. CASE kind(c) = "set"
  <2>1. edit = Stored(c, s)
    BY <1>1 DEF Edits, kind
  <2> QED BY <1>0, <1>1, <2>1, StoredPure, Acts
<1>2. CASE kind(c) # "set"
  <2> DEFINE w == Without(call[c].op.alias, s)
  <2>1. w \in KeyStore /\ \A a \in Alias : w[a] \in {NoEntry, s[a]}
    BY DEF Without, KeyStore
  <2>2. edit \in Normalize(s, {call[c].op.alias}) \/ edit \in Normalize(w, {})
    BY <1>2 DEF Edits, kind, Edited
  <2> HIDE DEF w
  <2>3. edit \in KeyStore
        /\ \A a \in Alias : SameCreds(edit[a], s[a]) \/ SameCreds(edit[a], w[a])
    BY <2>1, <2>2, NormalizeAt
  <2>4. Mix(s, s, edit) /\ Mix(s, s, s)
    BY <2>1, <2>3 DEF Mix, Keys, SameCreds
  <2> QED BY <1>0, <2>3, <2>4, Mixed
<1> QED BY <1>1, <1>2

(* Under the lock and after recovery a store is pure, unless it is being    *)
(* renewed; and it does not have the login that is to be stored.            *)
LEMMA PureNow ==
  ASSUME VaultInv, UseInv, NEW c \in Call, holder = c, ~Renewing(c), Pending = {}
  PROVE  Pure(Good, Current)
<1>1. \A d \in Call : ~Renewing(d)
  BY NobodyElse
<1> QED BY <1>1 DEF Settled, UseInv

LEMMA Fresh ==
  ASSUME SecretInv, LoginInv, NEW c \in Call, kind(c) = "set", pc[c] \in Early
  PROVE  /\ call[c].login.secret \in Good
         /\ \A a \in Keys(Current) : Current[a].creds.secret # call[c].login.secret
<1>1. Within(Nat \ {call[c].login.secret}, c)
  BY DEF SecretInv, Unseen
<1>2. Known(Nat \ {call[c].login.secret}, stored)
  BY <1>1 DEF Within
<1> QED BY <1>2 DEF LoginInv, Known, Current

LEMMA ReadUse ==
  ASSUME VaultInv, SecretInv, LoginInv, UseInv, NEW c \in Call, Read(c)
  PROVE  UseInv'
<1> DEFINE s == Contents(stored)
           base == IF holder = c THEN stored ELSE Absent
<1>0. /\ pc \in [Call -> Labels] /\ call \in [Call -> Calls] /\ Route("read", call[c])
      /\ kind(c) = call[c].op.kind /\ kind(c) \notin Outside /\ pc[c] = "read"
      /\ holder = c <=> kind(c) \in Edited
  <2>1. pc[c] = "read"
    BY DEF Read
  <2> QED BY <2>1, Acts DEF UseInv, Local, VaultInv, TypeOK, Locked
<1>1. UNCHANGED disk /\ Proceed(c)
  BY DEF Read, Proceed
<1>2. Good \subseteq Good' /\ ~Renewing(c)
  BY <1>0, <1>1, GoodKept DEF Ask, Renewing
<1>3. \/ End(c, "done") \/ Leave(c, "done")
      \/ Goto(c, "wait")
      \/ /\ kind(c) \notin {"read", "refresh"}
         /\ \E edit \in Edits(c, s) :
              call' = [call EXCEPT ![c].incoming = edit, ![c].opbase = base, ![c].base = stored]
         /\ Goto(c, "persist")
  BY DEF Read
<1>4. s \in KeyStore /\ s = Current
  BY ContentsType, VaultAssumption, Acts DEF Current, Globals
<1> HIDE DEF s, base
<1>5. CASE End(c, "done") \/ Leave(c, "done") \/ Goto(c, "wait")
  <2>1. pc'[c] \in {"done", "release", "wait"}
    BY <1>0, <1>5 DEF End, Leave, Goto
  <2> QED BY <1>1, <1>2, <2>1, UseIdle, UseQuiet
<1>6. ASSUME kind(c) \notin {"read", "refresh"}, NEW edit \in Edits(c, s), Goto(c, "persist"),
             call' = [call EXCEPT ![c].incoming = edit, ![c].opbase = base, ![c].base = stored]
      PROVE  UseInv'
  <2>1. kind(c) \in Edited /\ holder = c
    BY <1>0, <1>6 DEF Route, Reading, Edited
  <2>2. pc'[c] = "persist" /\ call'[c].incoming = edit /\ kind(c)' = kind(c)
    BY <1>0, <1>6 DEF Goto, Calls, kind
  <2>3. Pure(Good, s)
    BY <1>0, <1>2, <1>4, <2>1, NothingWaits, PureNow
  <2>4. pc[c] \in Early
    BY <1>0 DEF Early
  <2>5. kind(c) = "set" => /\ call[c].login.secret \in Good
                           /\ \A a \in Keys(s) : s[a].creds.secret # call[c].login.secret
    BY <1>4, <2>4, Fresh
  <2>6. Edit(Good, s, edit)
    BY <1>4, <1>6, <2>1, <2>3, <2>5, EditsPure
  <2>7. Current' = s
    BY <1>1, <1>4 DEF Current, Contents, disk
  <2>8. Edit(Good', Current', call'[c].incoming)
    BY <1>2, <2>2, <2>6, <2>7, More
  <2>9. UseOK(c)'
    BY <2>1, <2>2, <2>8 DEF UseOK, Renewing, Edited
  <2> QED BY <1>1, <1>2, <2>9, UseQuiet
<1> QED BY <1>3, <1>5, <1>6

LEMMA UnreadUse ==
  ASSUME VaultInv, SecretInv, LoginInv, UseInv, NEW c \in Call, Unread(c)
  PROVE  UseInv'
<1>0. /\ pc \in [Call -> Labels] /\ call \in [Call -> Calls]
      /\ kind(c) = call[c].op.kind /\ kind(c) \notin Outside /\ pc[c] = "unread"
  BY Acts DEF UseInv, VaultInv, TypeOK, Unread
<1>1. UNCHANGED disk /\ Proceed(c)
  BY DEF Unread, Proceed
<1>2. Good \subseteq Good' /\ ~Renewing(c)
  BY <1>0, <1>1, GoodKept DEF Ask, Renewing
<1>3. CASE Leave(c, "failed") \/ End(c, "failed")
  <2>1. pc'[c] \in {"failed", "release"}
    BY <1>0, <1>3 DEF End, Leave, Goto
  <2> QED BY <1>1, <1>2, <2>1, UseIdle, UseQuiet
<1>4. CASE /\ kind(c) = "set" /\ Goto(c, "persist")
           /\ call' = [call EXCEPT ![c].incoming = Stored(c, EmptyStore)]
  <2> DEFINE i == Stored(c, EmptyStore)
  <2>1. holder = c
    BY <1>0, <1>4, Acts DEF Locked, Edited
  <2>2. pc'[c] = "persist" /\ call'[c].incoming = i /\ kind(c)' = kind(c)
    BY <1>0, <1>4 DEF Goto, Calls, kind
  <2>3. EmptyStore \in KeyStore /\ Keys(EmptyStore) = {} /\ Entries(EmptyStore) = {}
    BY DEF EmptyStore, KeyStore, Keys, Entries
  <2>4. Current \in KeyStore
    BY ContentsType, VaultAssumption, Acts DEF Current, Globals
  <2>5. Edit(Good, Current, EmptyStore)
    BY <2>3 DEF Edit, Pure, Alive, Agree
  <2>6. pc[c] \in Early
    BY <1>0 DEF Early
  <2>7. Edit(Good, Current, i)
    BY <1>0, <1>4, <2>3, <2>4, <2>5, <2>6, Fresh, StoredPure
  <2> HIDE DEF i
  <2>8. Current' = Current
    BY <1>1 DEF Current, Contents, disk
  <2>9. Edit(Good', Current', call'[c].incoming)
    BY <1>2, <2>2, <2>7, <2>8, More
  <2>10. UseOK(c)'
    BY <1>4, <2>2, <2>9 DEF UseOK, Renewing, Edited
  <2> QED BY <1>1, <1>2, <2>10, UseQuiet
<1> QED BY <1>0, <1>3, <1>4 DEF Unread, Outside

-----------------------------------------------------------------------------
(* A call gives up its renewal, and what it cannot store counts as lost.    *)
LEMMA ForgoneEnds ==
  ASSUME VaultInv, UseInv, NEW c \in Call, Renewing(c), Pending = {},
         NEW W, Good \subseteq W, Forgone(c) \subseteq W
  PROVE  Pure(W, Current)
<1> DEFINE r == call[c]
           i == Renewed(r.opbase, r.creds, r.renewed)
<1>1. Renewal(Good, Current, r.opbase, i, r.creds, r.renewed)
  BY DEF UseInv, UseOK
<1>2. Durable = Secrets(Current)
  BY DEF Durable, Current
<1>3. r.renewed.secret \in Secrets(Current) \cup {0} \/ r.creds.secret \in W
  BY <1>2 DEF Forgone
<1> HIDE DEF i, r
<1> QED BY <1>1, <1>3, RenewalEnds

LEMMA ThrowUse ==
  ASSUME VaultInv, UseInv, NEW c \in Call, Throw(c), Proceed(c),
         pc[c] \in {"discard", "body", "ask", "answered", "settle"},
         UNCHANGED disk, Good \subseteq Good', Renewing(c) => Pure(Good', Current)
  PROVE  UseInv'
<1>1. PICK l, r : Goes(c, l, r) /\ l \in {"unread", "release"}
  BY ThrowGoes
<1>2. pc'[c] \in {"unread", "release"}
  BY <1>1, Gone
<1> QED BY <1>2, UseIdle, UseQuiet

LEMMA AskUse ==
  ASSUME VaultInv, SecretInv, RefreshInv, UseInv, NEW c \in Call, Ask(c), \A l \in Lifetimes : l > Window
  PROVE  UseInv'
<1> DEFINE old == call[c].creds
           Answer(new, life) == [old EXCEPT !.secret = new, !.expires_at = now + life]
<1>0. /\ pc \in [Call -> Labels] /\ call \in [Call -> Calls] /\ pc[c] = "ask" /\ Proceed(c)
      /\ holder = c /\ kind(c) = "refresh" /\ issued \in Nat /\ stored \in Image
      /\ stored' = stored /\ pending' = pending /\ UNCHANGED disk /\ old \in Creds
  <2>1. pc[c] = "ask" /\ UNCHANGED disk
    BY DEF Ask
  <2>2. Route("ask", call[c]) /\ holder = c
    BY <2>1, Acts DEF Locked, Local
  <2> QED BY <2>1, <2>2, Acts DEF Proceed, VaultInv, TypeOK, Route, disk, Calls
<1>1. Pending = {} /\ ~Renewing(c)
  BY <1>0, NothingWaits DEF Renewing
<1>2. Pure(Good, Current)
  BY <1>0, <1>1, PureNow
<1>3. CASE Throw(c) /\ Good \subseteq Good'
  BY <1>0, <1>1, <1>3, ThrowUse
<1>4. CASE Leave(c, "done") /\ UNCHANGED server
  <2>1. pc'[c] = "release" /\ Good \subseteq Good'
    BY <1>0, <1>4 DEF Leave, Goto, server, Good
  <2> QED BY <1>0, <1>1, <2>1, UseIdle, UseQuiet
<1>5. ASSUME NEW life \in Lifetimes, NEW new \in {old.secret, issued + 1}, Goto(c, "answered"),
             old.expires_at <= now + Window, UNCHANGED lost,
             valid' = (valid \ {old.secret}) \cup {new},
             call' = [call EXCEPT ![c].renewed = Answer(new, life)]
      PROVE  UseInv'
  <2>1. PICK n : n = Answer(new, life)
    OBVIOUS
  <2>2. /\ now \in Nat /\ life \in Nat /\ Window \in Nat /\ new \in Nat
    BY <1>0, VaultAssumption, Acts DEF Globals, Creds
  <2>3. n \in Creds /\ n.type = old.type /\ n.expires_at = now + life /\ n.secret = new
    <3>1. PICK o \in Creds : o = old
      BY <1>0
    <3>2. PICK t \in Nat : t = now + life
      BY <2>2
    <3>3. n = [o EXCEPT !.secret = new, !.expires_at = t]
      BY <2>1, <3>1, <3>2
    <3> QED BY <2>2, <3>1, <3>2, <3>3 DEF Creds
  <2> HIDE DEF Answer
  <2>4. n.expires_at > old.expires_at
    BY <1>0, <1>5, <2>2, <2>3 DEF Creds
  <2>5. /\ pc'[c] = "answered" /\ call'[c].renewed = n /\ call'[c].creds = old
        /\ call'[c].opbase = call[c].opbase /\ call'[c].op = call[c].op
    BY <1>0, <1>5, <2>1 DEF Goto, Calls
  <2>6. /\ stored = call[c].opbase /\ stored # Absent /\ old.type = "oauth"
        /\ \E a \in Keys(stored) : stored[a].creds = old
    BY <1>0 DEF RefreshInv, RefreshOK
  <2>7. stored \in KeyStore /\ Current = stored /\ Current' = stored /\ Pending' = {} /\ kind(c)' = kind(c)
    BY <1>0, <1>1, <2>5, <2>6 DEF Image, Current, Contents, Pending, kind
  <2>8. \E a \in Entries(stored) : stored[a].creds = old
    BY <2>6 DEF Entries
  <2>9. n.secret = old.secret \/ (n.secret # 0 /\ n.secret \notin Secrets(stored))
    <3>1. Known(0..issued, stored)
      BY DEF SecretInv, Within
    <3>2. \A a \in Keys(stored) : stored[a].creds.secret \in 0..issued
      BY <2>6, <3>1 DEF Known, Contents
    <3>3. issued + 1 \notin 0..issued /\ issued + 1 # 0
      BY <1>0
    <3> QED BY <1>5, <2>3, <3>2, <3>3 DEF Secrets
  <2>10. Good \ {old.secret} \subseteq Good' /\ n.secret \in Good'
    BY <1>5, <2>3 DEF Good
  <2>11. Renewal(Good', stored, stored, Renewed(stored, old, n), old, n)
    BY <1>0, <1>2, <2>3, <2>4, <2>6, <2>7, <2>8, <2>9, <2>10, RenewalBegins
  <2>12. UseOK(c)' /\ Renewing(c)'
    BY <1>0, <2>5, <2>6, <2>7, <2>11 DEF UseOK, Renewing, Edited
  <2>13. ~Settled'
    BY <2>12 DEF Settled
  <2> QED BY <1>0, <2>7, <2>12, <2>13, UseHeld
<1>6. ASSUME NEW new, valid' = (valid \ {old.secret}) \cup {new}, Throw(c), lost' = lost \cup {old.secret}
      PROVE  UseInv'
  <2>1. Good \subseteq Good'
    BY <1>6 DEF Good
  <2> QED BY <1>3, <1>6, <2>1
<1>7. CASE Throw(c) /\ UNCHANGED server
  BY <1>3, <1>7 DEF server, Good
<1> QED BY <1>4, <1>5, <1>6, <1>7 DEF Ask

LEMMA AnsweredUse ==
  ASSUME VaultInv, UseInv, NEW c \in Call, Answered(c)
  PROVE  UseInv'
<1> DEFINE r == call[c]
           i == Renewed(r.opbase, r.creds, r.renewed)
<1>0. /\ pc \in [Call -> Labels] /\ call \in [Call -> Calls] /\ pc[c] = "answered" /\ Proceed(c)
      /\ kind(c) = "refresh" /\ UNCHANGED disk /\ stored' = stored /\ pending' = pending
  <2>1. pc[c] = "answered" /\ UNCHANGED disk
    BY DEF Answered
  <2>2. Route("answered", call[c])
    BY <2>1, Acts DEF Local
  <2> QED BY <2>1, <2>2, Acts DEF Proceed, VaultInv, TypeOK, Route, disk
<1>1. Renewing(c) /\ Pending = {} /\ Good \subseteq Good'
  BY <1>0, NothingWaits, GoodKept DEF Renewing, Ask
<1>2. CASE Throw(c) /\ lost' = lost \cup Forgone(c)
  <2>1. Forgone(c) \subseteq Good'
    BY <1>2 DEF Good
  <2>2. Pure(Good', Current)
    BY <1>1, <2>1, ForgoneEnds
  <2> QED BY <1>0, <1>1, <1>2, <2>2, ThrowUse
<1>3. CASE call' = [call EXCEPT ![c].incoming = Renewed(Contents(r.opbase), r.creds, r.renewed)]
           /\ Goto(c, "persist")
  <2>1. Renewal(Good, Current, r.opbase, i, r.creds, r.renewed)
    BY <1>1 DEF UseInv, UseOK
  <2>2. Contents(r.opbase) = r.opbase
    BY <2>1, VaultAssumption DEF Renewal, Contents
  <2>3. /\ pc'[c] = "persist" /\ call'[c].incoming = i /\ call'[c].op = r.op
        /\ call'[c].opbase = r.opbase /\ call'[c].creds = r.creds /\ call'[c].renewed = r.renewed
    BY <1>0, <1>3, <2>2 DEF Goto, Calls
  <2> HIDE DEF i
  <2>4. Current' = Current /\ kind(c)' = "refresh"
    BY <1>0, <2>3 DEF Current, Contents, kind
  <2>5. Renewal(Good', Current', r.opbase, i, r.creds, r.renewed)
    BY <1>1, <2>1, <2>4, More
  <2>6. UseOK(c)' /\ Renewing(c)'
    BY <2>3, <2>4, <2>5 DEF UseOK, Renewing, i, Edited
  <2> QED BY <1>0, <1>1, <2>6, UseQuiet
<1> QED BY <1>2, <1>3 DEF Answered

LEMMA SettleUse ==
  ASSUME VaultInv, UseInv, NEW c \in Call, Settle(c)
  PROVE  UseInv'
<1>0. pc[c] = "settle" /\ Proceed(c) /\ UNCHANGED disk /\ pc \in [Call -> Labels]
  BY DEF Settle, Proceed, VaultInv, TypeOK
<1>1. Good \subseteq Good'
  BY <1>0, GoodKept DEF Ask
<1>2. CASE Throw(c) /\ lost' = lost \cup Forgone(c)
  <2>1. ASSUME Renewing(c) PROVE Pure(Good', Current)
    <3>1. Pending = {}
      BY <1>0, <2>1 DEF UseInv, UseOK, Renewing
    <3>2. Forgone(c) \subseteq Good'
      BY <1>2 DEF Good
    <3> QED BY <1>1, <2>1, <3>1, <3>2, ForgoneEnds
  <2> QED BY <1>0, <1>1, <1>2, <2>1, ThrowUse
<1>3. CASE Leave(c, "done") /\ ~call[c].failure
  <2>1. pc'[c] = "release"
    BY <1>0, <1>3 DEF Leave, Goto
  <2> QED BY <1>0, <1>1, <1>3, <2>1, UseIdle, UseQuiet DEF Renewing
<1> QED BY <1>2, <1>3 DEF Settle

-----------------------------------------------------------------------------
LEMMA PersistUse ==
  ASSUME VaultInv, UseInv, NEW c \in Call, Persist(c)
  PROVE  UseInv'
<1> DEFINE r == call[c]
           i == Renewed(r.opbase, r.creds, r.renewed)
<1>0. /\ pc \in [Call -> Labels] /\ call \in [Call -> Calls] /\ pc[c] = "persist" /\ Proceed(c)
      /\ kind(c) \in Edited \cup {"refresh"} /\ UNCHANGED disk /\ holder = c
  <2>1. pc[c] = "persist" /\ UNCHANGED disk
    BY DEF Persist
  <2>2. Route("persist", call[c]) /\ kind(c) = call[c].op.kind /\ kind(c) \notin Outside
    BY <2>1, Acts DEF Local, UseInv
  <2>3. kind(c) \in Edited \cup {"refresh"}
    BY <2>2 DEF Route
  <2> QED BY <2>1, <2>2, <2>3, Acts DEF Proceed, VaultInv, TypeOK, Locked
<1>1. Good \subseteq Good' /\ Current' = Current
  BY <1>0, GoodKept DEF Ask, disk, Current, Contents
<1>2. /\ pc'[c] = "write" /\ call'[c].opbase = r.opbase /\ call'[c].incoming = r.incoming
      /\ call'[c].op = r.op /\ call'[c].creds = r.creds /\ call'[c].renewed = r.renewed
      /\ call'[c].base = OwnBase(c)
  BY <1>0 DEF Persist, Goto, Calls, Edited
<1>3. kind(c)' = kind(c)
  BY <1>2 DEF kind
<1>4. CASE kind(c) = "refresh"
  <2>1. Renewal(Good, Current, r.opbase, i, r.creds, r.renewed) /\ r.incoming = i
    BY <1>0, <1>4 DEF UseInv, UseOK, Renewing
  <2>2. OwnBase(c) = r.opbase
    BY <2>1, VaultAssumption DEF Renewal, OwnBase, BaseOr
  <2> HIDE DEF i
  <2>3. Renewal(Good', Current', r.opbase, i, r.creds, r.renewed)
    BY <1>1, <2>1, More
  <2>4. UseOK(c)' /\ Renewing(c)'
    BY <1>2, <1>3, <1>4, <2>1, <2>2, <2>3 DEF UseOK, Renewing, Edited, i
  <2> QED BY <1>0, <1>1, <2>4, UseQuiet
<1>5. CASE kind(c) \in Edited
  <2>1. Edit(Good, Current, r.incoming)
    BY <1>0, <1>5 DEF UseInv, UseOK
  <2>2. Edit(Good', Current', r.incoming)
    BY <1>1, <2>1, More
  <2>3. ~Renewing(c)
    BY <1>5 DEF Renewing, Edited
  <2>4. UseOK(c)'
    BY <1>2, <1>3, <1>5, <2>2 DEF UseOK, Renewing, Edited
  <2> QED BY <1>0, <1>1, <2>3, <2>4, UseQuiet
<1> QED BY <1>0, <1>4, <1>5

(* What an attempt to write leaves: the merge or the store as it was, and   *)
(* the end, or another attempt or the sidecar with what the merge flagged.  *)
LEMMA WriteIs ==
  ASSUME VaultInv, UseInv, NEW c \in Call, Write(c)
  PROVE  LET r == call[c]
             b == BaseOr(r.base, Current)
         IN /\ b \in KeyStore /\ r.incoming \in KeyStore /\ Current \in KeyStore
            /\ kind(c) \in Edited \cup {"refresh"} /\ holder = c /\ UNCHANGED pending
            /\ Good' = Good /\ kind(c)' = kind(c)
            /\ \E allow : \E m \in MergeKeyStores(b, r.incoming, Current, allow) :
                 \/ /\ Current' = m
                    /\ \/ pc'[c] = "settle" /\ call'[c] = r /\ kind(c) = "refresh"
                       \/ pc'[c] = "release" /\ kind(c) # "refresh"
                 \/ /\ Current' \in {m, Current}
                    /\ pc'[c] \in {"write", "sidecar"}
                    /\ call'[c].incoming = Flagged(b, r.incoming, Current, m)
                    /\ call'[c].creds = r.creds /\ call'[c].renewed = r.renewed
                    /\ call'[c].base = r.base /\ call'[c].opbase = r.opbase
<1> DEFINE r == call[c]
           b == BaseOr(r.base, Current)
<1>0. /\ pc \in [Call -> Labels] /\ call \in [Call -> Calls] /\ pc[c] = "write"
      /\ kind(c) \in Edited \cup {"refresh"} /\ holder = c
      /\ Current \in KeyStore /\ r.incoming \in KeyStore /\ r.base \in Image
  <2>1. pc[c] = "write"
    BY DEF Write
  <2>2. Route("write", call[c]) /\ kind(c) = call[c].op.kind /\ kind(c) \notin Outside
    BY <2>1, Acts DEF Local, UseInv
  <2>3. kind(c) \in Edited \cup {"refresh"}
    BY <2>2 DEF Route
  <2>4. Current \in KeyStore
    BY ContentsType, VaultAssumption, Acts DEF Current, Globals
  <2> QED BY <2>1, <2>3, <2>4, Acts DEF VaultInv, TypeOK, Locked, Local, Carries, Calls
<1>1. b \in KeyStore
  BY <1>0 DEF BaseOr, Image
<1> HIDE DEF b
<1>2. PICK allow : allow = removal(c)
  OBVIOUS
<1>3. PICK m \in MergeKeyStores(b, r.incoming, Current, allow) :
        \/ stored' = m /\ Finish(c)
        \/ /\ stored' \in {m, stored}
           /\ \/ /\ call' = [call EXCEPT ![c].attempt = @ + 1,
                                         ![c].incoming = Flagged(b, r.incoming, Current, m)]
                 /\ UNCHANGED pc
              \/ /\ call' = [call EXCEPT ![c].incoming = Flagged(b, r.incoming, Current, m),
                                         ![c].then = "sidecar"]
                 /\ Goto(c, IF kind(c) \in Outside THEN "release" ELSE "sidecar")
  BY <1>2 DEF Write, b, Current
<1>4. m \in KeyStore
  BY <1>0, <1>1, MergeAt
<1>5. stored' \in {m, stored} /\ (stored' = m => Current' = m) /\ (stored' = stored => Current' = Current)
  BY <1>3, <1>4, VaultAssumption DEF Current, Contents
<1>6. UNCHANGED pending /\ Good' = Good
  BY DEF Write, Good, server
<1>7. kind(c)' = kind(c)
  BY KindKeeps DEF Proceed
<1>8. \/ /\ Current' = m
         /\ \/ pc'[c] = "settle" /\ call'[c] = r /\ kind(c) = "refresh"
            \/ pc'[c] = "release" /\ kind(c) # "refresh"
      \/ /\ Current' \in {m, Current}
         /\ pc'[c] \in {"write", "sidecar"}
         /\ call'[c].incoming = Flagged(b, r.incoming, Current, m)
         /\ call'[c].creds = r.creds /\ call'[c].renewed = r.renewed
         /\ call'[c].base = r.base /\ call'[c].opbase = r.opbase
  <2>1. CASE stored' = m /\ Finish(c)
    BY <1>0, <1>5, <2>1 DEF Finish, Leave, Goto
  <2>2. CASE /\ stored' \in {m, stored} /\ UNCHANGED pc
             /\ call' = [call EXCEPT ![c].attempt = @ + 1,
                                     ![c].incoming = Flagged(b, r.incoming, Current, m)]
    BY <1>0, <1>5, <2>2 DEF Calls
  <2>3. CASE /\ stored' \in {m, stored}
             /\ call' = [call EXCEPT ![c].incoming = Flagged(b, r.incoming, Current, m),
                                     ![c].then = "sidecar"]
             /\ Goto(c, IF kind(c) \in Outside THEN "release" ELSE "sidecar")
    <3>1. pc'[c] = "sidecar"
      BY <1>0, <2>3 DEF Goto, Outside, Edited
    <3> QED BY <1>0, <1>5, <2>3, <3>1 DEF Calls
  <2> QED BY <1>3, <2>1, <2>2, <2>3
<1> QED BY <1>0, <1>1, <1>6, <1>7, <1>8 DEF b

LEMMA WriteUse ==
  ASSUME VaultInv, UseInv, NEW c \in Call, Write(c)
  PROVE  UseInv'
<1> DEFINE r == call[c]
           b == BaseOr(r.base, Current)
<1>0. /\ b \in KeyStore /\ r.incoming \in KeyStore /\ Current \in KeyStore
      /\ kind(c) \in Edited \cup {"refresh"} /\ holder = c /\ UNCHANGED pending
      /\ Good' = Good /\ kind(c)' = kind(c) /\ pc[c] = "write" /\ Proceed(c)
  BY WriteIs DEF Write, Proceed
<1> DEFINE Left(m) ==
        \/ /\ Current' = m
           /\ \/ pc'[c] = "settle" /\ call'[c] = r /\ kind(c) = "refresh"
              \/ pc'[c] = "release" /\ kind(c) # "refresh"
        \/ /\ Current' \in {m, Current}
           /\ pc'[c] \in {"write", "sidecar"}
           /\ call'[c].incoming = Flagged(b, r.incoming, Current, m)
           /\ call'[c].creds = r.creds /\ call'[c].renewed = r.renewed
           /\ call'[c].base = r.base /\ call'[c].opbase = r.opbase
<1>pick. PICK allow : \E m \in MergeKeyStores(b, r.incoming, Current, allow) : Left(m)
  BY WriteIs
<1>1. PICK m \in MergeKeyStores(b, r.incoming, Current, allow) : Left(m)
  BY <1>pick
<1> HIDE DEF b
<1>2. Pending = {} /\ Pending' = {}
  BY <1>0, NothingWaits DEF Pending
<1>3. CASE kind(c) = "refresh"
  <2> DEFINE i == Renewed(r.opbase, r.creds, r.renewed)
  <2>1. Renewal(Good, Current, r.opbase, i, r.creds, r.renewed) /\ r.incoming = i /\ r.base = r.opbase
    BY <1>0, <1>3 DEF UseInv, UseOK, Renewing
  <2>2. b = r.opbase
    BY <2>1, VaultAssumption DEF Renewal, b, BaseOr
  <2> HIDE DEF i
  <2>3. Same(m, i) /\ Flagged(b, i, Current, m) = i /\ Renewal(Good, m, b, i, r.creds, r.renewed)
    BY <1>0, <1>1, <2>1, <2>2, MergeRenews
  <2>4. /\ pc'[c] \in {"write", "sidecar", "settle"} /\ call'[c].incoming = i
        /\ call'[c].creds = r.creds /\ call'[c].renewed = r.renewed
        /\ call'[c].base = r.base /\ call'[c].opbase = r.opbase
        /\ pc'[c] = "settle" => Current' = m
        /\ Current' \in {m, Current}
    BY <1>1, <1>3, <2>1, <2>3
  <2>5. Renewal(Good', Current', r.opbase, i, r.creds, r.renewed)
    BY <1>0, <2>1, <2>2, <2>3, <2>4
  <2>6. UseOK(c)'
    BY <1>0, <1>2, <1>3, <2>1, <2>4, <2>5 DEF UseOK, Edited, i
  <2>7. ASSUME Settled' PROVE Pure(Good', Current')
    <3>1. ~Renewing(c)'
      BY <2>7 DEF Settled
    <3>2. Current' = m
      BY <1>0, <1>3, <2>4, <3>1 DEF Renewing
    <3> QED BY <1>0, <2>1, <2>3, <3>2, SamePure DEF Renewal
  <2> QED BY <1>0, <1>2, <2>6, <2>7, UseHeld
<1>4. CASE kind(c) \in Edited
  <2> DEFINE f == Flagged(b, r.incoming, Current, m)
  <2>1. Edit(Good, Current, r.incoming) /\ ~Renewing(c)
    BY <1>0, <1>4 DEF UseInv, UseOK, Renewing, Edited
  <2>2. Pure(Good, Current)
    BY <1>0, <1>2, <2>1, PureNow
  <2>3. m \in KeyStore /\ Mix(Current, r.incoming, m) /\ f \in KeyStore /\ Mix(Current, r.incoming, f)
    BY <1>0, <1>1, MergeMixes
  <2> HIDE DEF f
  <2>4. Mix(Current, r.incoming, Current)
    BY DEF Mix, Keys
  <2>5. Pure(Good, m) /\ Edit(Good, m, f) /\ Edit(Good, Current, f)
    BY <1>0, <2>1, <2>2, <2>3, <2>4, Mixed
  <2>6. Pure(Good', Current')
    BY <1>0, <1>1, <2>2, <2>5
  <2>7. /\ pc'[c] \in {"write", "sidecar", "release"}
        /\ pc'[c] # "release" => Edit(Good', Current', call'[c].incoming)
    BY <1>0, <1>1, <1>4, <2>5 DEF f, Edited
  <2>8. UseOK(c)'
    BY <1>0, <1>2, <1>4, <2>7 DEF UseOK, Renewing, Edited
  <2> QED BY <1>0, <1>2, <2>6, <2>8, UseHeld
<1> QED BY <1>0, <1>3, <1>4

LEMMA WriteUnreadUse ==
  ASSUME VaultInv, UseInv, NEW c \in Call, WriteUnread(c)
  PROVE  UseInv'
<1> DEFINE r == call[c]
           i == Renewed(r.opbase, r.creds, r.renewed)
<1>0. /\ pc \in [Call -> Labels] /\ call \in [Call -> Calls] /\ pc[c] = "write" /\ Proceed(c)
      /\ kind(c) \in Edited \cup {"refresh"} /\ UNCHANGED disk
  <2>1. pc[c] = "write" /\ UNCHANGED disk
    BY DEF WriteUnread
  <2>2. Route("write", call[c]) /\ kind(c) = call[c].op.kind /\ kind(c) \notin Outside
    BY <2>1, Acts DEF Local, UseInv
  <2>3. kind(c) \in Edited \cup {"refresh"}
    BY <2>2 DEF Route
  <2> QED BY <2>1, <2>2, <2>3 DEF Proceed, VaultInv, TypeOK
<1>1. Good \subseteq Good' /\ Current' = Current
  BY <1>0, GoodKept DEF Ask, disk, Current, Contents
<1>2. /\ pc'[c] = "sidecar" /\ call'[c].opbase = r.opbase /\ call'[c].incoming = r.incoming
      /\ call'[c].op = r.op /\ call'[c].creds = r.creds /\ call'[c].renewed = r.renewed
      /\ call'[c].base = r.base
  BY <1>0 DEF WriteUnread, Goto, Calls, Edited, Outside
<1>3. kind(c)' = kind(c)
  BY <1>2 DEF kind
<1>4. Pending = {} /\ Pending' = {}
  BY <1>0, NothingWaits DEF Pending, disk
<1>5. CASE kind(c) = "refresh"
  <2>1. Renewal(Good, Current, r.opbase, i, r.creds, r.renewed) /\ r.incoming = i /\ r.base = r.opbase
    BY <1>0, <1>5 DEF UseInv, UseOK, Renewing
  <2> HIDE DEF i
  <2>2. Renewal(Good', Current', r.opbase, i, r.creds, r.renewed)
    BY <1>1, <2>1, More
  <2>3. UseOK(c)' /\ Renewing(c)'
    BY <1>2, <1>3, <1>4, <1>5, <2>1, <2>2 DEF UseOK, Renewing, Edited, i
  <2> QED BY <1>0, <1>1, <2>3, UseQuiet
<1>6. CASE kind(c) \in Edited
  <2>1. Edit(Good, Current, r.incoming)
    BY <1>0, <1>6 DEF UseInv, UseOK
  <2>2. Edit(Good', Current', r.incoming)
    BY <1>1, <2>1, More
  <2>3. ~Renewing(c)
    BY <1>6 DEF Renewing, Edited
  <2>4. UseOK(c)'
    BY <1>2, <1>3, <1>4, <1>6, <2>2 DEF UseOK, Renewing, Edited
  <2> QED BY <1>0, <1>1, <2>3, <2>4, UseQuiet
<1> QED BY <1>0, <1>5, <1>6

LEMMA SidecarUse ==
  ASSUME VaultInv, UseInv, NEW c \in Call, Sidecar(c)
  PROVE  UseInv'
<1> DEFINE r == call[c]
           i == Renewed(r.opbase, r.creds, r.renewed)
           x == [at |-> now, base |-> OwnBase(c), incoming |-> r.incoming, allowRemovals |-> removal(c)]
<1>0. /\ pc \in [Call -> Labels] /\ call \in [Call -> Calls] /\ pc[c] = "sidecar" /\ Proceed(c)
      /\ kind(c) \in Edited \cup {"refresh"} /\ holder = c /\ pending \in [Call -> Sidecars \cup {Absent}]
  <2>1. pc[c] = "sidecar"
    BY DEF Sidecar
  <2>2. Route("sidecar", call[c]) /\ kind(c) = call[c].op.kind /\ kind(c) \notin Outside
    BY <2>1, Acts DEF Local, UseInv
  <2>3. kind(c) \in Edited \cup {"refresh"}
    BY <2>2 DEF Route
  <2> QED BY <2>1, <2>2, <2>3, Acts DEF Sidecar, Proceed, VaultInv, TypeOK, Locked
<1>1. Current' = Current /\ Good' = Good /\ kind(c)' = kind(c) /\ Pending = {}
  <2>1. stored' = stored /\ UNCHANGED server
    BY DEF Sidecar
  <2> QED BY <1>0, <2>1, KindKeeps DEF Current, Contents, Good, server, UseInv, UseOK
<1>2. Renewing(c) <=> kind(c) = "refresh"
  BY <1>0 DEF Renewing
<1>3. /\ kind(c) = "refresh" => /\ Renewal(Good, Current, r.opbase, i, r.creds, r.renewed)
                                /\ r.incoming = i
      /\ kind(c) \in Edited => Edit(Good, Current, r.incoming)
  BY <1>0, <1>2 DEF UseInv, UseOK
<1>4. kind(c) \in Edited => Pure(Good, Current)
  BY <1>0, <1>1, <1>2, PureNow DEF Edited
<1> HIDE DEF i
<1>5. CASE pending' = [pending EXCEPT ![c] = x] /\ Finish(c)
  <2>1. PICK y : y = x
    OBVIOUS
  <2>2. y.base = OwnBase(c) /\ y.incoming = r.incoming /\ y # Absent
    <3>1. x # Absent
      BY SidecarWritten, <1>0 DEF Sidecar
    <3> QED BY <2>1, <3>1
  <2>3. pending'[c] = y /\ \A d \in Call : d # c => pending'[d] = pending[d]
    BY <1>0, <1>5, <2>1
  <2> HIDE DEF x
  <2>4. Pending' = {c}
    BY <1>1, <2>2, <2>3 DEF Pending
  <2>5. kind(c) = "refresh" => OwnBase(c) = r.opbase
    BY <1>3, VaultAssumption DEF Renewal, OwnBase, BaseOr
  <2>6. r.creds \in Creds /\ r.renewed \in Creds
    BY <1>0 DEF Calls
  <2>7. Waits(c)'
    BY <1>0, <1>1, <1>3, <2>2, <2>3, <2>5, <2>6 DEF Waits
  <2>8. pc'[c] \in {"settle", "release"}
    BY <1>0, <1>5 DEF Finish, Leave, Goto
  <2>9. ~Renewing(c)' /\ UseOK(c)'
    BY <2>2, <2>3, <2>8 DEF Renewing, UseOK
  <2>10. ASSUME Settled' PROVE Pure(Good', Current')
    BY <1>0, <1>1, <1>4, <2>4, <2>10 DEF Settled
  <2> QED BY <1>0, <2>4, <2>7, <2>9, <2>10, UseHeld
<1>6. CASE /\ call' = [call EXCEPT ![c].failure = TRUE, ![c].then = "failed"]
           /\ Goto(c, IF kind(c) = "refresh" THEN "settle" ELSE "release")
           /\ UNCHANGED pending
  <2>1. /\ pc'[c] = IF kind(c) = "refresh" THEN "settle" ELSE "release"
        /\ call'[c].incoming = r.incoming /\ call'[c].creds = r.creds /\ call'[c].failure
        /\ call'[c].renewed = r.renewed /\ call'[c].opbase = r.opbase
    BY <1>0, <1>6 DEF Goto, Calls
  <2>2. Pending' = {} /\ pending'[c] = Absent
    BY <1>1, <1>6 DEF Pending
  <2>3. UseOK(c)' /\ (kind(c) = "refresh" => Renewing(c)')
    BY <1>0, <1>1, <1>3, <2>1, <2>2 DEF UseOK, Renewing, Edited, i
  <2>4. ASSUME Settled' PROVE Pure(Good', Current')
    BY <1>0, <1>1, <1>4, <2>3, <2>4 DEF Settled
  <2> QED BY <1>0, <2>2, <2>3, <2>4, UseHeld
<1> QED BY <1>0, <1>5, <1>6 DEF Sidecar

(* Recovery: a sidecar is merged, and then deleted. *)
LEMMA AbsorbUse ==
  ASSUME VaultInv, UseInv, NEW c \in Call, NEW d \in Call, Absorb(c, d)
  PROVE  UseInv'
<1> DEFINE p == pending[d]
           b == BaseOr(p.base, Current)
<1>0. /\ pc \in [Call -> Labels] /\ call \in [Call -> Calls] /\ pc[c] = "absorb" /\ Proceed(c)
      /\ holder = c /\ ~Renewing(c) /\ d \in Pending /\ pending[d] \in Sidecars
      /\ UNCHANGED pending /\ Good' = Good /\ Current \in KeyStore
  <2>1. pc[c] = "absorb" /\ d \in call[c].todo /\ UNCHANGED pending /\ UNCHANGED server
    BY DEF Absorb, Oldest
  <2>2. Recovers("absorb", call[c], Pending, Inside) /\ holder = c
    BY <2>1, Acts DEF Locked
  <2>3. d \in Pending /\ pending[d] \in Sidecars
    BY <2>1, <2>2, Acts DEF Recovers, Pending, Globals
  <2>4. Current \in KeyStore
    BY ContentsType, VaultAssumption, Acts DEF Current, Globals
  <2> QED BY <2>1, <2>2, <2>3, <2>4 DEF Proceed, VaultInv, TypeOK, Renewing, Good, server
<1>1. p.incoming \in KeyStore /\ p.base \in Image /\ b \in KeyStore
  BY <1>0 DEF Sidecars, BaseOr, Image
<1>2. PICK allow : allow = p.allowRemovals
  OBVIOUS
<1> HIDE DEF b
<1>3. PICK m \in MergeKeyStores(b, p.incoming, Current, allow) :
        \/ /\ stored' = m /\ Goto(c, "discard")
           /\ call' = [call EXCEPT ![c].todo = @ \ {d}, ![c].file = d]
        \/ stored' \in {m, stored} /\ Throw(c)
  BY <1>2 DEF Absorb, b, Current
<1>4. m \in KeyStore
  BY <1>1, <1>0, MergeAt
<1>5. /\ Current' \in {m, Current}
      /\ \/ pc'[c] = "discard" /\ call'[c].file = d /\ Current' = m
         \/ pc'[c] \in {"unread", "release"}
  <2>1. CASE /\ stored' = m /\ Goto(c, "discard")
             /\ call' = [call EXCEPT ![c].todo = @ \ {d}, ![c].file = d]
    BY <1>0, <1>4, <2>1, VaultAssumption DEF Goto, Calls, Current, Contents
  <2>2. CASE stored' \in {m, stored} /\ Throw(c)
    <3>1. PICK l, r : Goes(c, l, r) /\ l \in {"unread", "release"}
      BY <1>0, <2>2, ThrowGoes
    <3>2. pc'[c] \in {"unread", "release"}
      BY <3>1, Gone
    <3> QED BY <1>4, <2>2, <3>2, VaultAssumption DEF Current, Contents
  <2> QED BY <1>3, <2>1, <2>2
<1>6. \A e \in Call : call'[e].op = call[e].op /\ kind(e)' = kind(e)
  BY <1>0, KindKeeps
<1>7. Pending = {d} /\ Pending' = {d} /\ pending'[d] = p
  BY <1>0 DEF UseInv, Pending
<1>8. Waits(d)
  BY <1>0 DEF UseInv
<1> HIDE DEF p
<1>9. CASE kind(d) = "refresh"
  <2>1. PICK old \in Creds, new \in Creds : Renewal(Good, Current, p.base, p.incoming, old, new)
    BY <1>8, <1>9 DEF Waits, p
  <2>2. b = p.base
    BY <2>1, VaultAssumption DEF Renewal, b, BaseOr
  <2>3. Same(m, p.incoming) /\ Renewal(Good, m, p.base, p.incoming, old, new)
    BY <1>0, <1>1, <1>3, <2>1, <2>2, MergeRenews
  <2>4. Renewal(Good', Current', p.base, p.incoming, old, new)
    BY <1>0, <1>5, <2>1, <2>3
  <2>5. Waits(d)' /\ kind(d)' = "refresh"
    BY <1>6, <1>7, <1>9, <2>4 DEF Waits, Edited
  <2>6. pc'[c] = "discard" => Same(Current', pending'[d].incoming)
    BY <1>5, <1>7, <2>3
  <2>7. UseOK(c)'
    BY <1>5, <2>6 DEF UseOK, Renewing
  <2>8. ~Settled'
    BY <1>7, <2>5 DEF Settled
  <2> QED BY <1>0, <1>7, <2>5, <2>7, <2>8, UseHeld
<1>10. CASE kind(d) \in Edited
  <2>1. Edit(Good, Current, p.incoming)
    BY <1>8, <1>10 DEF Waits, p
  <2>2. Settled
    BY <1>0, <1>7, <1>10, NobodyElse DEF Settled, Edited
  <2>3. Pure(Good, Current)
    BY <2>2 DEF UseInv
  <2>4. Mix(Current, p.incoming, m) /\ Mix(Current, p.incoming, p.incoming)
    BY <1>0, <1>1, <1>3, MergeMixes DEF Mix, Keys
  <2>5. Pure(Good, m) /\ Edit(Good, m, p.incoming)
    BY <1>0, <1>1, <1>4, <2>1, <2>3, <2>4, Mixed
  <2>6. Pure(Good', Current') /\ Edit(Good', Current', p.incoming)
    BY <1>0, <1>5, <2>1, <2>3, <2>5
  <2>7. Waits(d)' /\ kind(d)' # "refresh"
    BY <1>6, <1>7, <1>10, <2>6 DEF Waits, Edited
  <2>8. UseOK(c)'
    BY <1>5, <2>7 DEF UseOK, Renewing
  <2> QED BY <1>0, <1>7, <2>6, <2>7, <2>8, UseHeld
<1> QED BY <1>8, <1>9, <1>10 DEF Waits

LEMMA DiscardUse ==
  ASSUME VaultInv, UseInv, NEW c \in Call, Discard(c)
  PROVE  UseInv'
<1>0. /\ pc \in [Call -> Labels] /\ call \in [Call -> Calls] /\ pc[c] = "discard" /\ Proceed(c)
      /\ holder = c /\ ~Renewing(c) /\ stored' = stored /\ Good' = Good
      /\ pending \in [Call -> Sidecars \cup {Absent}]
  <2>1. pc[c] = "discard" /\ stored' = stored /\ UNCHANGED server
    BY DEF Discard
  <2>2. holder = c
    BY <2>1, Acts DEF Locked
  <2> QED BY <2>1, <2>2 DEF Proceed, VaultInv, TypeOK, Renewing, Good, server
<1>1. CASE Throw(c) /\ UNCHANGED pending
  BY <1>0, <1>1, ThrowUse DEF disk
<1>2. CASE pending' = [pending EXCEPT ![call[c].file] = Absent] /\ Goto(c, "absorb")
  <2> DEFINE f == call[c].file
  <2>1. \A e \in Call : e # f => pending'[e] = pending[e]
    BY <1>0, <1>2
  <2>2. f \in Call => pending'[f] = Absent
    BY <1>0, <1>2
  <2>3. \A e \in Call : call'[e].op = call[e].op /\ kind(e)' = kind(e)
    BY <1>0, KindKeeps
  <2>4. Pending' = Pending \ {f} /\ Current' = Current /\ Pending \subseteq Call
    BY <1>0, <2>1, <2>2 DEF Pending, Current, Contents
  <2>5. pc'[c] = "absorb"
    BY <1>0, <1>2 DEF Goto
  <2>6. UseOK(c)'
    BY <2>5, UseIdle
  <2>7. ASSUME NEW e \in Pending' PROVE Waits(e)'
    <3>1. e \in Pending /\ e # f /\ Waits(e) /\ pending'[e] = pending[e] /\ kind(e)' = kind(e)
      BY <2>1, <2>3, <2>4, <2>7 DEF UseInv
    <3> QED BY <1>0, <2>4, <3>1 DEF Waits
  <2>8. ASSUME Settled' PROVE Pure(Good', Current')
    <3>1. CASE Settled
      BY <1>0, <2>4, <3>1 DEF UseInv
    <3>2. CASE ~Settled
      <4>1. PICK e \in Pending : kind(e) = "refresh"
        BY <1>0, <3>2, NobodyElse DEF Settled
      <4>2. e = f
        BY <2>3, <2>4, <2>8, <4>1 DEF Settled
      <4>3. Same(Current, pending[f].incoming)
        BY <1>0, <4>1, <4>2 DEF UseInv, UseOK
      <4>4. PICK old \in Creds, new \in Creds :
              Renewal(Good, Current, pending[f].base, pending[f].incoming, old, new)
        BY <4>1, <4>2 DEF UseInv, Waits
      <4>5. Pure(Good, pending[f].incoming)
        BY <4>4 DEF Renewal
      <4> QED BY <1>0, <2>4, <4>3, <4>5, SamePure
    <3> QED BY <3>1, <3>2
  <2>9. \A e, g \in Pending' : e = g
    BY <2>4 DEF UseInv
  <2> QED BY <1>0, <2>6, <2>7, <2>8, <2>9, UseHeld
<1> QED BY <1>1, <1>2 DEF Discard

LEMMA EraseUse ==
  ASSUME VaultInv, UseInv, NEW c \in Call, Erase(c)
  PROVE  UseInv'
<1>0. /\ pc \in [Call -> Labels] /\ pc[c] = "body" /\ Proceed(c) /\ holder = c /\ ~Renewing(c)
      /\ pending' = pending /\ Good' = Good
  <2>1. pc[c] = "body" /\ pending' = pending /\ UNCHANGED server
    BY DEF Erase
  <2>2. holder = c
    BY <2>1, Acts DEF Locked
  <2> QED BY <2>1, <2>2 DEF Proceed, VaultInv, TypeOK, Renewing, Good, server
<1>1. CASE Throw(c) /\ UNCHANGED stored
  BY <1>0, <1>1, ThrowUse DEF disk
<1>2. CASE stored' = Absent /\ Leave(c, "done")
  <2>1. pc'[c] = "release"
    BY <1>0, <1>2 DEF Leave, Goto
  <2>2. Entries(Current') = {}
    BY <1>2 DEF Current, Contents, EmptyStore, Entries, Keys
  <2>3. Pure(Good', Current')
    BY <2>2 DEF Pure, Alive, Agree
  <2>4. Pending' = {}
    BY <1>0, NothingWaits DEF Pending
  <2> QED BY <1>0, <2>1, <2>3, <2>4, UseIdle, UseHeld
<1> QED BY <1>1, <1>2 DEF Erase

-----------------------------------------------------------------------------
LEMMA RenewingAlone ==
  ASSUME VaultInv, UseInv, NEW c \in Call, Renewing(c)
  PROVE  Pending = {}
<1>1. pc[c] \in {"answered", "persist", "write", "sidecar"} => Pending = {}
  BY NothingWaits
<1> QED BY <1>1 DEF UseInv, UseOK, Renewing

(* Calls die, or nothing happens to them, while the disk is as it was. *)
LEMMA UseFrame ==
  ASSUME VaultInv, UseInv, UNCHANGED disk, Good \subseteq Good',
         \A d \in Call : /\ call'[d].op = call[d].op
                         /\ pc'[d] = "dead" \/ (pc'[d] = pc[d] /\ call'[d] = call[d]),
         \A d \in Call : Renewing(d) /\ pc'[d] = "dead" => Pure(Good', Current)
  PROVE  UseInv'
<1>0. \A d \in Call : kind(d)' = kind(d)
  BY DEF kind
<1>1. stored' = stored /\ pending' = pending /\ Pending \subseteq Call
  BY DEF disk, Pending
<1>2. Current' = Current /\ Pending' = Pending
  BY <1>1 DEF Current, Contents, Pending
<1>3. ASSUME NEW d \in Call
      PROVE  UseOK(d)' /\ (pc'[d] = "dead" \/ (Renewing(d)' <=> Renewing(d)))
  <2>1. CASE pc'[d] = "dead"
    BY <2>1, UseIdle
  <2>2. CASE pc'[d] = pc[d] /\ call'[d] = call[d]
    <3>1. UseOK(d) /\ kind(d) \notin Outside
      BY DEF UseInv
    <3> QED BY <1>0, <1>1, <2>2, <3>1, UseOther DEF Renewing
  <2> QED BY <2>1, <2>2
<1>4. ASSUME NEW d \in Pending PROVE Waits(d)'
  <2>1. Waits(d) /\ kind(d)' = kind(d)
    BY <1>0, <1>1 DEF UseInv
  <2>2. kind(d) \in Edited => Edit(Good', Current', pending'[d].incoming)
    BY <1>1, <1>2, <2>1, More DEF Waits
  <2>3. kind(d) = "refresh" => \E old, new \in Creds :
          Renewal(Good', Current', pending'[d].base, pending'[d].incoming, old, new)
    BY <1>1, <1>2, <2>1, More DEF Waits
  <2> QED BY <2>1, <2>2, <2>3 DEF Waits
<1>5. ASSUME Settled' PROVE Pure(Good', Current')
  <2>1. CASE \E d \in Call : Renewing(d)
    BY <1>2, <1>3, <1>5, <2>1 DEF Settled
  <2>2. CASE \A d \in Call : ~Renewing(d)
    <3>1. Settled
      BY <1>0, <1>1, <1>2, <1>5, <2>2 DEF Settled
    <3> QED BY <1>2, <3>1, More DEF UseInv
  <2> QED BY <2>1, <2>2
<1> QED BY <1>0, <1>2, <1>3, <1>4, <1>5 DEF UseInv

LEMMA CrashUse ==
  ASSUME VaultInv, UseInv, NEW p \in Process, Crash(p)
  PROVE  UseInv'
<1> DEFINE victims == {c \in Call : ProcOf(c) = p /\ Live(c)}
<1>1. /\ UNCHANGED <<disk, valid>> /\ lost' = lost \cup UNION {Forgone(c) : c \in victims}
      /\ pc' = [c \in Call |-> IF c \in victims THEN "dead" ELSE pc[c]]
      /\ call' = [c \in Call |-> IF c \in victims THEN Cleared(c) ELSE call[c]]
  BY DEF Crash
<1>2. Good \subseteq Good'
  BY <1>1 DEF Good
<1>3. ASSUME NEW d \in Call
      PROVE  /\ call'[d].op = call[d].op
             /\ pc'[d] = "dead" \/ (pc'[d] = pc[d] /\ call'[d] = call[d])
  <2>1. call[d] \in Calls
    BY Acts
  <2>2. Cleared(d).op = call[d].op
    BY <2>1, ClearedType
  <2> HIDE DEF victims
  <2> QED BY <1>1, <2>2
<1>4. ASSUME NEW d \in Call, Renewing(d), pc'[d] = "dead" PROVE Pure(Good', Current)
  <2>1. pc[d] # "dead"
    BY <1>4 DEF Renewing
  <2>2. d \in victims
    BY <1>1, <1>4, <2>1
  <2>3. Forgone(d) \subseteq Good'
    BY <1>1, <2>2 DEF Good
  <2> QED BY <1>2, <1>4, <2>3, RenewingAlone, ForgoneEnds
<1> HIDE DEF victims
<1> QED BY <1>1, <1>2, <1>3, <1>4, UseFrame

LEMMA UseStep ==
  ASSUME VaultInv, SecretInv, RefreshInv, LoginInv, UseInv, [Next]_vars, \A l \in Lifetimes : l > Window
  PROVE  UseInv'
<1>1. ASSUME NEW c \in Call, Begin(c) \/ Proceed(c) PROVE UseInv'
  <2>1. CASE \/ Begin(c) \/ Scan(c) \/ Acquire(c) \/ TimeOut(c) \/ Release(c)
             \/ Absorbed(c) \/ Get(c) \/ ReadFails(c) \/ Reread(c)
    BY <2>1, IdleUse
  <2>2. CASE (\E d \in Call : Absorb(c, d)) \/ Discard(c) \/ Erase(c)
    BY <2>2, AbsorbUse, DiscardUse, EraseUse
  <2>3. CASE Read(c) \/ Unread(c) \/ Persist(c) \/ Write(c) \/ WriteUnread(c) \/ Sidecar(c)
    BY <2>3, ReadUse, UnreadUse, PersistUse, WriteUse, WriteUnreadUse, SidecarUse
  <2>4. CASE Ask(c) \/ Answered(c) \/ Settle(c)
    BY <2>4, AskUse, AnsweredUse, SettleUse
  <2> QED BY <1>1, <2>1, <2>2, <2>3, <2>4 DEF Proceed
<1>2. ASSUME NEW p \in Process, Crash(p) PROVE UseInv'
  BY <1>2, CrashUse
<1>3. CASE Tick \/ UNCHANGED vars
  <2>1. UNCHANGED <<disk, valid, lost, pc, call>>
    BY <1>3 DEF Tick, vars, server
  <2>2. Good' = Good
    BY <2>1 DEF Good
  <2>3. \A d \in Call : ~(Renewing(d) /\ pc'[d] = "dead")
    BY <2>1 DEF Renewing
  <2> QED BY <2>1, <2>2, <2>3, UseFrame
<1> QED BY <1>1, <1>2, <1>3 DEF Next

LEMMA UseInit ==
  ASSUME Init,
         \A setup \in Setups : /\ \A c \in Call : setup.plan[c].kind \notin Outside
                               /\ Agree(Contents(setup.store), Contents(setup.store))
  PROVE  UseInv /\ LoginInv
<1>1. PICK setup \in Setups : /\ stored = setup.store
                             /\ call = [c \in Call |-> [NoCall EXCEPT !.op = setup.plan[c]]]
  BY DEF Init
<1>2. \A c \in Call : kind(c) \notin Outside
  BY <1>1 DEF NoCall, kind
<1>3. pc = [c \in Call |-> "idle"] /\ Pending = {}
  BY DEF Init, Pending
<1>4. \A c \in Call : ~Renewing(c) /\ UseOK(c)
  BY <1>3 DEF Renewing, UseOK
<1>5. Pure(Good, Current)
  <2>1. valid = Secrets(Current)
    BY DEF Init, Current
  <2>2. Alive(Good, Current)
    BY <2>1 DEF Alive, Good, Secrets, Entries
  <2>3. Agree(Current, Current)
    BY <1>1 DEF Current
  <2> QED BY <2>2, <2>3 DEF Pure
<1>6. LoginInv
  BY <1>3 DEF LoginInv, Early
<1> QED BY <1>2, <1>3, <1>4, <1>5, <1>6 DEF UseInv

-----------------------------------------------------------------------------
(* Whatever the calls, the stores they start from and the faults: every     *)
(* change is made in a transaction, tokens outlive the refresh window, and  *)
(* entries that start with the same token start with the same credentials.  *)
Transactional ==
  /\ \A l \in Lifetimes : l > Window
  /\ \A setup \in Setups : /\ \A c \in Call : setup.plan[c].kind \notin Outside
                           /\ Agree(Contents(setup.store), Contents(setup.store))

AllInv == VaultInv /\ SecretInv /\ RefreshInv /\ LoginInv /\ UseInv

LEMMA UseInvariant ==
  ASSUME Transactional
  PROVE  Spec => []AllInv
<1>1. Init => AllInv
  BY InitStep, SecretInit, RefreshInit, UseInit DEF AllInv, Transactional
<1>2. AllInv /\ [Next]_vars => AllInv'
  BY VaultStep, SecretStep, RefreshStep, LoginStep, UseStep DEF AllInv, Transactional
<1> QED BY <1>1, <1>2, PTL DEF Spec

(* refreshCredentials, under the lock: the token that is presented to the   *)
(* server was not exchanged by anybody before, however old the credentials  *)
(* the call was asked to refresh.                                           *)
THEOREM OneRefreshOnly ==
  ASSUME Transactional
  PROVE  Spec => []OneRefresh
<1>1. ASSUME AllInv, NEW c \in Call, pc[c] = "ask" PROVE call[c].creds.secret \in valid \cup lost
  <2>1. VaultInv /\ UseInv /\ RefreshOK(c)
    BY <1>1 DEF AllInv, RefreshInv
  <2>2. holder = c /\ ~Renewing(c)
    BY <1>1, <2>1, Acts DEF Locked, Renewing
  <2>3. Pure(Good, Current)
    BY <1>1, <2>1, <2>2, NothingWaits, PureNow
  <2>4. PICK a \in Keys(stored) : stored[a].creds = call[c].creds
    BY <1>1, <2>1 DEF RefreshOK
  <2>5. a \in Entries(Current) /\ Current[a].creds = call[c].creds
    BY <1>1, <2>1, <2>4 DEF RefreshOK, Current, Contents, Entries
  <2> QED BY <2>3, <2>5 DEF Pure, Alive, Good
<1>2. AllInv => OneRefresh
  BY <1>1 DEF OneRefresh
<1> QED BY <1>2, UseInvariant, PTL

(* refreshCredentials, persist and the recovery of sidecars: the server     *)
(* takes every token of the store, or its successor is in a sidecar or in   *)
(* the hands of a call, or could be stored by nobody.                       *)
THEOREM UsableAlways ==
  ASSUME Transactional
  PROVE  Spec => []Usable
<1>1. ASSUME AllInv, NEW a \in Entries(Current)
      PROVE  LET s == Current[a].creds.secret
             IN s \in valid \cup lost \/ InHand(s) \/ Replaced(s, a)
  <2> DEFINE s == Current[a].creds.secret
  <2>0. VaultInv /\ UseInv /\ a \in Alias
    BY <1>1 DEF AllInv, Entries, Keys
  <2>1. ASSUME NEW b, NEW i, NEW old, NEW new, Renewal(Good, Current, b, i, old, new)
        PROVE  \/ s \in Good
               \/ /\ s = old.secret /\ s \in Secrets(b) /\ b \in KeyStore
                  /\ a \in Entries(i) /\ i[a].creds.secret \in Good
    <3>1. CASE Same(Current, i)
      <4>1. a \in Entries(i) /\ Current[a].creds = i[a].creds
        BY <2>0, <3>1, SameIs DEF Entries
      <4> QED BY <2>1, <4>1 DEF Renewal, Pure, Alive
    <3>2. CASE Same(Current, b)
      <4>1. a \in Entries(b) /\ Current[a].creds = b[a].creds
        BY <2>0, <3>2, SameIs DEF Entries
      <4>2. s \in Secrets(b)
        BY <4>1 DEF Secrets, Entries
      <4>3. a \in Entries(i)
        BY <2>0, <2>1, <4>1, RenewedAt DEF Renewal
      <4> QED BY <2>1, <4>1, <4>2, <4>3 DEF Renewal, Pure, Alive
    <3> QED BY <2>1, <3>1, <3>2 DEF Renewal
  <2>2. CASE Settled
    BY <2>0, <2>2 DEF UseInv, Pure, Alive, Good
  <2>3. ASSUME NEW c \in Call, Renewing(c) PROVE s \in Good \/ InHand(s)
    <3> DEFINE r == call[c]
               i == Renewed(r.opbase, r.creds, r.renewed)
    <3>1. Renewal(Good, Current, r.opbase, i, r.creds, r.renewed)
      BY <2>0, <2>3 DEF UseInv, UseOK
    <3>2. r.renewed # NoCreds
      BY <3>1 DEF Renewal, NoCreds
    <3>3. Live(c)
      BY <2>3 DEF Renewing, Live, Over
    <3> HIDE DEF i, r
    <3>4. s \in Good \/ s = r.creds.secret
      BY <2>1, <3>1
    <3> QED BY <3>2, <3>3, <3>4 DEF InHand, r
  <2>4. ASSUME NEW d \in Pending, kind(d) = "refresh" PROVE s \in Good \/ Replaced(s, a)
    <3>1. PICK old \in Creds, new \in Creds :
            Renewal(Good, Current, pending[d].base, pending[d].incoming, old, new)
      BY <2>0, <2>4 DEF UseInv, Waits
    <3>2. \/ s \in Good
          \/ /\ s \in Secrets(pending[d].base) /\ pending[d].base \in KeyStore
             /\ a \in Entries(pending[d].incoming)
             /\ pending[d].incoming[a].creds.secret \in Good
      BY <2>1, <3>1
    <3> QED BY <3>2, VaultAssumption DEF Replaced, Good
  <2> QED BY <2>2, <2>3, <2>4 DEF Settled, Good
<1>2. ASSUME NEW a \in Entries(Current) PROVE a \in Entries(Contents(stored)) /\ stored = Current
  BY DEF Current, Contents, EmptyStore, Entries, Keys
<1>3. AllInv => Usable
  BY <1>1, <1>2 DEF Usable, Current
<1> QED BY <1>3, UseInvariant, PTL
=============================================================================
