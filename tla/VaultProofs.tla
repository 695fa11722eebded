---------------------------- MODULE VaultProofs ----------------------------
(***************************************************************************)
(* The vault, proved for any calls, stores and faults.  VaultInv says      *)
(* where an operation may be, who holds the lock and which sidecars may    *)
(* wait (RecoveryFirst); RefreshInv follows a renewed token to the store   *)
(* or a sidecar (RotationIsDurable), and AckInv a change that will be      *)
(* reported done (AcknowledgedIsKept).                                     *)
(***************************************************************************)
EXTENDS Vault, TLAPS, FiniteSetTheorems

Edited == {"set", "default", "delete"}
Reading == {"read", "refresh"} \cup Outside

(* Which operation gets where, and where it goes on from there. *)
Route(l, r) ==
  LET k == r.op.kind
  IN /\ l = "scan" => k \in Reading
     /\ l \in {"read", "unread"} => k \in Reading \cup Edited
     /\ l \in {"wait", "absorb", "discard"} =>
          \/ r.then = "body" /\ k \in {"refresh", "deleteAll"} \cup Edited
          \/ r.then = "recovered" /\ k \in Reading
          \/ r.then = "write" /\ k \in Outside
          \/ r.then = "read" /\ k \in Edited /\ l # "wait"
     /\ l = "body" => k \in {"refresh", "deleteAll"} \cup Edited
     /\ l \in {"body", "ask", "answered"} => r.then = "body"
     /\ l \in {"ask", "answered", "settle"} => k = "refresh"
     /\ l \in {"persist", "write", "sidecar"} => k \in {"refresh"} \cup Edited \cup Outside
     /\ l = "write" => r.then = "write"
     /\ l \in {"sidecar", "settle"} => r.then \notin {"recovered", "read"}
     /\ l \in {"queue", "check", "compare", "put", "verify"} => k \in Transfers
     /\ l = "release" => \/ r.then \in Over
                         \/ r.then \in {"read", "unread"} /\ k \in Reading
                         \/ r.then = "sidecar" /\ k \in Outside
                         \/ r.then = "queue" /\ k \in Transfers

(* Who has something to store. *)
Carries(l, r) ==
  \/ l \in {"persist", "write", "sidecar", "settle", "queue", "check", "compare", "put"}
  \/ l \in {"wait", "absorb", "discard"} /\ r.then = "write"
  \/ l = "release" /\ r.then \in {"sidecar", "queue"}

Local(l, r) == /\ l \in Labels /\ r \in Calls
               /\ Route(l, r)
               /\ Carries(l, r) => r.incoming \in KeyStore
               /\ l \in {"put", "verify"} => r.base \in KeyStore

LocalInv == \A c \in Call : Local(pc[c], call[c])

(* Who holds the lock: whoever recovers, edits, refreshes or transfers, and *)
(* nobody who only reads.                                                   *)
Locked(l, r) ==
  \/ l \in {"absorb", "discard", "body", "ask", "answered", "settle", "write", "release",
            "check", "compare", "put", "verify"}
  \/ l \in {"read", "unread"} /\ r.op.kind \in Edited
  \/ l \in {"persist", "sidecar"} /\ r.op.kind \in Edited \cup {"refresh"}

LockInv == \A c \in Call : holder = c <=> Locked(pc[c], call[c])

(* The sidecars of transactions; those still to be absorbed are there.      *)
Inside == {d \in Pending : kind(d) \notin Outside}

Recovers(l, r, pend, inside) ==
  /\ l \in {"absorb", "discard"} => r.todo \subseteq pend
  /\ l = "absorb" => inside \subseteq r.todo
  /\ l = "discard" => r.file \notin r.todo /\ inside \subseteq r.todo \cup {r.file}
  /\ \/ l \in {"body", "ask", "answered", "write", "compare", "put", "verify"}
     \/ l \in {"read", "unread"} /\ r.op.kind \in Edited
     \/ l = "persist" /\ r.op.kind \in Edited \cup {"refresh"}
     \/ l \in {"absorb", "discard"} /\ r.then = "read"
     => inside = {}
RecoverInv == \A c \in Call : Recovers(pc[c], call[c], Pending, Inside)

VaultInv == TypeOK /\ LocalInv /\ LockInv /\ RecoverInv

(* A refresh: the credentials it renews are those of the store, what it     *)
(* renewed them to wins over them, and in the end one of the two writes has *)
(* succeeded or the operation fails.                                        *)
Renews(c, a) == LET r == call[c]
                IN r.incoming[a] # NoEntry /\ r.incoming[a].creds = r.renewed
Saved(c) == \/ \E a \in Keys(Contents(stored)) : stored[a].creds = call[c].renewed
            \/ /\ pending[c] # Absent
               /\ \E a \in Keys(pending[c].incoming) : pending[c].incoming[a].creds = call[c].renewed
RefreshOK(c) ==
  LET r == call[c]
  IN /\ pc[c] \in {"ask", "answered"} =>
          /\ stored = r.opbase /\ stored # Absent /\ r.creds.type = "oauth"
          /\ \E a \in Keys(stored) : stored[a].creds = r.creds
     /\ pc[c] = "answered" \/ (kind(c) = "refresh" /\ pc[c] \in {"persist", "write"}) =>
          /\ r.creds.type = "oauth" /\ r.renewed.type = "oauth"
          /\ r.renewed.expires_at > r.creds.expires_at
     /\ kind(c) = "refresh" /\ pc[c] \in {"persist", "write"} =>
          LET base == IF pc[c] = "persist" THEN r.opbase ELSE r.base
          IN /\ base # Absent /\ stored # Absent
             /\ \E a \in Keys(base) : /\ base[a].creds = r.creds /\ Renews(c, a)
                                      /\ stored[a] # NoEntry
                                      /\ stored[a].creds \in {r.creds, r.renewed}
     /\ kind(c) = "refresh" /\ pc[c] = "sidecar" => \E a \in Alias : Renews(c, a)
     /\ pc[c] = "settle" /\ ~r.failure => Saved(c)

RefreshInv == \A c \in Call : RefreshOK(c)

(* The secrets of N are the only ones in a store, among what a call knows   *)
(* (but for its own login, if that is exempt), or anywhere.                 *)
Known(N, s) == \A a \in Keys(Contents(s)) : Contents(s)[a].creds.secret \in N
CallKnown(N, r, exempt) ==
  /\ Known(N, r.opbase) /\ Known(N, r.base)
  /\ r.creds.secret \in N /\ r.renewed.secret \in N
  /\ exempt \/ (Known(N, r.incoming) /\ r.login.secret \in N)
Within(N, c) ==
  /\ Known(N, stored)
  /\ \A p \in Process : Known(N, lastRead[p])
  /\ \A d \in Pending : Known(N, pending[d].base) /\ Known(N, pending[d].incoming)
  /\ \A d \in Call : CallKnown(N, call[d], d = c)

(* No secret is ahead of the server's, and that of a login nobody has seen  *)
(* until it is written.                                                     *)
Early == {"wait", "absorb", "discard", "body", "read", "unread", "persist"}
Unseen(c) == kind(c) = "set" /\ pc[c] \in Early =>
               /\ call[c].login.secret \in 1..issued
               /\ Within(Nat \ {call[c].login.secret}, c)
SecretInv == Within(0..issued, Nobody) /\ \A c \in Call : Unseen(c)

(* What is about to be written contains the change, as seen from its base.  *)
Bears(c, b) ==
  LET r == call[c]
      a == r.op.alias
  IN /\ kind(c) = "set" => /\ r.incoming[a] # NoEntry /\ r.incoming[a].creds = r.login
                           /\ b # Absent => b[a] # r.incoming[a]
     /\ kind(c) = "delete" => b # Absent /\ b[a] # NoEntry /\ r.incoming[a] = NoEntry
     /\ kind(c) = "default" => /\ b # Absent /\ b[a] # NoEntry
                               /\ r.incoming = WithDefault(b, a)
                               /\ stored # Absent /\ (stored = b \/ Defaults(stored) = {a})
AckOK(c) ==
  LET r == call[c]
      a == r.op.alias
  IN /\ pc[c] = "persist" => Bears(c, OwnBase(c))
     /\ pc[c] = "persist" /\ kind(c) \in {"default", "delete"} => r.opbase # Absent
     /\ pc[c] = "write" => Bears(c, r.base)
     /\ pc[c] = "sidecar" => Has(c, r.incoming)
     /\ pc[c] = "release" /\ r.then = "done" =>
          \/ Has(c, Contents(stored))
          \/ pending[c] # Absent /\ Has(c, pending[c].incoming)
AckInv == \A c \in Call : AckOK(c)

-----------------------------------------------------------------------------
(* The merge keeps to key stores. *)
LEMMA UpdatedIn ==
  ASSUME NEW b \in Entry, NEW i \in Entry, NEW c \in Entry
  PROVE  /\ PickNewer(c, i) \in {c, i}
         /\ Updated(b, i, c) \in Entry /\ Updated(b, i, c).creds = PickNewer(c, i).creds
<1>1. PickNewer(c, i) \in {c, i}
  BY DEF PickNewer
<1> QED BY <1>1 DEF Updated, Entry

(* Alias by alias, what the replay of an update gives. *)
LEMMA ReplayAt ==
  ASSUME NEW b \in KeyStore, NEW i \in KeyStore, NEW c \in KeyStore, NEW allow, NEW a \in Alias
  PROVE  LET r == Replay(b, i, c, allow)[a]
         IN /\ r \in Entry \cup {NoEntry}
            /\ a \notin Added(b, i) \cup Modified(b, i) \cup Removed(b, i) => r = c[a]
            /\ a \in Removed(b, i) => r = IF allow THEN NoEntry ELSE c[a]
            /\ a \in Added(b, i) \cup Modified(b, i) =>
                 /\ r # NoEntry
                 /\ c[a] = NoEntry => r = i[a]
                 /\ c[a] # NoEntry => r.creds = PickNewer(c[a], i[a]).creds
<1> DEFINE r == Replay(b, i, c, allow)[a]
<1>0. NoEntry \notin Entry
  BY VaultAssumption
<1>1. b[a] \in Entry \cup {NoEntry} /\ i[a] \in Entry \cup {NoEntry} /\ c[a] \in Entry \cup {NoEntry}
  BY DEF KeyStore
<1>2. CASE a \in Added(b, i)
  <2>1. i[a] \in Entry /\ a \notin Modified(b, i) /\ a \notin Removed(b, i)
    BY <1>1, <1>2 DEF Added, Modified, Removed, Keys
  <2>2. r = IF c[a] = NoEntry THEN i[a] ELSE PickNewer(c[a], i[a])
    BY <1>2, <2>1 DEF Replay
  <2> HIDE DEF r
  <2>3. c[a] # NoEntry => PickNewer(c[a], i[a]) \in {c[a], i[a]}
    BY <1>1, <2>1, UpdatedIn
  <2>4. r \in Entry /\ r # NoEntry
    BY <1>0, <1>1, <2>1, <2>2, <2>3
  <2> QED BY <1>2, <2>1, <2>2, <2>4 DEF r
<1>3. CASE a \in Modified(b, i)
  <2>1. i[a] \in Entry /\ b[a] \in Entry /\ a \notin Added(b, i) /\ a \notin Removed(b, i)
    BY <1>1, <1>3 DEF Added, Modified, Removed, Keys
  <2>2. r = IF c[a] = NoEntry THEN i[a] ELSE Updated(b[a], i[a], c[a])
    BY <1>3, <2>1 DEF Replay
  <2> HIDE DEF r
  <2>3. c[a] # NoEntry => Updated(b[a], i[a], c[a]) \in Entry
                          /\ Updated(b[a], i[a], c[a]).creds = PickNewer(c[a], i[a]).creds
    BY <1>1, <2>1, UpdatedIn
  <2>4. r \in Entry /\ r # NoEntry
    BY <1>0, <1>1, <2>1, <2>2, <2>3
  <2> QED BY <1>3, <2>1, <2>2, <2>3, <2>4 DEF r
<1>4. CASE a \in Removed(b, i)
  <2>1. a \notin Added(b, i) /\ a \notin Modified(b, i)
    BY <1>4 DEF Added, Modified, Removed, Keys
  <2>2. r = IF allow THEN NoEntry ELSE c[a]
    BY <1>4, <2>1 DEF Replay
  <2> QED BY <1>1, <1>4, <2>1, <2>2
<1>5. CASE a \notin Added(b, i) \cup Modified(b, i) \cup Removed(b, i)
  <2>1. r = c[a]
    BY <1>5 DEF Replay
  <2> QED BY <1>1, <1>5, <2>1
<1> QED BY <1>2, <1>3, <1>4, <1>5

(* A choice of the default leaves keys and credentials alone. *)
LEMMA NormalizeAt ==
  ASSUME NEW s \in KeyStore, NEW preferred, NEW m \in Normalize(s, preferred)
  PROVE  m \in KeyStore /\ \A a \in Alias : SameCreds(m[a], s[a])
<1>0. NoEntry \notin Entry
  BY VaultAssumption
<1>1. CASE Keys(s) = {}
  BY <1>1 DEF Normalize, SameCreds
<1>2. CASE Keys(s) # {}
  <2>1. PICK w : m = WithDefault(s, w)
    BY <1>2 DEF Normalize
  <2>2. ASSUME NEW a \in Alias PROVE m[a] \in Entry \cup {NoEntry} /\ SameCreds(m[a], s[a])
    <3>1. m[a] = IF s[a] = NoEntry THEN NoEntry ELSE [s[a] EXCEPT !.isDefault = (a = w)]
      BY <2>1 DEF WithDefault
    <3>2. s[a] \in Entry \cup {NoEntry}
      BY DEF KeyStore
    <3>3. CASE s[a] = NoEntry
      BY <3>1, <3>3 DEF SameCreds
    <3>4. CASE s[a] # NoEntry
      <4>1. m[a] \in Entry /\ m[a].creds = s[a].creds
        BY <3>1, <3>2, <3>4 DEF Entry
      <4> QED BY <1>0, <3>4, <4>1 DEF SameCreds
    <3> QED BY <3>3, <3>4
  <2>3. m = [a \in Alias |-> m[a]]
    BY <2>1 DEF WithDefault
  <2> QED BY <2>2, <2>3 DEF KeyStore
<1> QED BY <1>1, <1>2

LEMMA MergeAt ==
  ASSUME NEW b \in KeyStore, NEW i \in KeyStore, NEW c \in KeyStore, NEW allow,
         NEW m \in MergeKeyStores(b, i, c, allow)
  PROVE  m \in KeyStore /\ \A a \in Alias : SameCreds(m[a], Replay(b, i, c, allow)[a])
<1> DEFINE r == Replay(b, i, c, allow)
<1>1. r \in KeyStore
  <2>1. \A a \in Alias : r[a] \in Entry \cup {NoEntry}
    BY ReplayAt
  <2>2. r = [a \in Alias |-> r[a]]
    BY DEF Replay
  <2> QED BY <2>1, <2>2 DEF KeyStore
<1>2. \E preferred : m \in Normalize(r, preferred)
  BY DEF MergeKeyStores
<1> HIDE DEF r
<1>3. m \in KeyStore /\ \A a \in Alias : SameCreds(m[a], r[a])
  BY <1>1, <1>2, NormalizeAt
<1> QED BY <1>3 DEF r

(* What a merge may flag is a key store, too. *)
LEMMA FlaggedType ==
  ASSUME NEW b \in KeyStore, NEW i \in KeyStore, NEW c \in KeyStore, NEW m \in KeyStore
  PROVE  Flagged(b, i, c, m) \in KeyStore
<1>1. \A a \in Alias : m[a] \in Entry \cup {NoEntry} /\ i[a] \in Entry \cup {NoEntry}
  BY DEF KeyStore
<1> QED BY <1>1 DEF Flagged, KeyStore

-----------------------------------------------------------------------------
LEMMA ClearedType ==
  ASSUME NEW c \in Call, call[c] \in Calls
  PROVE  /\ Cleared(c) \in Calls /\ Cleared(c).op = call[c].op
         /\ NoCreds \in Creds /\ Cleared(c).renewed = NoCreds
<1>1. NoCreds \in Creds
  BY DEF NoCreds, Creds
<1>2. /\ Absent \in Image /\ call[c].op \in Op /\ "done" \in Labels \cup {"recovered"}
      /\ 0 \in 0..2 /\ {} \in SUBSET Call
  BY DEF Image, Labels, Over, Calls
<1> QED BY <1>1, <1>2 DEF Cleared, NoCall, Calls

(* The state apart from the calls. *)
Globals ==
  /\ stored \in Image
  /\ pending \in [Call -> Sidecars \cup {Absent}]
  /\ holder \in Call \cup {Nobody}
  /\ now \in 0..MaxTime
  /\ valid \in SUBSET Nat /\ issued \in Nat /\ lost \in SUBSET Nat
  /\ lastRead \in [Process -> Image]
  /\ observed \in [Process -> SUBSET (Creds \X Alias)]

(* A step of one call takes it to a label, with other locals; what suits    *)
(* them is all there is to show of such a step.                             *)
Goes(c, l, r) == pc' = [pc EXCEPT ![c] = l] /\ call' = [call EXCEPT ![c] = r]
Fits(c, l, r) == Local(l, r) /\ r.op = call[c].op /\ Recovers(l, r, Pending, Inside)
Locks(c, l, r) ==
  \/ holder' = holder /\ (Locked(l, r) <=> Locked(pc[c], call[c]))
  \/ holder = Nobody /\ holder' = c /\ Locked(l, r)
  \/ holder = c /\ holder' = Nobody /\ ~Locked(l, r)

LEMMA Gone ==
  ASSUME VaultInv, NEW c \in Call, NEW l, NEW r, Goes(c, l, r)
  PROVE  /\ pc'[c] = l /\ call'[c] = r
         /\ \A d \in Call \ {c} : pc'[d] = pc[d] /\ call'[d] = call[d]
  BY DEF Goes, VaultInv, TypeOK

LEMMA StepLocal ==
  ASSUME VaultInv, NEW c \in Call, NEW l, NEW r, Goes(c, l, r), Local(l, r), r.op = call[c].op,
         Locks(c, l, r), Globals'
  PROVE  TypeOK' /\ LocalInv' /\ LockInv' /\ \A d \in Call : call'[d].op = call[d].op
<1>1. /\ pc'[c] = l /\ call'[c] = r
      /\ \A d \in Call \ {c} : pc'[d] = pc[d] /\ call'[d] = call[d]
  BY Gone
<1>2. l \in Labels /\ r \in Calls
  BY DEF Local
<1>3. TypeOK'
  BY <1>2 DEF Globals, TypeOK, VaultInv, Goes
<1>4. LocalInv'
  BY <1>1 DEF LocalInv, VaultInv
<1>5. Nobody \notin Call
  BY VaultAssumption
<1>6. LockInv'
  <2> SUFFICES ASSUME NEW d \in Call PROVE holder' = d <=> Locked(pc'[d], call'[d])
    BY DEF LockInv
  <2>1. \A e \in Call : holder = e <=> Locked(pc[e], call[e])
    BY DEF VaultInv, LockInv
  <2>2. CASE d = c
    BY <1>1, <1>5, <2>1, <2>2 DEF Locks
  <2>3. CASE d # c
    BY <1>1, <1>5, <2>1, <2>3 DEF Locks
  <2> QED BY <2>2, <2>3
<1> QED BY <1>1, <1>3, <1>4, <1>6

(* The sidecars stay as they are. *)
LEMMA StepQuiet ==
  ASSUME VaultInv, NEW c \in Call, NEW l, NEW r, Goes(c, l, r), Fits(c, l, r), Locks(c, l, r),
         Globals', UNCHANGED pending
  PROVE  VaultInv'
<1>1. TypeOK' /\ LocalInv' /\ LockInv' /\ \A d \in Call : call'[d].op = call[d].op
  BY StepLocal DEF Fits
<1>2. Pending' = Pending /\ Inside' = Inside
  BY <1>1 DEF Pending, Inside, kind
<1>3. /\ pc'[c] = l /\ call'[c] = r
      /\ \A d \in Call \ {c} : pc'[d] = pc[d] /\ call'[d] = call[d]
  BY Gone
<1>4. RecoverInv'
  BY <1>2, <1>3 DEF RecoverInv, VaultInv, Fits
<1> QED BY <1>1, <1>4 DEF VaultInv

LEMMA NotLockedRecovers ==
  ASSUME NEW l, NEW r, ~Locked(l, r), NEW pend, NEW inside
  PROVE  Recovers(l, r, pend, inside)
  BY DEF Locked, Recovers

-----------------------------------------------------------------------------
(* What is known of a call that acts. *)
LEMMA Acts ==
  ASSUME VaultInv, NEW c \in Call
  PROVE  /\ Globals /\ pc[c] \in Labels /\ call[c] \in Calls
         /\ call[c].op \in Op /\ kind(c) = call[c].op.kind /\ ProcOf(c) \in Process
         /\ Local(pc[c], call[c]) /\ Recovers(pc[c], call[c], Pending, Inside)
         /\ holder = c <=> Locked(pc[c], call[c])
  BY DEF VaultInv, TypeOK, Globals, LocalInv, LockInv, RecoverInv, kind, ProcOf, Calls, Op

(* An exception that is thrown with the lock held. *)
LEMMA ThrowGoes ==
  ASSUME VaultInv, NEW c \in Call, Throw(c),
         pc[c] \in {"absorb", "discard", "body", "ask", "answered", "settle"}
  PROVE  \E l, r : /\ Goes(c, l, r) /\ Fits(c, l, r) /\ Locked(l, r) /\ holder = c
                   /\ l \in {"unread", "release"} /\ (l = "release" => r.then # "done")
<1>0. Route(pc[c], call[c]) /\ call[c] \in Calls /\ Locked(pc[c], call[c]) /\ holder = c
  BY Acts DEF Local, Locked
<1>1. CASE call[c].then = "read"
  <2>1. Goes(c, "unread", call[c])
    BY <1>1, Acts DEF Throw, Goto, Goes, VaultInv, TypeOK
  <2>2. kind(c) \in Edited
    BY <1>0, <1>1, Acts DEF Route, Outside, Reading, Edited
  <2>3. Fits(c, "unread", call[c])
    BY <1>0, <1>1, <2>2, Acts DEF Fits, Local, Route, Carries, Recovers, Labels
  <2> QED BY <1>0, <2>1, <2>2, <2>3, Acts DEF Locked
<1>2. CASE call[c].then # "read"
  <2> DEFINE r == [call[c] EXCEPT !.then = Handler(c)]
  <2>1. Goes(c, "release", r)
    BY <1>2 DEF Throw, Leave, Goto, Goes
  <2>2. Handler(c) \in {"unread", "sidecar", "failed"}
    BY DEF Handler
  <2>3. r \in Calls /\ r.then = Handler(c) /\ r.op = call[c].op /\ r.incoming = call[c].incoming
    BY <1>0, <2>2 DEF Calls, Labels, Over
  <2> HIDE DEF r
  <2>4. Route("release", r)
    BY <1>0, <1>2, <2>2, <2>3, Acts DEF Route, Handler, Over
  <2>5. Handler(c) = "sidecar" => call[c].incoming \in KeyStore
    <3>1. Handler(c) = "sidecar" => call[c].then = "write" /\ kind(c) \in Outside
      BY DEF Handler
    <3>2. kind(c) \in Outside => pc[c] \in {"absorb", "discard"}
      BY <1>0, Acts DEF Route, Outside, Edited
    <3> QED BY <3>1, <3>2, Acts DEF Local, Carries
  <2>6. Fits(c, "release", r)
    BY <2>2, <2>3, <2>4, <2>5 DEF Fits, Local, Carries, Recovers, Labels
  <2> QED BY <1>0, <2>1, <2>2, <2>3, <2>6 DEF Locked
<1> QED BY <1>1, <1>2

Moves(c) == \E l, r : Goes(c, l, r) /\ Fits(c, l, r) /\ Locks(c, l, r)

LEMMA MoveQuiet ==
  ASSUME VaultInv, NEW c \in Call, Moves(c), Globals', UNCHANGED pending
  PROVE  VaultInv'
BY StepQuiet DEF Moves

LEMMA ThrowMoves ==
  ASSUME VaultInv, NEW c \in Call, Throw(c), UNCHANGED holder,
         pc[c] \in {"absorb", "discard", "body", "ask", "answered", "settle"}
  PROVE  Moves(c)
<1>1. Locked(pc[c], call[c])
  BY DEF Locked
<1> QED BY <1>1, ThrowGoes DEF Moves, Locks

(* The lock is left, to end or to go on without it. *)
LEMMA LeaveMoves ==
  ASSUME VaultInv, NEW c \in Call, NEW next, Leave(c, next), UNCHANGED holder, holder = c,
         \/ next \in {"done", "failed"}
         \/ next = "read" /\ kind(c) \in Reading
  PROVE  Moves(c)
<1> DEFINE r == [call[c] EXCEPT !.then = next]
<1>1. Goes(c, "release", r)
  BY DEF Leave, Goto, Goes
<1>2. r \in Calls /\ r.then = next /\ r.op = call[c].op
  BY Acts DEF Calls, Labels, Over
<1> HIDE DEF r
<1>3. Fits(c, "release", r)
  BY <1>2, Acts DEF Fits, Local, Route, Carries, Recovers, Labels, Over
<1>4. Locks(c, "release", r)
  BY Acts DEF Locks, Locked
<1> QED BY <1>1, <1>3, <1>4 DEF Moves

LEMMA EndMoves ==
  ASSUME VaultInv, NEW c \in Call, NEW outcome \in Over, End(c, outcome),
         \/ holder # c /\ UNCHANGED holder
         \/ holder = c /\ holder' = Nobody
  PROVE  Moves(c)
<1>1. Goes(c, outcome, Cleared(c))
  BY DEF End, Goto, Goes
<1>2. Cleared(c) \in Calls /\ Cleared(c).op = call[c].op
  BY ClearedType, Acts
<1>3. Fits(c, outcome, Cleared(c)) /\ ~Locked(outcome, Cleared(c))
  BY <1>2 DEF Fits, Local, Route, Carries, Recovers, Labels, Over, Locked
<1>4. Locks(c, outcome, Cleared(c))
  BY <1>3, Acts DEF Locks
<1> QED BY <1>1, <1>3, <1>4 DEF Moves

-----------------------------------------------------------------------------
LEMMA BeginStep ==
  ASSUME VaultInv, NEW c \in Call, Begin(c)
  PROVE  VaultInv'
<1> DEFINE l == IF kind(c) \in {"read", "refresh"} \cup Outside THEN "scan" ELSE "wait"
<1>1. PICK login \in Login(call[c].op) :
        /\ call' = [call EXCEPT ![c].login = login, ![c].then = "body"]
        /\ issued' = IF login = NoCreds THEN issued ELSE issued + 1
        /\ valid' = valid \cup ({login.secret} \ {0})
        /\ pc' = [pc EXCEPT ![c] = l]
  BY DEF Begin, Goto
<1> DEFINE r == [call[c] EXCEPT !.login = login, !.then = "body"]
<1>2. login \in Creds
  <2>1. now \in Nat /\ issued + 1 \in Nat /\ Lifetimes \subseteq Nat /\ call[c].op.type \in {"oauth", "basic"}
    BY VaultAssumption, Acts DEF Globals, Op
  <2>2. NoCreds \in Creds
    BY DEF NoCreds, Creds
  <2> QED BY <1>1, <2>1, <2>2 DEF Login, Creds
<1>3. Globals'
  BY <1>1, <1>2, Acts DEF Begin, Globals, Creds, disk, memory
<1>4. r \in Calls /\ r.then = "body" /\ r.op = call[c].op
  <2>1. "body" \in Labels /\ call[c] \in Calls
    BY Acts DEF Labels
  <2> QED BY <1>2, <2>1 DEF Calls
<1>5. Goes(c, l, r)
  BY <1>1 DEF Goes
<1>6. ~Locked("idle", call[c]) /\ l \in {"scan", "wait"} /\ ~Locked(l, r)
  BY DEF Locked
<1>7. Fits(c, l, r)
  <2>1. kind(c) \in Kinds \ Transfers
    BY Acts DEF Begin, Op
  <2> HIDE DEF r
  <2>2. Route(l, r)
    BY <1>4, <2>1, Acts DEF Route, Kinds, Reading, Edited
  <2> QED BY <1>4, <2>2, <1>6, NotLockedRecovers DEF Fits, Local, Carries, Labels
<1>8. Moves(c)
  BY <1>5, <1>6, <1>7 DEF Begin, Locks, Moves
<1> QED BY <1>3, <1>8, MoveQuiet DEF Begin, disk

LEMMA ScanStep ==
  ASSUME VaultInv, NEW c \in Call, Scan(c)
  PROVE  VaultInv'
<1>1. Globals' /\ UNCHANGED <<pending, holder>>
  BY Acts DEF Scan, Globals, disk, server, memory
<1>2. kind(c) \in Reading /\ ~Locked("scan", call[c]) /\ Reading \cap Edited = {}
  BY Acts DEF Scan, Local, Route, Locked, Reading, Edited, Outside
<1>3. CASE Pending = {}
  <2>1. Goes(c, "read", call[c])
    BY <1>3, Acts DEF Scan, Goto, Goes, VaultInv, TypeOK
  <2>2. ~Locked("read", call[c])
    BY <1>2, Acts DEF Locked
  <2>3. Fits(c, "read", call[c])
    BY <1>2, <2>2, NotLockedRecovers, Acts DEF Fits, Local, Route, Carries, Labels
  <2> QED BY <1>1, <1>2, <2>1, <2>2, <2>3, MoveQuiet DEF Scan, Locks, Moves
<1>4. CASE Pending # {}
  <2> DEFINE r == [call[c] EXCEPT !.then = "recovered"]
  <2>1. Goes(c, "wait", r)
    BY <1>4 DEF Scan, Goto, Goes
  <2>2. r \in Calls /\ r.then = "recovered" /\ r.op = call[c].op
    BY Acts DEF Calls, Labels
  <2> HIDE DEF r
  <2>3. ~Locked("wait", r)
    BY DEF Locked
  <2>4. Fits(c, "wait", r)
    BY <1>2, <2>2, <2>3, NotLockedRecovers, Acts DEF Fits, Local, Route, Carries, Labels
  <2> QED BY <1>1, <1>2, <2>1, <2>3, <2>4, MoveQuiet DEF Scan, Locks, Moves
<1> QED BY <1>3, <1>4

LEMMA AcquireStep ==
  ASSUME VaultInv, NEW c \in Call, Acquire(c)
  PROVE  VaultInv'
<1> DEFINE r == [call[c] EXCEPT !.todo = Pending]
<1>1. Globals' /\ UNCHANGED pending /\ Goes(c, "absorb", r)
  BY Acts DEF Acquire, Globals, disk, server, memory, Goto, Goes
<1>2. r \in Calls /\ r.todo = Pending /\ r.op = call[c].op /\ r.then = call[c].then
      /\ r.incoming = call[c].incoming
  <2>1. Pending \in SUBSET Call
    BY DEF Pending
  <2> QED BY <2>1, Acts DEF Calls
<1> HIDE DEF r
<1>3. Route("wait", call[c]) /\ r.then # "read"
  BY <1>2, Acts DEF Acquire, Local, Route
<1>4. Local("absorb", r)
  BY <1>2, <1>3, Acts DEF Acquire, Local, Route, Carries, Labels
<1>5. Fits(c, "absorb", r)
  BY <1>2, <1>3, <1>4 DEF Fits, Recovers, Inside
<1>6. Locks(c, "absorb", r)
  BY DEF Acquire, Locks, Locked
<1> QED BY <1>1, <1>5, <1>6, MoveQuiet DEF Moves

LEMMA TimeOutStep ==
  ASSUME VaultInv, NEW c \in Call, TimeOut(c)
  PROVE  VaultInv'
<1>1. Globals' /\ UNCHANGED <<pending, holder>>
  BY Acts DEF TimeOut, Globals, disk, server, memory
<1>2. Route("wait", call[c]) /\ ~Locked("wait", call[c]) /\ holder # c
  BY Acts DEF TimeOut, Local, Locked
<1>3. CASE Handler(c) = "failed"
  BY <1>1, <1>2, <1>3, EndMoves, MoveQuiet DEF TimeOut, Over
<1>4. CASE Handler(c) # "failed"
  <2>1. Goes(c, Handler(c), call[c])
    BY <1>4, Acts DEF TimeOut, Goto, Goes, VaultInv, TypeOK
  <2>2. \/ Handler(c) = "unread" /\ kind(c) \in Reading
        \/ Handler(c) = "sidecar" /\ kind(c) \in Outside /\ call[c].then = "write"
    BY <1>2, <1>4, Acts DEF Handler, Route
  <2>3. ~Locked(Handler(c), call[c])
    BY <2>2, Acts DEF Locked, Reading, Outside, Edited
  <2>4. Local(Handler(c), call[c])
    BY <2>2, Acts DEF TimeOut, Local, Route, Carries, Labels
  <2>5. Fits(c, Handler(c), call[c])
    BY <2>3, <2>4, NotLockedRecovers DEF Fits
  <2> QED BY <1>1, <1>2, <2>1, <2>3, <2>5, MoveQuiet DEF TimeOut, Locks, Moves
<1> QED BY <1>3, <1>4

LEMMA ReleaseStep ==
  ASSUME VaultInv, NEW c \in Call, Release(c)
  PROVE  VaultInv'
<1>1. Globals' /\ UNCHANGED pending /\ holder' = Nobody
  BY Acts DEF Release, Globals, disk, server, memory
<1>2. Route("release", call[c]) /\ holder = c
  BY Acts DEF Release, Local, Locked
<1>3. CASE call[c].then \in Over
  BY <1>1, <1>2, <1>3, EndMoves, MoveQuiet DEF Release
<1>4. CASE call[c].then \notin Over
  <2> DEFINE l == call[c].then
  <2>1. Goes(c, l, call[c])
    BY <1>4, Acts DEF Release, Goto, Goes, VaultInv, TypeOK
  <2>2. \/ l \in {"read", "unread"} /\ kind(c) \in Reading
        \/ l = "sidecar" /\ kind(c) \in Outside
        \/ l = "queue" /\ kind(c) \in Transfers
    BY <1>2, <1>4, Acts DEF Route
  <2>3. ~Locked(l, call[c])
    BY <2>2, Acts DEF Locked, Reading, Outside, Edited
  <2>4. Local(l, call[c])
    BY <2>2, Acts DEF Release, Local, Route, Carries, Labels
  <2>5. Fits(c, l, call[c])
    BY <2>3, <2>4, NotLockedRecovers DEF Fits
  <2> QED BY <1>1, <1>2, <2>1, <2>3, <2>5, MoveQuiet DEF Locks, Moves
<1> QED BY <1>3, <1>4

LEMMA ContentsType ==
  ASSUME VaultAssumption, NEW s \in Image
  PROVE  Contents(s) \in KeyStore
<1>1. EmptyStore \in KeyStore
  BY DEF EmptyStore, KeyStore
<1> QED BY <1>1 DEF Contents, Image

LEMMA AbsorbStep ==
  ASSUME VaultInv, NEW c \in Call, NEW d \in Call, Absorb(c, d)
  PROVE  VaultInv'
<1>1. /\ holder = c /\ Route("absorb", call[c]) /\ call[c] \in Calls
      /\ Recovers("absorb", call[c], Pending, Inside) /\ Local("absorb", call[c])
  BY Acts DEF Absorb, Local, Locked
<1>2. d \in call[c].todo /\ call[c].todo \in SUBSET Call /\ pending[d] \in Sidecars
  BY <1>1, Acts DEF Absorb, Oldest, Recovers, Pending, Globals, Calls
<1> DEFINE current == Contents(stored)
           p == pending[d]
<1>3. current \in KeyStore /\ BaseOr(p.base, current) \in KeyStore /\ p.incoming \in KeyStore
  <2>1. current \in KeyStore
    BY ContentsType, VaultAssumption, Acts DEF Globals
  <2> QED BY <1>2, <2>1 DEF BaseOr, Sidecars, Image
<1>4. PICK merged \in MergeKeyStores(BaseOr(p.base, current), p.incoming, current, p.allowRemovals) :
          \/ /\ stored' = merged
             /\ Goto(c, "discard")
             /\ call' = [call EXCEPT ![c].todo = @ \ {d}, ![c].file = d]
          \/ /\ \/ Fault(c, "commit") /\ stored' = merged
                \/ (Fault(c, "write") \/ Fault(c, "read")) /\ stored' = stored
             /\ Throw(c)
  BY DEF Absorb
<1> HIDE DEF current, p
<1>5. merged \in KeyStore
  BY <1>3, MergeAt
<1>6. Globals' /\ UNCHANGED <<pending, holder>>
  BY <1>4, <1>5, Acts DEF Absorb, Globals, Image, server, memory
<1>7. CASE Throw(c)
  BY <1>6, <1>7, ThrowMoves, MoveQuiet DEF Absorb
<1>8. CASE Goto(c, "discard") /\ call' = [call EXCEPT ![c].todo = @ \ {d}, ![c].file = d]
  <2> DEFINE r == [call[c] EXCEPT !.todo = @ \ {d}, !.file = d]
  <2>1. Goes(c, "discard", r)
    BY <1>8 DEF Goto, Goes
  <2>2. /\ r \in Calls /\ r.todo = call[c].todo \ {d} /\ r.file = d /\ r.op = call[c].op
        /\ r.then = call[c].then /\ r.incoming = call[c].incoming
    BY <1>1, <1>2 DEF Calls
  <2> HIDE DEF r
  <2>3. Local("discard", r)
    BY <1>1, <2>2 DEF Local, Route, Carries, Labels
  <2>4. Recovers("discard", r, Pending, Inside)
    BY <1>1, <1>2, <2>2 DEF Recovers
  <2>5. Locks(c, "discard", r)
    BY <1>6 DEF Absorb, Locks, Locked
  <2> QED BY <1>6, <2>1, <2>2, <2>3, <2>4, <2>5, MoveQuiet DEF Fits, Moves
<1> QED BY <1>4, <1>7, <1>8

LEMMA DiscardStep ==
  ASSUME VaultInv, NEW c \in Call, Discard(c)
  PROVE  VaultInv'
<1>1. /\ holder = c /\ Route("discard", call[c]) /\ call[c] \in Calls
      /\ Recovers("discard", call[c], Pending, Inside) /\ Local("discard", call[c])
  BY Acts DEF Discard, Local, Locked
<1>2. CASE Throw(c) /\ UNCHANGED pending
  <2>1. Globals'
    BY <1>2, Acts DEF Discard, Globals, server, memory
  <2> QED BY <1>2, <2>1, ThrowMoves, MoveQuiet DEF Discard
<1>3. CASE /\ pending' = [pending EXCEPT ![call[c].file] = Absent]
           /\ Goto(c, "absorb") /\ UNCHANGED call
  <2>1. Globals'
    BY <1>3, Acts DEF Discard, Globals, server, memory
  <2>2. Goes(c, "absorb", call[c])
    BY <1>3, Acts DEF Goto, Goes, VaultInv, TypeOK
  <2>3. Local("absorb", call[c])
    BY <1>1 DEF Local, Route, Carries, Labels
  <2>4. Locks(c, "absorb", call[c])
    BY DEF Discard, Locks, Locked
  <2>5. TypeOK' /\ LocalInv' /\ LockInv' /\ \A d \in Call : call'[d].op = call[d].op
    BY <2>1, <2>2, <2>3, <2>4, StepLocal
  <2>6. Pending' = Pending \ {call[c].file} /\ Inside' = Inside \ {call[c].file}
    BY <1>3, <2>5, Acts DEF Pending, Inside, Globals, kind
  <2>7. /\ pc'[c] = "absorb" /\ call'[c] = call[c]
        /\ \A d \in Call \ {c} : pc'[d] = pc[d] /\ call'[d] = call[d]
    BY <2>2, Gone
  <2>8. ASSUME NEW d \in Call PROVE Recovers(pc'[d], call'[d], Pending', Inside')
    <3>1. CASE d = c
      BY <1>1, <2>6, <2>7, <3>1 DEF Recovers
    <3>2. CASE d # c
      <4>1. ~Locked(pc'[d], call'[d])
        BY <1>1, <2>5, <3>2 DEF Discard, LockInv
      <4> QED BY <4>1, NotLockedRecovers
    <3> QED BY <3>1, <3>2
  <2> QED BY <2>5, <2>8 DEF VaultInv, RecoverInv
<1> QED BY <1>2, <1>3 DEF Discard

LEMMA AbsorbedStep ==
  ASSUME VaultInv, NEW c \in Call, Absorbed(c)
  PROVE  VaultInv'
<1>1. Globals' /\ UNCHANGED <<pending, holder>>
  BY Acts DEF Absorbed, Globals, disk, server, memory
<1>2. /\ holder = c /\ Route("absorb", call[c]) /\ Inside = {}
      /\ Local("absorb", call[c])
  BY Acts DEF Absorbed, Local, Locked, Recovers
<1>3. CASE call[c].then = "recovered"
  <2>1. kind(c) \in Reading
    BY <1>2, <1>3, Acts DEF Route
  <2> QED BY <1>1, <1>2, <1>3, <2>1, LeaveMoves, MoveQuiet DEF Absorbed
<1>4. CASE call[c].then # "recovered"
  <2> DEFINE l == call[c].then
  <2>1. Goes(c, l, call[c])
    BY <1>4, Acts DEF Absorbed, Goto, Goes, VaultInv, TypeOK
  <2>2. \/ l = "body" /\ kind(c) \in {"refresh", "deleteAll"} \cup Edited
        \/ l = "write" /\ kind(c) \in Outside
        \/ l = "read" /\ kind(c) \in Edited
    BY <1>2, <1>4, Acts DEF Route
  <2>3. Local(l, call[c])
    BY <1>2, <2>2, Acts DEF Local, Route, Carries, Labels
  <2>4. Fits(c, l, call[c])
    BY <1>2, <2>2, <2>3 DEF Fits, Recovers
  <2>5. Locked(l, call[c]) /\ Locked("absorb", call[c])
    BY <2>2, Acts DEF Locked
  <2> QED BY <1>1, <2>1, <2>4, <2>5, MoveQuiet DEF Absorbed, Locks, Moves
<1> QED BY <1>3, <1>4

LEMMA GetStep ==
  ASSUME VaultInv, NEW c \in Call, Get(c)
  PROVE  VaultInv'
<1> DEFINE r == [call[c] EXCEPT !.todo = Pending, !.then = "read"]
<1>1. Globals' /\ UNCHANGED <<pending, holder>>
  BY Acts DEF Get, Globals, disk, server, memory
<1>2. Goes(c, "absorb", r)
  BY DEF Get, Goto, Goes
<1>3. call[c] \in Calls /\ Pending \in SUBSET Call /\ "read" \in Labels /\ Inside = {}
  BY Acts DEF Get, Pending, Labels, Recovers
<1>4. r \in Calls /\ r.todo = Pending /\ r.then = "read" /\ r.op = call[c].op
  BY <1>3 DEF Calls
<1> HIDE DEF r
<1>5. Local("absorb", r)
  BY <1>4, Acts DEF Get, Local, Route, Carries, Labels, Edited
<1>6. Fits(c, "absorb", r)
  BY <1>3, <1>4, <1>5 DEF Fits, Recovers
<1>7. Locks(c, "absorb", r)
  BY <1>1 DEF Get, Locks, Locked
<1> QED BY <1>1, <1>2, <1>6, <1>7, MoveQuiet DEF Moves

(* What the SDK makes of a store is a store. *)
LEMMA StoredType ==
  ASSUME VaultAssumption, NEW c \in Call, call[c] \in Calls, NEW s \in KeyStore
  PROVE  Stored(c, s) \in KeyStore
<1>1. call[c].login \in Creds /\ call[c].op.default \in BOOLEAN
  <2>1. NoCreds \in Creds
    BY DEF NoCreds, Creds
  <2> QED BY <2>1 DEF Calls, Op
<1>2. ASSUME NEW a \in Alias PROVE Stored(c, s)[a] \in Entry \cup {NoEntry}
  <2> DEFINE new == [creds |-> call[c].login, isDefault |-> call[c].op.default]
             old == [s[a] EXCEPT !.isDefault = FALSE]
  <2>1. s[a] \in Entry \cup {NoEntry} /\ new \in Entry /\ (s[a] # NoEntry => old \in Entry)
    BY <1>1 DEF KeyStore, Entry
  <2>2. Stored(c, s)[a] = IF a = call[c].op.alias THEN new
                          ELSE IF call[c].op.default /\ s[a] # NoEntry THEN old ELSE s[a]
    BY Zenon DEF Stored
  <2> HIDE DEF new, old
  <2> QED BY <2>1, <2>2
<1>3. Stored(c, s) = [a \in Alias |-> Stored(c, s)[a]]
  BY DEF Stored
<1> QED BY <1>2, <1>3 DEF KeyStore

LEMMA EditsType ==
  ASSUME VaultInv, NEW c \in Call, NEW s \in KeyStore, NEW edit \in Edits(c, s)
  PROVE  edit \in KeyStore
<1>1. Stored(c, s) \in KeyStore
  BY StoredType, VaultAssumption, Acts
<1>2. Without(call[c].op.alias, s) \in KeyStore
  BY DEF Without, KeyStore
<1>3. \/ edit = Stored(c, s) \/ edit = Without(call[c].op.alias, s)
      \/ edit \in Normalize(s, {call[c].op.alias})
      \/ edit \in Normalize(Without(call[c].op.alias, s), {})
  BY DEF Edits
<1> QED BY <1>1, <1>2, <1>3, NormalizeAt

LEMMA RememberType ==
  ASSUME NEW p \in Process, NEW s \in KeyStore, Remember(p, s),
         observed \in [Process -> SUBSET (Creds \X Alias)]
  PROVE  observed' \in [Process -> SUBSET (Creds \X Alias)]
<1>1. ASSUME NEW a \in Entries(s) PROVE s[a].creds \in Creds /\ a \in Alias
  BY DEF Entries, Keys, KeyStore, Entry
<1>2. {<<s[a].creds, a>> : a \in Entries(s)} \in SUBSET (Creds \X Alias)
  BY <1>1
<1> QED BY <1>2 DEF Remember

LEMMA ReadStep ==
  ASSUME VaultInv, NEW c \in Call, Read(c)
  PROVE  VaultInv'
<1> DEFINE s == Contents(stored)
           a == call[c].op.alias
           base == IF holder = c THEN stored ELSE Absent
<1>1. /\ s \in KeyStore /\ stored \in Image /\ base \in Image /\ call[c] \in Calls /\ a \in Alias
      /\ Route("read", call[c]) /\ Recovers("read", call[c], Pending, Inside)
  <2>1. stored \in Image /\ Absent \in Image
    BY Acts DEF Globals, Image
  <2>2. call[c].op.alias \in Alias
    BY Acts DEF Op
  <2> QED BY <2>1, <2>2, ContentsType, VaultAssumption, Acts DEF Read, Local
<1>2. Globals' /\ UNCHANGED <<pending, holder>>
  <2>1. observed' \in [Process -> SUBSET (Creds \X Alias)]
    BY <1>1, RememberType, Acts DEF Read, Globals
  <2> QED BY <2>1, Acts DEF Read, Globals, disk, server
<1>3. \/ /\ kind(c) \in {"read", "refresh"} /\ End(c, "done")
      \/ /\ kind(c) = "refresh" /\ InRefreshWindow(s, a)
         /\ call' = [call EXCEPT ![c].creds = s[a].creds, ![c].then = "body"]
         /\ Goto(c, "wait")
      \/ /\ kind(c) \in {"default", "delete"} /\ Leave(c, "done")
      \/ /\ kind(c) \notin {"read", "refresh"}
         /\ \E edit \in Edits(c, s) :
                call' = [call EXCEPT ![c].incoming = edit, ![c].opbase = base, ![c].base = stored]
         /\ Goto(c, "persist")
  BY DEF Read
<1>4. holder = c <=> kind(c) \in Edited
  BY Acts DEF Read, Locked
<1> HIDE DEF s, base
<1>5. CASE kind(c) \in {"read", "refresh"} /\ End(c, "done")
  BY <1>2, <1>4, <1>5, EndMoves, MoveQuiet DEF Over, Edited
<1>6. CASE /\ kind(c) = "refresh" /\ InRefreshWindow(s, a)
           /\ call' = [call EXCEPT ![c].creds = s[a].creds, ![c].then = "body"]
           /\ Goto(c, "wait")
  <2> DEFINE r == [call[c] EXCEPT !.creds = s[a].creds, !.then = "body"]
  <2>1. s[a].creds \in Creds /\ "body" \in Labels
    BY <1>1, <1>6 DEF InRefreshWindow, Entries, Keys, KeyStore, Entry, Labels
  <2>2. Goes(c, "wait", r)
    BY <1>6 DEF Goto, Goes
  <2>3. r \in Calls /\ r.then = "body" /\ r.op = call[c].op
    BY <1>1, <2>1 DEF Calls
  <2> HIDE DEF r
  <2>4. ~Locked("wait", r) /\ ~Locked(pc[c], call[c])
    BY <1>4, <1>6, Acts DEF Locked, Edited
  <2>5. Fits(c, "wait", r)
    BY <1>6, <2>3, <2>4, NotLockedRecovers, Acts DEF Fits, Local, Route, Carries, Labels
  <2> QED BY <1>2, <2>2, <2>4, <2>5, MoveQuiet DEF Locks, Moves
<1>7. CASE kind(c) \in {"default", "delete"} /\ Leave(c, "done")
  BY <1>2, <1>4, <1>7, LeaveMoves, MoveQuiet DEF Edited
<1>8. ASSUME kind(c) \notin {"read", "refresh"}, Goto(c, "persist"), NEW edit \in Edits(c, s),
             call' = [call EXCEPT ![c].incoming = edit, ![c].opbase = base, ![c].base = stored]
      PROVE  VaultInv'
  <2> DEFINE r == [call[c] EXCEPT !.incoming = edit, !.opbase = base, !.base = stored]
  <2>1. edit \in KeyStore /\ edit \in Image
    BY <1>1, EditsType DEF Image
  <2>2. Goes(c, "persist", r)
    BY <1>8 DEF Goto, Goes
  <2>3. r \in Calls /\ r.incoming = edit /\ r.op = call[c].op /\ r.then = call[c].then
    BY <1>1, <2>1 DEF Calls
  <2> HIDE DEF r
  <2>4. kind(c) \in Edited \cup Outside
    BY <1>1, <1>8, Acts DEF Route, Reading
  <2>5. Locked("persist", r) <=> Locked(pc[c], call[c])
    BY <1>8, <2>3, <2>4, Acts DEF Read, Locked, Outside, Edited
  <2>6. Local("persist", r)
    BY <2>1, <2>3, <2>4, Acts DEF Local, Route, Carries, Labels
  <2>7. Recovers("persist", r, Pending, Inside)
    BY <1>1, <1>8, <2>3, Acts DEF Recovers
  <2> QED BY <1>2, <2>2, <2>3, <2>5, <2>6, <2>7, MoveQuiet DEF Fits, Locks, Moves
<1> QED BY <1>3, <1>5, <1>6, <1>7, <1>8

LEMMA ReadFailsStep ==
  ASSUME VaultInv, NEW c \in Call, ReadFails(c)
  PROVE  VaultInv'
<1>1. Globals' /\ UNCHANGED <<pending, holder>>
  BY Acts DEF ReadFails, Globals, disk, server, memory
<1>2. Goes(c, "unread", call[c])
  BY Acts DEF ReadFails, Goto, Goes, VaultInv, TypeOK
<1>3. Local("unread", call[c])
  BY Acts DEF ReadFails, Local, Route, Carries, Labels
<1>4. Fits(c, "unread", call[c])
  BY <1>3, Acts DEF ReadFails, Fits, Recovers
<1>5. Locks(c, "unread", call[c])
  BY <1>1 DEF ReadFails, Locks, Locked
<1> QED BY <1>1, <1>2, <1>4, <1>5, MoveQuiet DEF Moves

LEMMA UnreadStep ==
  ASSUME VaultInv, NEW c \in Call, Unread(c)
  PROVE  VaultInv'
<1>1. Globals' /\ UNCHANGED <<pending, holder>>
  BY Acts DEF Unread, Globals, disk, server, memory
<1>2. CASE /\ kind(c) \in {"set", "bare"}
           /\ call' = [call EXCEPT ![c].incoming = Stored(c, EmptyStore)]
           /\ Goto(c, "persist")
  <2> DEFINE r == [call[c] EXCEPT !.incoming = Stored(c, EmptyStore)]
  <2>1. Stored(c, EmptyStore) \in KeyStore
    <3>1. EmptyStore \in KeyStore
      BY DEF EmptyStore, KeyStore
    <3> QED BY <3>1, StoredType, VaultAssumption, Acts
  <2>2. Goes(c, "persist", r)
    BY <1>2 DEF Goto, Goes
  <2>3. r \in Calls /\ r.incoming = Stored(c, EmptyStore) /\ r.op = call[c].op
    BY <2>1, Acts DEF Calls, Image
  <2> HIDE DEF r
  <2>4. Local("persist", r)
    BY <1>2, <2>1, <2>3, Acts DEF Local, Route, Carries, Labels, Outside, Edited
  <2>5. Fits(c, "persist", r)
    BY <1>2, <2>3, <2>4, Acts DEF Unread, Fits, Recovers
  <2>6. Locks(c, "persist", r)
    BY <1>1, <1>2, <2>3, Acts DEF Unread, Locks, Locked, Edited
  <2> QED BY <1>1, <2>2, <2>5, <2>6, MoveQuiet DEF Moves
<1>3. CASE holder = c /\ Leave(c, "failed")
  BY <1>1, <1>3, LeaveMoves, MoveQuiet
<1>4. CASE holder # c /\ End(c, "failed")
  BY <1>1, <1>4, EndMoves, MoveQuiet DEF Over
<1> QED BY <1>2, <1>3, <1>4 DEF Unread

LEMMA RereadStep ==
  ASSUME VaultInv, NEW c \in Call, Reread(c)
  PROVE  VaultInv'
<1>1. Globals' /\ UNCHANGED <<pending, holder>>
  BY Acts DEF Reread, Globals, disk, server, memory
<1>2. CASE Throw(c)
  BY <1>1, <1>2, ThrowMoves, MoveQuiet DEF Reread
<1>3. ASSUME NEW x \in {stored[a].creds : a \in Candidates(c)}, Goto(c, "ask"),
             call' = [call EXCEPT ![c].creds = x, ![c].opbase = stored, ![c].base = stored]
      PROVE  VaultInv'
  <2> DEFINE r == [call[c] EXCEPT !.creds = x, !.opbase = stored, !.base = stored]
  <2>1. x \in Creds
    <3>1. PICK a \in Candidates(c) : x = stored[a].creds
      BY <1>3
    <3>2. Contents(stored) \in KeyStore
      BY ContentsType, VaultAssumption, Acts DEF Globals
    <3>3. a \in Alias /\ Contents(stored)[a] \in Entry /\ a \in Keys(Contents(stored))
      BY <3>2 DEF Candidates, Entries, Keys, KeyStore
    <3>4. stored # Absent
      BY <3>3 DEF Contents, Keys, EmptyStore
    <3> QED BY <3>1, <3>3, <3>4 DEF Contents, Entry
  <2>2. call[c] \in Calls /\ stored \in Image
    BY Acts DEF Globals
  <2>3. r \in Calls /\ r.then = call[c].then /\ r.op = call[c].op
    BY <2>1, <2>2 DEF Calls
  <2>4. Goes(c, "ask", r)
    BY <1>3 DEF Goto, Goes
  <2> HIDE DEF r
  <2>5. Local("ask", r)
    BY <2>3, Acts DEF Reread, Local, Route, Carries, Labels
  <2>6. Fits(c, "ask", r)
    BY <2>3, <2>5, Acts DEF Reread, Fits, Recovers
  <2>7. Locks(c, "ask", r)
    BY <1>1 DEF Reread, Locks, Locked
  <2> QED BY <1>1, <2>4, <2>6, <2>7, MoveQuiet DEF Moves
<1> QED BY <1>2, <1>3 DEF Reread

LEMMA AskStep ==
  ASSUME VaultInv, NEW c \in Call, Ask(c)
  PROVE  VaultInv'
<1> DEFINE old == call[c].creds
           Answer(new, life) == [old EXCEPT !.secret = new, !.expires_at = now + life]
<1>1. /\ holder = c /\ old \in Creds /\ call[c] \in Calls /\ kind(c) = "refresh"
      /\ now \in Nat /\ issued \in Nat /\ valid \in SUBSET Nat /\ lost \in SUBSET Nat
  <2>1. pc[c] = "ask"
    BY DEF Ask
  <2>2. call[c] \in Calls /\ old \in Creds
    BY Acts DEF Calls
  <2> QED BY <2>1, <2>2, VaultAssumption, Acts DEF Globals, Local, Route, Locked
<1>2. UNCHANGED <<disk, holder, now, memory>>
  BY DEF Ask
<1>3. CASE UNCHANGED server /\ (Throw(c) \/ Leave(c, "done"))
  <2>1. Globals'
    BY <1>2, <1>3, Acts DEF Globals, disk, memory, server
  <2> QED BY <1>1, <1>2, <1>3, <2>1, ThrowMoves, LeaveMoves, MoveQuiet DEF Ask, disk
<1>4. ASSUME NEW life \in Lifetimes, NEW new \in {old.secret, issued + 1},
             valid' = (valid \ {old.secret}) \cup {new},
             issued' = IF new = old.secret THEN issued ELSE new,
             \/ /\ call' = [call EXCEPT ![c].renewed = Answer(new, life)]
                /\ Goto(c, "answered")
                /\ UNCHANGED lost
             \/ /\ Throw(c)
                /\ lost' = lost \cup {old.secret}
      PROVE  VaultInv'
  <2>1. old.secret \in Nat /\ new \in Nat /\ now + life \in Nat /\ Answer(new, life) \in Creds
    <3>1. /\ old.type \in {"oauth", "basic"} /\ old.secret \in Nat /\ life \in Nat
          /\ DOMAIN old = {"type", "expires_at", "secret"}
      BY <1>1, VaultAssumption DEF Creds
    <3>2. new \in Nat /\ now + life \in Nat
      BY <1>1, <3>1
    <3> HIDE DEF old
    <3> QED BY <1>1, <3>1, <3>2 DEF Creds
  <2>2. Globals'
    BY <1>1, <1>2, <1>4, <2>1, Acts DEF Globals, disk, memory
  <2>3. CASE Throw(c)
    BY <1>1, <1>2, <2>2, <2>3, ThrowMoves, MoveQuiet DEF Ask, disk
  <2>4. CASE call' = [call EXCEPT ![c].renewed = Answer(new, life)] /\ Goto(c, "answered")
    <3> DEFINE r == [call[c] EXCEPT !.renewed = Answer(new, life)]
    <3>1. Goes(c, "answered", r)
      BY <2>4 DEF Goto, Goes
    <3> HIDE DEF Answer
    <3>2. r \in Calls /\ r.op = call[c].op /\ r.then = call[c].then
      BY <1>1, <2>1 DEF Calls
    <3> HIDE DEF r
    <3>3. Local("answered", r)
      BY <3>2, Acts DEF Ask, Local, Route, Carries, Labels
    <3>4. Fits(c, "answered", r)
      BY <3>2, <3>3, Acts DEF Ask, Fits, Recovers
    <3>5. Locks(c, "answered", r)
      BY <1>2 DEF Ask, Locks, Locked
    <3> QED BY <1>2, <2>2, <3>1, <3>4, <3>5, MoveQuiet DEF Moves, disk
  <2> QED BY <1>4, <2>3, <2>4
<1> QED BY <1>3, <1>4 DEF Ask

LEMMA RenewedType ==
  ASSUME NEW s \in KeyStore, NEW old \in Creds, NEW new \in Creds
  PROVE  Renewed(s, old, new) \in KeyStore
<1>1. ASSUME NEW a \in Alias PROVE Renewed(s, old, new)[a] \in Entry \cup {NoEntry}
  <2> DEFINE renewed == [s[a] EXCEPT !.creds = new]
  <2>1. s[a] \in Entry \cup {NoEntry} /\ (s[a] # NoEntry => renewed \in Entry)
    BY DEF KeyStore, Entry
  <2>2. Renewed(s, old, new)[a] = IF a \in Entries(s) /\ s[a].creds = old THEN renewed ELSE s[a]
    BY Zenon DEF Renewed
  <2> HIDE DEF renewed
  <2> QED BY <2>1, <2>2 DEF Entries, Keys
<1>2. Renewed(s, old, new) = [a \in Alias |-> Renewed(s, old, new)[a]]
  BY DEF Renewed
<1> QED BY <1>1, <1>2 DEF KeyStore

LEMMA ForgoneType ==
  ASSUME VaultInv, NEW c \in Call
  PROVE  Forgone(c) \in SUBSET Nat
<1>1. call[c].creds.secret \in Nat
  BY Acts DEF Calls, Creds
<1> QED BY <1>1 DEF Forgone

LEMMA AnsweredStep ==
  ASSUME VaultInv, NEW c \in Call, Answered(c)
  PROVE  VaultInv'
<1>1. Globals' /\ UNCHANGED <<pending, holder>>
  BY Acts, ForgoneType DEF Answered, Globals, disk, memory
<1>2. CASE Throw(c)
  BY <1>1, <1>2, ThrowMoves, MoveQuiet DEF Answered
<1>3. CASE /\ call' = [call EXCEPT ![c].incoming =
                         Renewed(Contents(call[c].opbase), call[c].creds, call[c].renewed)]
           /\ Goto(c, "persist")
  <2> DEFINE incoming == Renewed(Contents(call[c].opbase), call[c].creds, call[c].renewed)
             r == [call[c] EXCEPT !.incoming = incoming]
  <2>1. call[c] \in Calls /\ incoming \in KeyStore /\ incoming \in Image
    <3>1. /\ call[c] \in Calls /\ call[c].opbase \in Image /\ call[c].creds \in Creds
          /\ call[c].renewed \in Creds
      BY Acts DEF Calls
    <3>2. Contents(call[c].opbase) \in KeyStore
      BY <3>1, ContentsType, VaultAssumption
    <3> QED BY <3>1, <3>2, RenewedType DEF Image
  <2>2. Goes(c, "persist", r)
    BY <1>3 DEF Goto, Goes
  <2> HIDE DEF incoming
  <2>3. r \in Calls /\ r.incoming = incoming /\ r.op = call[c].op
    BY <2>1 DEF Calls
  <2> HIDE DEF r
  <2>4. Local("persist", r) /\ kind(c) = "refresh"
    BY <2>1, <2>3, Acts DEF Answered, Local, Route, Carries, Labels
  <2>5. Fits(c, "persist", r)
    BY <2>3, <2>4, Acts DEF Answered, Fits, Recovers
  <2>6. Locks(c, "persist", r)
    BY <1>1, <2>3, <2>4, Acts DEF Answered, Locks, Locked
  <2> QED BY <1>1, <2>2, <2>5, <2>6, MoveQuiet DEF Moves
<1> QED BY <1>2, <1>3 DEF Answered

LEMMA SettleStep ==
  ASSUME VaultInv, NEW c \in Call, Settle(c)
  PROVE  VaultInv'
<1>1. holder = c /\ call[c].incoming \in KeyStore
  BY Acts DEF Settle, Local, Carries, Locked
<1>2. Globals' /\ UNCHANGED <<pending, holder>>
  <2>1. observed' \in [Process -> SUBSET (Creds \X Alias)]
    BY <1>1, RememberType, Acts DEF Settle, Globals
  <2> QED BY <2>1, Acts, ForgoneType DEF Settle, Globals, disk
<1> QED BY <1>1, <1>2, ThrowMoves, LeaveMoves, MoveQuiet DEF Settle

LEMMA PersistStep ==
  ASSUME VaultInv, NEW c \in Call, Persist(c)
  PROVE  VaultInv'
<1> DEFINE opbase == IF kind(c) = "intent" THEN lastRead[ProcOf(c)] ELSE call[c].opbase
           base == OwnBase(c)
           l == IF holder = c THEN "write" ELSE "wait"
           r == [call[c] EXCEPT !.opbase = opbase, !.base = base, !.then = "write"]
<1>1. Globals' /\ UNCHANGED <<pending, holder>>
  BY Acts DEF Persist, Globals, disk, server, memory
<1>2. /\ call[c] \in Calls /\ opbase \in Image /\ base \in Image /\ "write" \in Labels
      /\ call[c].incoming \in KeyStore
  <2>1. call[c] \in Calls /\ call[c].opbase \in Image /\ lastRead[ProcOf(c)] \in Image
    BY Acts DEF Globals, Calls
  <2> QED BY <2>1, Acts DEF Persist, OwnBase, BaseOr, Local, Carries, Labels
<1>3. Goes(c, l, r)
  BY DEF Persist, Goto, Goes
<1> HIDE DEF opbase, base
<1>4. r \in Calls /\ r.then = "write" /\ r.op = call[c].op /\ r.incoming = call[c].incoming
  BY <1>2 DEF Calls
<1> HIDE DEF r
<1>5. /\ kind(c) \in {"refresh"} \cup Edited \cup Outside
      /\ holder = c <=> kind(c) \in {"refresh"} \cup Edited
      /\ holder = c => Inside = {}
  BY Acts DEF Persist, Local, Route, Locked, Recovers
<1>6. Local(l, r)
  BY <1>2, <1>4, <1>5, Acts DEF Local, Route, Carries, Labels
<1>7. Fits(c, l, r)
  BY <1>4, <1>5, <1>6 DEF Fits, Recovers
<1>8. Locks(c, l, r)
  BY <1>1, <1>5, Acts DEF Persist, Locks, Locked
<1> QED BY <1>1, <1>3, <1>7, <1>8, MoveQuiet DEF Moves

(* A write has succeeded, or its sidecar has been written or given up. *)
LEMMA FinishMoves ==
  ASSUME VaultInv, NEW c \in Call, Finish(c), UNCHANGED holder, holder = c,
         pc[c] \in {"write", "sidecar"}
  PROVE  Moves(c)
<1>1. CASE kind(c) = "refresh"
  <2>1. Goes(c, "settle", call[c])
    BY <1>1, Acts DEF Finish, Goto, Goes, VaultInv, TypeOK
  <2>2. Local("settle", call[c])
    BY <1>1, Acts DEF Local, Route, Carries, Labels
  <2>3. Fits(c, "settle", call[c])
    BY <2>2 DEF Fits, Recovers
  <2>4. Locks(c, "settle", call[c])
    BY Acts DEF Locks, Locked
  <2> QED BY <2>1, <2>3, <2>4 DEF Moves
<1>2. CASE kind(c) # "refresh"
  BY <1>2, LeaveMoves DEF Finish
<1> QED BY <1>1, <1>2

LEMMA WriteStep ==
  ASSUME VaultInv, NEW c \in Call, Write(c)
  PROVE  VaultInv'
<1> DEFINE current == Contents(stored)
           base == BaseOr(call[c].base, current)
           incoming == call[c].incoming
<1>1. /\ holder = c /\ call[c] \in Calls /\ Route("write", call[c]) /\ Inside = {}
      /\ current \in KeyStore /\ base \in KeyStore /\ incoming \in KeyStore
  <2>1. current \in KeyStore
    BY ContentsType, VaultAssumption, Acts DEF Globals
  <2>2. call[c].base \in Image /\ call[c] \in Calls
    BY Acts DEF Calls
  <2> QED BY <2>1, <2>2, Acts DEF Write, BaseOr, Image, Local, Carries, Locked, Recovers
<1>2. PICK merged \in MergeKeyStores(base, incoming, current, removal(c)) :
          \/ /\ stored' = merged
             /\ lastRead' = [lastRead EXCEPT ![ProcOf(c)] = merged]
             /\ Finish(c)
          \/ /\ stored' \in {merged, stored} /\ UNCHANGED lastRead
             /\ LET flagged == Flagged(base, incoming, current, merged)
                IN \/ /\ Retry(call[c].attempt)
                      /\ call' = [call EXCEPT ![c].attempt = @ + 1, ![c].incoming = flagged]
                      /\ UNCHANGED pc
                   \/ /\ call' = [call EXCEPT ![c].incoming = flagged, ![c].then = "sidecar"]
                      /\ Goto(c, IF kind(c) \in Outside THEN "release" ELSE "sidecar")
  BY DEF Write
<1> DEFINE flagged == Flagged(base, incoming, current, merged)
<1>3. merged \in KeyStore /\ flagged \in KeyStore
  <2> HIDE DEF base, incoming, current
  <2>1. merged \in KeyStore
    BY <1>1, MergeAt
  <2> QED BY <1>1, <2>1, FlaggedType
<1>4. Globals' /\ UNCHANGED <<pending, holder>>
  BY <1>2, <1>3, Acts DEF Write, Globals, Image, server
<1>5. CASE Finish(c)
  BY <1>1, <1>4, <1>5, FinishMoves, MoveQuiet DEF Write
<1> HIDE DEF flagged
<1>6. CASE /\ Retry(call[c].attempt)
           /\ call' = [call EXCEPT ![c].attempt = @ + 1, ![c].incoming = flagged]
           /\ UNCHANGED pc
  <2> DEFINE r == [call[c] EXCEPT !.attempt = @ + 1, !.incoming = flagged]
  <2>1. Goes(c, "write", r)
    BY <1>6, Acts DEF Write, Goes, VaultInv, TypeOK
  <2>2. call[c].attempt + 1 \in 0..2 /\ flagged \in Image
    BY <1>1, <1>3, <1>6 DEF Retry, Calls, Image
  <2>3. r \in Calls /\ r.incoming = flagged /\ r.op = call[c].op /\ r.then = call[c].then
    BY <1>1, <2>2 DEF Calls
  <2> HIDE DEF r
  <2>4. Local("write", r)
    BY <1>1, <1>3, <2>3 DEF Local, Route, Carries, Labels
  <2>5. Fits(c, "write", r)
    BY <1>1, <2>3, <2>4 DEF Fits, Recovers
  <2>6. Locks(c, "write", r)
    BY <1>4 DEF Write, Locks, Locked
  <2> QED BY <1>4, <2>1, <2>5, <2>6, MoveQuiet DEF Moves
<1>7. CASE /\ call' = [call EXCEPT ![c].incoming = flagged, ![c].then = "sidecar"]
           /\ Goto(c, IF kind(c) \in Outside THEN "release" ELSE "sidecar")
  <2> DEFINE r == [call[c] EXCEPT !.incoming = flagged, !.then = "sidecar"]
             l == IF kind(c) \in Outside THEN "release" ELSE "sidecar"
  <2>1. Goes(c, l, r)
    BY <1>7 DEF Goto, Goes
  <2>2. "sidecar" \in Labels /\ flagged \in Image
    BY <1>3 DEF Labels, Image
  <2>3. r \in Calls /\ r.incoming = flagged /\ r.op = call[c].op /\ r.then = "sidecar"
    BY <1>1, <2>2 DEF Calls
  <2> HIDE DEF r
  <2>4. Local(l, r)
    BY <1>1, <1>3, <2>3, Acts DEF Local, Route, Carries, Labels, Over
  <2>5. Fits(c, l, r)
    BY <2>3, <2>4 DEF Fits, Recovers
  <2>6. kind(c) \in {"refresh"} \cup Edited \cup Outside
    BY <1>1, Acts DEF Route
  <2>7. Locks(c, l, r)
    BY <1>4, <2>3, <2>6, Acts DEF Write, Locks, Locked
  <2> QED BY <1>4, <2>1, <2>5, <2>7, MoveQuiet DEF Moves
<1> QED BY <1>2, <1>5, <1>6, <1>7 DEF flagged

LEMMA WriteUnreadStep ==
  ASSUME VaultInv, NEW c \in Call, WriteUnread(c)
  PROVE  VaultInv'
<1> DEFINE r == [call[c] EXCEPT !.then = "sidecar"]
           l == IF kind(c) \in Outside THEN "release" ELSE "sidecar"
<1>1. holder = c /\ call[c] \in Calls /\ Route("write", call[c]) /\ Inside = {}
  BY Acts DEF WriteUnread, Local, Locked, Recovers
<1>2. Globals' /\ UNCHANGED <<pending, holder>>
  BY Acts DEF WriteUnread, Globals, disk, memory, server
<1>3. Goes(c, l, r)
  BY DEF WriteUnread, Goto, Goes
<1>4. "sidecar" \in Labels
  BY DEF Labels
<1>5. r \in Calls /\ r.incoming = call[c].incoming /\ r.op = call[c].op /\ r.then = "sidecar"
  BY <1>1, <1>4 DEF Calls
<1> HIDE DEF r
<1>6. Local(l, r)
  BY <1>1, <1>5, Acts DEF WriteUnread, Local, Route, Carries, Labels, Over
<1>7. Fits(c, l, r)
  BY <1>5, <1>6 DEF Fits, Recovers
<1>8. kind(c) \in {"refresh"} \cup Edited \cup Outside
  BY <1>1, Acts DEF WriteUnread, Route
<1>9. Locks(c, l, r)
  BY <1>2, <1>5, <1>8, Acts DEF WriteUnread, Locks, Locked
<1> QED BY <1>2, <1>3, <1>6, <1>7, <1>9, MoveQuiet DEF Moves

LEMMA SidecarWritten ==
  ASSUME VaultInv, NEW c \in Call, pc[c] = "sidecar"
  PROVE  LET sidecar == [at |-> now, base |-> OwnBase(c), incoming |-> call[c].incoming,
                         allowRemovals |-> removal(c)]
         IN sidecar \in Sidecars /\ sidecar # Absent
<1> DEFINE sidecar == [at |-> now, base |-> OwnBase(c), incoming |-> call[c].incoming,
                       allowRemovals |-> removal(c)]
<1>1. /\ call[c].opbase \in Image /\ lastRead[ProcOf(c)] \in Image /\ now \in Nat
      /\ call[c].incoming \in KeyStore
  BY VaultAssumption, Acts DEF Calls, Globals, Local, Carries
<1>2. OwnBase(c) \in Image /\ removal(c) \in BOOLEAN
  BY <1>1 DEF OwnBase, BaseOr, removal
<1>3. sidecar \in Sidecars
  BY <1>1, <1>2 DEF Sidecars
<1> HIDE DEF sidecar
<1>4. sidecar # Absent
  BY <1>3, VaultAssumption
<1> QED BY <1>3, <1>4 DEF sidecar

LEMMA SidecarStep ==
  ASSUME VaultInv, NEW c \in Call, Sidecar(c)
  PROVE  VaultInv'
<1>1. /\ call[c] \in Calls /\ call[c].incoming \in KeyStore /\ Route("sidecar", call[c])
      /\ holder = c <=> kind(c) \in {"refresh"} \cup Edited
      /\ holder # c => kind(c) \in Outside
  BY Acts DEF Sidecar, Local, Carries, Route, Locked
<1>2. CASE /\ pending' = [pending EXCEPT ![c] =
                [at |-> now, base |-> OwnBase(c), incoming |-> call[c].incoming,
                 allowRemovals |-> removal(c)]]
           /\ IF holder = c THEN Finish(c) ELSE End(c, "done")
  <2> DEFINE sidecar == [at |-> now, base |-> OwnBase(c), incoming |-> call[c].incoming,
                         allowRemovals |-> removal(c)]
  <2>1. sidecar \in Sidecars /\ sidecar # Absent
    BY SidecarWritten DEF Sidecar
  <2> HIDE DEF sidecar
  <2>2. pending' = [pending EXCEPT ![c] = sidecar]
    BY <1>2 DEF sidecar
  <2>3. Globals' /\ UNCHANGED holder
    BY <2>1, <2>2, Acts DEF Sidecar, Globals, server, memory
  <2>4. Moves(c)
    BY <1>2, <2>3, FinishMoves, EndMoves DEF Sidecar, Over
  <2>5. PICK l, r : Goes(c, l, r) /\ Fits(c, l, r) /\ Locks(c, l, r)
    BY <2>4 DEF Moves
  <2>6. TypeOK' /\ LocalInv' /\ LockInv' /\ \A d \in Call : call'[d].op = call[d].op
    BY <2>3, <2>5, StepLocal DEF Fits
  <2>7. Pending' = Pending \cup {c} /\ Inside' = Inside \cup ({c} \ {d \in Call : kind(d) \in Outside})
    BY <2>1, <2>2, <2>6, Acts DEF Pending, Inside, Globals, kind
  <2>8. /\ pc'[c] \in {"settle", "release"} \cup Over
        /\ \A d \in Call \ {c} : pc'[d] = pc[d] /\ call'[d] = call[d]
    BY <1>2, <2>5, Gone, Acts DEF Finish, End, Leave, Goto, Over, VaultInv, TypeOK
  <2>9. ASSUME NEW d \in Call PROVE Recovers(pc'[d], call'[d], Pending', Inside')
    <3>1. CASE d = c
      BY <2>8, <3>1 DEF Recovers, Over
    <3>2. CASE d # c /\ holder = c
      <4>1. ~Locked(pc'[d], call'[d])
        BY <2>3, <2>6, <3>2 DEF LockInv
      <4> QED BY <4>1, NotLockedRecovers
    <3>3. CASE d # c /\ holder # c
      <4>1. Inside' = Inside /\ Pending \subseteq Pending'
        BY <1>1, <2>7, <3>3
      <4>2. Recovers(pc[d], call[d], Pending, Inside)
        BY Acts
      <4> QED BY <2>8, <3>3, <4>1, <4>2 DEF Recovers
    <3> QED BY <3>1, <3>2, <3>3
  <2> QED BY <2>6, <2>9 DEF VaultInv, RecoverInv
<1>3. CASE UNCHANGED pending
  <2>1. Globals' /\ UNCHANGED holder
    BY <1>3, Acts DEF Sidecar, Globals, server, memory
  <2>2. CASE holder # c /\ End(c, "done")
    BY <1>3, <2>1, <2>2, EndMoves, MoveQuiet DEF Over
  <2>3. CASE /\ holder = c
             /\ call' = [call EXCEPT ![c].failure = TRUE, ![c].then = "failed"]
             /\ Goto(c, IF kind(c) = "refresh" THEN "settle" ELSE "release")
    <3> DEFINE r == [call[c] EXCEPT !.failure = TRUE, !.then = "failed"]
               l == IF kind(c) = "refresh" THEN "settle" ELSE "release"
    <3>1. Goes(c, l, r)
      BY <2>3 DEF Goto, Goes
    <3>2. "failed" \in Labels
      BY DEF Labels, Over
    <3>3. r \in Calls /\ r.incoming = call[c].incoming /\ r.op = call[c].op /\ r.then = "failed"
      BY <1>1, <3>2 DEF Calls
    <3> HIDE DEF r
    <3>4. Local(l, r)
      BY <1>1, <3>3, Acts DEF Local, Route, Carries, Labels, Over
    <3>5. Fits(c, l, r)
      BY <3>3, <3>4 DEF Fits, Recovers
    <3>6. Locks(c, l, r)
      BY <2>1, <2>3, Acts DEF Locks, Locked
    <3> QED BY <1>3, <2>1, <3>1, <3>5, <3>6, MoveQuiet DEF Moves
  <2>4. CASE pending' = [pending EXCEPT ![c] =
                [at |-> now, base |-> OwnBase(c), incoming |-> call[c].incoming,
                 allowRemovals |-> removal(c)]]
             /\ IF holder = c THEN Finish(c) ELSE End(c, "done")
    BY <1>2, <2>4
  <2> QED BY <2>2, <2>3, <2>4 DEF Sidecar
<1> QED BY <1>2, <1>3 DEF Sidecar

LEMMA EraseStep ==
  ASSUME VaultInv, NEW c \in Call, Erase(c)
  PROVE  VaultInv'
<1>1. Globals' /\ UNCHANGED <<pending, holder>>
  BY Acts DEF Erase, Globals, Image, server
<1>2. holder = c
  BY Acts DEF Erase, Locked
<1> QED BY <1>1, <1>2, ThrowMoves, LeaveMoves, MoveQuiet DEF Erase

-----------------------------------------------------------------------------
LEMMA CrashStep ==
  ASSUME VaultInv, NEW p \in Process, Crash(p)
  PROVE  VaultInv'
<1> DEFINE victims == {c \in Call : ProcOf(c) = p /\ Live(c)}
<1>1. /\ pc' = [c \in Call |-> IF c \in victims THEN "dead" ELSE pc[c]]
      /\ call' = [c \in Call |-> IF c \in victims THEN Cleared(c) ELSE call[c]]
      /\ holder' = IF holder \in victims THEN Nobody ELSE holder
      /\ lost' = lost \cup UNION {Forgone(c) : c \in victims}
      /\ lastRead' = [lastRead EXCEPT ![p] = Absent]
      /\ observed' = [observed EXCEPT ![p] = {}]
      /\ UNCHANGED <<disk, now, valid, issued>>
  BY DEF Crash
<1>2. victims \subseteq Call
  OBVIOUS
<1> HIDE DEF victims
<1>3. ASSUME NEW c \in Call
      PROVE  /\ c \in victims => pc'[c] = "dead" /\ call'[c] = Cleared(c)
             /\ c \notin victims => pc'[c] = pc[c] /\ call'[c] = call[c]
  BY <1>1
<1>4. ASSUME NEW c \in Call
      PROVE  /\ Local(pc'[c], call'[c]) /\ call'[c].op = call[c].op
             /\ c \in victims => ~Locked(pc'[c], call'[c])
  <2>1. Cleared(c) \in Calls /\ Cleared(c).op = call[c].op
    BY ClearedType, Acts
  <2>2. Local("dead", Cleared(c)) /\ ~Locked("dead", Cleared(c))
    BY <2>1 DEF Local, Route, Carries, Labels, Over, Locked
  <2> QED BY <1>3, <2>1, <2>2, Acts
<1>5. TypeOK'
  <2>1. UNION {Forgone(c) : c \in victims} \in SUBSET Nat
    BY <1>2, ForgoneType
  <2>2. Globals'
    BY <1>1, <2>1, VaultAssumption DEF VaultInv, TypeOK, Globals, disk, Image
  <2>3. pc' \in [Call -> Labels] /\ call' \in [Call -> Calls]
    BY <1>1, <1>4 DEF Local
  <2> QED BY <2>2, <2>3 DEF Globals, TypeOK
<1>6. LockInv'
  BY <1>1, <1>3, <1>4, VaultAssumption DEF VaultInv, LockInv
<1>7. Pending' = Pending /\ Inside' = Inside
  BY <1>1, <1>4 DEF Pending, Inside, kind, disk
<1>8. RecoverInv'
  BY <1>3, <1>4, <1>7, NotLockedRecovers DEF VaultInv, RecoverInv
<1> QED BY <1>4, <1>5, <1>6, <1>8 DEF VaultInv, LocalInv

LEMMA TickStep ==
  ASSUME VaultInv, Tick
  PROVE  VaultInv'
<1>1. now' \in 0..MaxTime /\ UNCHANGED <<disk, holder, server, memory, pc, call>>
  BY VaultAssumption DEF Tick, VaultInv, TypeOK
<1> QED BY <1>1 DEF VaultInv, TypeOK, LocalInv, LockInv, RecoverInv, Pending, Inside, kind,
        disk, server, memory

LEMMA StutterStep ==
  ASSUME VaultInv, UNCHANGED vars
  PROVE  VaultInv'
BY DEF vars, VaultInv, TypeOK, LocalInv, LockInv, RecoverInv, Pending, Inside, kind,
       disk, server, memory

LEMMA InitStep ==
  ASSUME Init
  PROVE  VaultInv
<1>1. PICK setup \in Setups : /\ stored = setup.store
                             /\ call = [c \in Call |-> [NoCall EXCEPT !.op = setup.plan[c]]]
  BY DEF Init
<1>2. stored \in Image /\ setup.plan \in [Call -> Op]
  BY <1>1, VaultAssumption DEF Image
<1>3. ASSUME NEW c \in Call PROVE pc[c] = "idle" /\ call[c] \in Calls
  <2> DEFINE r == [NoCall EXCEPT !.op = setup.plan[c]]
  <2>1. /\ Absent \in Image /\ NoCreds \in Creds /\ "done" \in Labels \cup {"recovered"}
        /\ setup.plan[c] \in Op /\ 0 \in 0..2 /\ {} \in SUBSET Call
    BY <1>2 DEF Image, NoCreds, Creds, Labels, Over
  <2>2. r \in Calls
    BY <2>1 DEF NoCall, Calls
  <2> QED BY <1>1, <2>2 DEF Init
<1>4. TypeOK
  <2>1. call \in [Call -> Calls] /\ pc \in [Call -> Labels]
    BY <1>1, <1>3 DEF Init, Labels
  <2>2. issued \in Nat
    BY FS_CardinalityType, VaultAssumption DEF Init
  <2>3. valid \in SUBSET Nat
    <3>1. Contents(stored) \in KeyStore
      BY <1>2, ContentsType, VaultAssumption
    <3>2. ASSUME NEW a \in Keys(Contents(stored)) PROVE Contents(stored)[a].creds.secret \in Nat
      BY <3>1 DEF Keys, KeyStore, Entry, Creds
    <3> QED BY <3>2 DEF Init, Secrets
  <2>4. pending \in [Call -> Sidecars \cup {Absent}] /\ lastRead \in [Process -> Image]
        /\ observed \in [Process -> SUBSET (Creds \X Alias)]
    BY DEF Init, Image
  <2>5. holder \in Call \cup {Nobody} /\ now \in 0..MaxTime /\ lost \in SUBSET Nat
    BY VaultAssumption DEF Init
  <2> QED BY <1>2, <2>1, <2>2, <2>3, <2>4, <2>5 DEF TypeOK
<1>5. ASSUME NEW c \in Call
      PROVE  Local("idle", call[c]) /\ ~Locked("idle", call[c])
  BY <1>3 DEF Local, Route, Carries, Labels, Locked
<1>6. LocalInv /\ LockInv /\ RecoverInv
  BY <1>3, <1>5, NotLockedRecovers, VaultAssumption DEF Init, LocalInv, LockInv, RecoverInv
<1> QED BY <1>4, <1>6 DEF VaultInv

LEMMA VaultStep ==
  ASSUME VaultInv, [Next]_vars
  PROVE  VaultInv'
<1>1. ASSUME NEW c \in Call, Proceed(c) PROVE VaultInv'
  <2>1. CASE Scan(c) \/ Acquire(c) \/ TimeOut(c) \/ Release(c)
    BY <2>1, ScanStep, AcquireStep, TimeOutStep, ReleaseStep
  <2>2. CASE (\E d \in Call : Absorb(c, d)) \/ Discard(c) \/ Absorbed(c) \/ Get(c)
    BY <2>2, AbsorbStep, DiscardStep, AbsorbedStep, GetStep
  <2>3. CASE Read(c) \/ ReadFails(c) \/ Unread(c) \/ Reread(c) \/ Ask(c)
    BY <2>3, ReadStep, ReadFailsStep, UnreadStep, RereadStep, AskStep
  <2>4. CASE \/ Answered(c) \/ Settle(c) \/ Persist(c) \/ Write(c) \/ WriteUnread(c)
             \/ Sidecar(c) \/ Erase(c)
    BY <2>4, AnsweredStep, SettleStep, PersistStep, WriteStep, WriteUnreadStep, SidecarStep, EraseStep
  <2> QED BY <1>1, <2>1, <2>2, <2>3, <2>4 DEF Proceed
<1> QED BY <1>1, BeginStep, CrashStep, TickStep, StutterStep DEF Next

(* The lock of the vault is held by whoever works under it, and by nobody   *)
(* else: of all calls at most one absorbs, edits, refreshes or writes, and  *)
(* what waits in the sidecars is known to whoever is recovering.            *)
THEOREM VaultInvariant == Spec => []VaultInv
BY InitStep, VaultStep, PTL DEF Spec

(* Every step of every operation keeps the vault's state of its type.       *)
THEOREM TypeCorrect == Spec => []TypeOK
<1>1. VaultInv => TypeOK
  BY DEF VaultInv
<1> QED BY <1>1, VaultInvariant, PTL

(* A change or a refresh under the lock begins when no sidecar of an        *)
(* earlier transaction is left (absorbPendingSidecars in runTransaction and *)
(* getPassword).                                                            *)
THEOREM RecoveryFirst == Spec => []RecoveredFirst
<1>1. VaultInv => RecoveredFirst
  <2> SUFFICES ASSUME VaultInv, NEW c \in Call, holder = c,
                      pc[c] \in {"ask", "answered", "persist", "write"},
                      NEW d \in Pending
               PROVE  kind(d) \in Outside
    BY DEF RecoveredFirst
  <2>1. Locked(pc[c], call[c]) /\ Recovers(pc[c], call[c], Pending, Inside)
    BY Acts
  <2>2. Inside = {}
    BY <2>1 DEF Locked, Recovers
  <2> QED BY <2>2 DEF Inside
<1> QED BY <1>1, VaultInvariant, PTL

-----------------------------------------------------------------------------
(* A call leaves the locals of the others alone, and, of one that holds the *)
(* lock, the store and the sidecar.                                         *)
LEMMA Others ==
  ASSUME VaultInv, NEW c \in Call, Begin(c) \/ Proceed(c), NEW d \in Call, d # c
  PROVE  /\ pc'[d] = pc[d] /\ call'[d] = call[d]
         /\ holder = d => stored' = stored /\ pending'[d] = pending[d]
<1>1. pc \in [Call -> Labels] /\ call \in [Call -> Calls] /\ pending \in [Call -> Sidecars \cup {Absent}]
  BY DEF VaultInv, TypeOK
<1>2. pc[c] \in {"absorb", "discard", "body", "write"} => holder = c
  BY Acts DEF Locked
<1>3. CASE Begin(c) \/ Scan(c) \/ Acquire(c) \/ TimeOut(c) \/ Release(c)
  BY <1>1, <1>3 DEF Begin, Scan, Acquire, TimeOut, Release, Goto, End, disk
<1>4. CASE (\E e \in Call : Absorb(c, e)) \/ Discard(c) \/ Absorbed(c) \/ Get(c)
  BY <1>1, <1>2, <1>4 DEF Absorb, Discard, Absorbed, Get, Throw, Leave, Goto, disk
<1>5. CASE Read(c) \/ ReadFails(c) \/ Unread(c) \/ Reread(c) \/ Ask(c)
  BY <1>1, <1>5 DEF Read, ReadFails, Unread, Reread, Ask, Throw, Leave, End, Goto, disk
<1>6. CASE Answered(c) \/ Settle(c) \/ Persist(c)
  BY <1>1, <1>6 DEF Answered, Settle, Persist, Throw, Leave, Goto, disk
<1>7. CASE Write(c) \/ WriteUnread(c) \/ Sidecar(c) \/ Erase(c)
  BY <1>1, <1>2, <1>7 DEF Write, WriteUnread, Sidecar, Erase, Finish, Throw, Leave, End, Goto, disk
<1> QED BY <1>3, <1>4, <1>5, <1>6, <1>7 DEF Proceed

LEMMA CrashOf ==
  ASSUME NEW p \in Process, Crash(p), NEW d \in Call
  PROVE  pc'[d] = "dead" \/ (pc'[d] = pc[d] /\ call'[d] = call[d])
<1> DEFINE victims == {c \in Call : ProcOf(c) = p /\ Live(c)}
<1>1. /\ pc' = [c \in Call |-> IF c \in victims THEN "dead" ELSE pc[c]]
      /\ call' = [c \in Call |-> IF c \in victims THEN Cleared(c) ELSE call[c]]
  BY DEF Crash
<1> HIDE DEF victims
<1>2. CASE d \in victims
  BY <1>1, <1>2
<1>3. CASE d \notin victims
  BY <1>1, <1>3
<1> QED BY <1>2, <1>3

LEMMA RefreshFrame ==
  ASSUME VaultInv, NEW c \in Call, RefreshOK(c), pc'[c] = pc[c], call'[c] = call[c],
         holder = c => stored' = stored /\ pending'[c] = pending[c]
  PROVE  RefreshOK(c)'
<1>1. CASE holder = c
  BY <1>1 DEF RefreshOK, Renews, Saved, Contents, kind
<1>2. CASE holder # c
  <2>1. ~Locked(pc[c], call[c])
    BY <1>2, Acts
  <2> QED BY <2>1 DEF RefreshOK, Renews, Locked, kind
<1> QED BY <1>1, <1>2

LEMMA RefreshIdle ==
  ASSUME NEW c \in Call,
         \/ pc'[c] \notin {"ask", "answered", "persist", "write", "sidecar", "settle"}
         \/ call'[c].op.kind # "refresh" /\ pc'[c] \in {"persist", "write", "sidecar"}
  PROVE  RefreshOK(c)'
BY DEF RefreshOK, kind

(* Of two credentials of which the incoming ones are newer the merge keeps  *)
(* these, also when it is repeated.                                         *)
LEMMA RenewalWins ==
  ASSUME NEW b \in KeyStore, NEW i \in KeyStore, NEW s \in KeyStore, NEW allow,
         NEW m \in MergeKeyStores(b, i, s, allow), NEW a \in Keys(b), i[a] # NoEntry, s[a] # NoEntry,
         b[a].creds.type = "oauth", i[a].creds.type = "oauth",
         i[a].creds.expires_at > b[a].creds.expires_at,
         s[a].creds \in {b[a].creds, i[a].creds}
  PROVE  /\ m[a] # NoEntry /\ m[a].creds = i[a].creds
         /\ Flagged(b, i, s, m)[a] = i[a]
<1>1. a \in Alias /\ b[a] \in Entry /\ i[a] \in Entry /\ s[a] \in Entry
  BY DEF Keys, KeyStore
<1>2. b[a].creds.expires_at \in Nat /\ i[a].creds.expires_at \in Nat
  BY <1>1 DEF Entry, Creds
<1>3. a \in Modified(b, i) /\ a \notin Added(b, i)
  BY <1>1, <1>2 DEF Modified, Added, Keys
<1>4. PickNewer(s[a], i[a]).creds = i[a].creds
  BY <1>2 DEF PickNewer
<1>5. Replay(b, i, s, allow)[a] # NoEntry /\ Replay(b, i, s, allow)[a].creds = i[a].creds
  BY <1>1, <1>3, <1>4, ReplayAt
<1>6. SameCreds(m[a], Replay(b, i, s, allow)[a])
  BY <1>1, MergeAt
<1>7. Flagged(b, i, s, m)[a] = i[a]
  BY <1>1, <1>3 DEF Flagged
<1> QED BY <1>5, <1>6, <1>7 DEF SameCreds

LEMMA RereadRefresh ==
  ASSUME VaultInv, NEW c \in Call, Reread(c)
  PROVE  RefreshOK(c)'
<1>0. pc \in [Call -> Labels] /\ call \in [Call -> Calls] /\ call[c].then = "body" /\ kind(c) = "refresh"
  BY Acts DEF Reread, VaultInv, TypeOK, Local, Route
<1>1. CASE Throw(c)
  <2>1. pc'[c] = "release"
    BY <1>0, <1>1 DEF Throw, Leave, Goto
  <2> QED BY <2>1, RefreshIdle
<1>2. ASSUME NEW x \in {stored[a].creds : a \in Candidates(c)}, Goto(c, "ask"),
             call' = [call EXCEPT ![c].creds = x, ![c].opbase = stored, ![c].base = stored]
      PROVE  RefreshOK(c)'
  <2>1. pc'[c] = "ask" /\ call'[c].creds = x /\ call'[c].opbase = stored
    BY <1>0, <1>2 DEF Goto, Calls
  <2>2. PICK a \in Candidates(c) : x = stored[a].creds
    BY <1>2
  <2>3. a \in Keys(Contents(stored)) /\ Contents(stored)[a].creds.type = "oauth"
    BY DEF Candidates, Entries
  <2>4. stored # Absent
    BY <2>3 DEF Contents, Keys, EmptyStore
  <2>5. stored' = stored
    BY DEF Reread, disk
  <2> QED BY <2>1, <2>2, <2>3, <2>4, <2>5 DEF RefreshOK, Contents
<1> QED BY <1>1, <1>2 DEF Reread

(* The token is asked for when it is about to expire, and the new one lives *)
(* for longer.                                                              *)
LEMMA AskRefresh ==
  ASSUME VaultInv, NEW c \in Call, RefreshOK(c), Ask(c), \A l \in Lifetimes : l > Window
  PROVE  RefreshOK(c)'
<1> DEFINE old == call[c].creds
           Answer(new, life) == [old EXCEPT !.secret = new, !.expires_at = now + life]
<1>0. pc \in [Call -> Labels] /\ call \in [Call -> Calls] /\ call[c].then = "body" /\ pc[c] = "ask"
  BY Acts DEF Ask, VaultInv, TypeOK, Local, Route
<1>1. CASE Throw(c) \/ Leave(c, "done")
  <2>1. pc'[c] = "release"
    BY <1>0, <1>1 DEF Throw, Leave, Goto
  <2> QED BY <2>1, RefreshIdle
<1>2. ASSUME NEW life \in Lifetimes, NEW new, Goto(c, "answered"),
             old.expires_at <= now + Window,
             call' = [call EXCEPT ![c].renewed = Answer(new, life)]
      PROVE  RefreshOK(c)'
  <2>1. /\ old \in Creds /\ now \in Nat /\ life \in Nat /\ Window \in Nat
    BY <1>0, VaultAssumption, Acts DEF Calls, Globals
  <2>2. /\ Answer(new, life).type = old.type /\ Answer(new, life).expires_at = now + life
    BY <2>1 DEF Creds
  <2> HIDE DEF Answer
  <2>3. /\ pc'[c] = "answered" /\ call'[c].renewed = Answer(new, life) /\ call'[c].creds = old
        /\ call'[c].opbase = call[c].opbase
    BY <1>0, <1>2 DEF Goto, Calls
  <2>4. now + life > old.expires_at
    BY <1>2, <2>1 DEF Creds
  <2>5. stored' = stored
    BY DEF Ask, disk
  <2> QED BY <1>0, <2>2, <2>3, <2>4, <2>5 DEF RefreshOK
<1> QED BY <1>1, <1>2 DEF Ask

LEMMA AnsweredRefresh ==
  ASSUME VaultInv, NEW c \in Call, RefreshOK(c), Answered(c)
  PROVE  RefreshOK(c)'
<1> DEFINE r == call[c]
           incoming == Renewed(Contents(r.opbase), r.creds, r.renewed)
<1>0. /\ pc \in [Call -> Labels] /\ call \in [Call -> Calls] /\ r.then = "body" /\ pc[c] = "answered"
      /\ kind(c) = "refresh" /\ stored \in Image
  BY Acts DEF Answered, VaultInv, TypeOK, Local, Route
<1>1. CASE Throw(c)
  <2>1. pc'[c] = "release"
    BY <1>0, <1>1 DEF Throw, Leave, Goto
  <2> QED BY <2>1, RefreshIdle
<1>2. CASE call' = [call EXCEPT ![c].incoming = incoming] /\ Goto(c, "persist")
  <2> HIDE DEF incoming
  <2>1. /\ pc'[c] = "persist" /\ call'[c].incoming = incoming /\ call'[c].creds = r.creds
        /\ call'[c].renewed = r.renewed /\ call'[c].opbase = r.opbase /\ kind(c)' = "refresh"
    BY <1>0, <1>2 DEF Goto, Calls, kind
  <2>2. PICK a \in Keys(stored) : stored[a].creds = r.creds
    BY <1>0 DEF RefreshOK
  <2>3. /\ stored = r.opbase /\ stored # Absent /\ r.creds.type = "oauth" /\ r.renewed.type = "oauth"
        /\ r.renewed.expires_at > r.creds.expires_at
    BY <1>0 DEF RefreshOK
  <2>4. incoming[a] # NoEntry /\ incoming[a].creds = r.renewed
    <3>1. Contents(r.opbase) = stored /\ stored \in KeyStore /\ a \in Alias /\ stored[a] \in Entry
      BY <1>0, <2>2, <2>3 DEF Contents, Image, Keys, KeyStore
    <3>2. incoming[a] = [stored[a] EXCEPT !.creds = r.renewed]
      BY <2>2, <2>3, <3>1 DEF incoming, Renewed, Entries
    <3>3. incoming[a] \in Entry /\ incoming[a].creds = r.renewed
      BY <1>0, <3>1, <3>2 DEF Entry, Calls
    <3> QED BY <3>3, VaultAssumption
  <2>5. stored' = stored
    BY DEF Answered, disk
  <2>6. a \in Keys(stored) /\ stored[a] # NoEntry
    BY DEF Keys
  <2> QED BY <2>1, <2>2, <2>3, <2>4, <2>5, <2>6 DEF RefreshOK, Renews
<1> QED BY <1>1, <1>2 DEF Answered

LEMMA PersistRefresh ==
  ASSUME VaultInv, NEW c \in Call, RefreshOK(c), Persist(c)
  PROVE  RefreshOK(c)'
<1>0. pc \in [Call -> Labels] /\ call \in [Call -> Calls] /\ pc[c] = "persist"
  BY DEF Persist, VaultInv, TypeOK
<1>1. CASE kind(c) # "refresh"
  <2>1. pc'[c] \in {"wait", "write"} /\ call'[c].op = call[c].op
    BY <1>0 DEF Persist, Goto, Calls
  <2> QED BY <1>1, <2>1, RefreshIdle DEF kind
<1>2. CASE kind(c) = "refresh"
  <2>1. holder = c
    BY <1>0, <1>2, Acts DEF Locked
  <2>2. call[c].opbase # Absent
    BY <1>0, <1>2 DEF RefreshOK
  <2>3. OwnBase(c) = call[c].opbase
    BY <2>2 DEF OwnBase, BaseOr
  <2>4. /\ pc'[c] = "write" /\ call'[c].base = call[c].opbase /\ call'[c].op = call[c].op
        /\ call'[c].creds = call[c].creds /\ call'[c].renewed = call[c].renewed
        /\ call'[c].incoming = call[c].incoming /\ stored' = stored
    BY <1>0, <2>1, <2>3 DEF Persist, Goto, Calls, disk
  <2> QED BY <1>0, <1>2, <2>4 DEF RefreshOK, Renews, kind
<1> QED BY <1>1, <1>2

LEMMA WriteRefresh ==
  ASSUME VaultInv, NEW c \in Call, RefreshOK(c), Write(c)
  PROVE  RefreshOK(c)'
<1> DEFINE r == call[c]
           current == Contents(stored)
           base == BaseOr(r.base, current)
<1>0. /\ pc \in [Call -> Labels] /\ call \in [Call -> Calls] /\ pc[c] = "write" /\ r \in Calls
      /\ stored \in Image
  BY DEF Write, VaultInv, TypeOK
<1>1. CASE kind(c) # "refresh"
  <2>1. pc'[c] \in {"release", "write", "sidecar"} /\ call'[c].op = r.op
    BY <1>0, <1>1 DEF Write, Finish, Leave, Goto, Calls
  <2> QED BY <1>1, <2>1, RefreshIdle DEF kind
<1>2. CASE kind(c) = "refresh"
  <2>1. /\ r.creds.type = "oauth" /\ r.renewed.type = "oauth"
        /\ r.renewed.expires_at > r.creds.expires_at /\ r.base # Absent /\ stored # Absent
    BY <1>0, <1>2 DEF RefreshOK
  <2>2. PICK a \in Keys(r.base) : /\ r.base[a].creds = r.creds /\ Renews(c, a)
                                  /\ stored[a] # NoEntry /\ stored[a].creds \in {r.creds, r.renewed}
    BY <1>0, <1>2 DEF RefreshOK
  <2>3. /\ current = stored /\ base = r.base /\ current \in KeyStore /\ base \in KeyStore
        /\ r.incoming \in KeyStore
    BY <1>0, <2>1, Acts DEF Contents, BaseOr, Image, Calls, Local, Carries
  <2> HIDE DEF base, current
  <2>4. PICK m \in MergeKeyStores(base, r.incoming, current, removal(c)) :
          LET flagged == Flagged(base, r.incoming, current, m)
          IN \/ stored' = m /\ pc'[c] = "settle" /\ call'[c] = r
             \/ /\ stored' \in {m, stored}
                /\ \/ pc'[c] = "write" /\ call' = [call EXCEPT ![c].attempt = @ + 1, ![c].incoming = flagged]
                   \/ pc'[c] = "sidecar" /\ call' = [call EXCEPT ![c].incoming = flagged, ![c].then = "sidecar"]
    BY <1>0, <1>2 DEF Write, Finish, Goto, base, current, Outside
  <2> DEFINE flagged == Flagged(base, r.incoming, current, m)
  <2>5. /\ a \in Alias /\ m \in KeyStore /\ m # Absent
        /\ m[a] # NoEntry /\ m[a].creds = r.renewed /\ flagged[a] = r.incoming[a]
    <3>1. a \in Keys(base) /\ r.incoming[a] # NoEntry /\ r.incoming[a].creds = r.renewed
      BY <2>2, <2>3 DEF Renews
    <3>2. m \in KeyStore
      BY <2>3, MergeAt
    <3>3. /\ base[a].creds.type = "oauth" /\ r.incoming[a].creds.type = "oauth"
          /\ r.incoming[a].creds.expires_at > base[a].creds.expires_at
          /\ current[a] # NoEntry /\ current[a].creds \in {base[a].creds, r.incoming[a].creds}
      BY <2>1, <2>2, <2>3, <3>1
    <3>4. /\ m[a] # NoEntry /\ m[a].creds = r.incoming[a].creds
          /\ Flagged(base, r.incoming, current, m)[a] = r.incoming[a]
      <4> DEFINE i == r.incoming
                 allow == removal(c)
      <4>1. /\ base \in KeyStore /\ i \in KeyStore /\ current \in KeyStore
            /\ m \in MergeKeyStores(base, i, current, allow)
            /\ a \in Keys(base) /\ i[a] # NoEntry /\ current[a] # NoEntry
            /\ base[a].creds.type = "oauth" /\ i[a].creds.type = "oauth"
            /\ i[a].creds.expires_at > base[a].creds.expires_at
            /\ current[a].creds \in {base[a].creds, i[a].creds}
        BY <2>3, <3>1, <3>3
      <4> HIDE DEF i, allow
      <4>2. /\ m[a] # NoEntry /\ m[a].creds = i[a].creds
            /\ Flagged(base, i, current, m)[a] = i[a]
        BY <4>1, RenewalWins
      <4> QED BY <4>2 DEF i
    <3> QED BY <3>1, <3>2, <3>4, VaultAssumption DEF Keys
  <2> HIDE DEF flagged
  <2>6. CASE stored' = m /\ pc'[c] = "settle" /\ call'[c] = r
    BY <2>5, <2>6 DEF RefreshOK, Saved, Contents, Keys
  <2>7. CASE stored' \in {m, stored} /\ pc'[c] = "write"
             /\ call' = [call EXCEPT ![c].attempt = @ + 1, ![c].incoming = flagged]
    <3>1. /\ call'[c].incoming = flagged /\ call'[c].creds = r.creds /\ call'[c].renewed = r.renewed
          /\ call'[c].base = r.base /\ kind(c)' = "refresh"
      BY <1>0, <1>2, <2>7 DEF Calls, kind
    <3>2. stored' # Absent /\ stored'[a] # NoEntry /\ stored'[a].creds \in {r.creds, r.renewed}
      BY <2>1, <2>2, <2>5, <2>7
    <3>3. Renews(c, a)'
      BY <2>2, <2>5, <3>1 DEF Renews
    <3> QED BY <2>1, <2>2, <2>7, <3>1, <3>2, <3>3 DEF RefreshOK
  <2>8. CASE pc'[c] = "sidecar" /\ call' = [call EXCEPT ![c].incoming = flagged, ![c].then = "sidecar"]
    <3>1. call'[c].incoming = flagged /\ call'[c].renewed = r.renewed
      BY <1>0, <2>8 DEF Calls
    <3>2. Renews(c, a)'
      BY <2>2, <2>5, <3>1 DEF Renews
    <3> QED BY <2>5, <2>8, <3>2 DEF RefreshOK
  <2> QED BY <2>4, <2>6, <2>7, <2>8 DEF flagged
<1> QED BY <1>1, <1>2

LEMMA WriteUnreadRefresh ==
  ASSUME VaultInv, NEW c \in Call, RefreshOK(c), WriteUnread(c)
  PROVE  RefreshOK(c)'
<1>0. pc \in [Call -> Labels] /\ call \in [Call -> Calls] /\ pc[c] = "write"
  BY DEF WriteUnread, VaultInv, TypeOK
<1>1. pc'[c] \in {"release", "sidecar"} /\ (kind(c) = "refresh" => pc'[c] = "sidecar")
  BY <1>0 DEF WriteUnread, Goto, Outside
<1>2. /\ call'[c].op = call[c].op /\ call'[c].incoming = call[c].incoming
      /\ call'[c].renewed = call[c].renewed
  BY <1>0 DEF WriteUnread, Calls
<1>3. CASE kind(c) # "refresh"
  BY <1>1, <1>2, <1>3, RefreshIdle DEF kind
<1>4. CASE kind(c) = "refresh"
  <2>1. PICK a \in Keys(call[c].base) : Renews(c, a)
    BY <1>0, <1>4 DEF RefreshOK
  <2>2. a \in Alias /\ Renews(c, a)'
    BY <1>2, <2>1 DEF Renews, Keys
  <2> QED BY <1>1, <1>4, <2>2 DEF RefreshOK
<1> QED BY <1>3, <1>4

LEMMA SidecarRefresh ==
  ASSUME VaultInv, NEW c \in Call, RefreshOK(c), Sidecar(c)
  PROVE  RefreshOK(c)'
<1>0. /\ pc \in [Call -> Labels] /\ call \in [Call -> Calls] /\ pc[c] = "sidecar"
      /\ pending \in [Call -> Sidecars \cup {Absent}] /\ call[c].incoming \in KeyStore
  BY Acts DEF Sidecar, VaultInv, TypeOK, Local, Carries
<1>1. CASE kind(c) # "refresh"
  <2>1. pc'[c] \in {"release"} \cup Over
    BY <1>0, <1>1 DEF Sidecar, Finish, Leave, End, Goto, Over
  <2> QED BY <2>1, RefreshIdle DEF Over
<1>2. CASE kind(c) = "refresh"
  <2>1. holder = c
    BY <1>0, <1>2, Acts DEF Locked
  <2>2. PICK a \in Alias : call[c].incoming[a] # NoEntry /\ call[c].incoming[a].creds = call[c].renewed
    BY <1>0, <1>2 DEF RefreshOK, Renews
  <2>3. pc'[c] = "settle"
    BY <1>0, <1>2, <2>1 DEF Sidecar, Finish, Goto
  <2>4. \/ call'[c].failure
        \/ /\ call' = call
           /\ pending' = [pending EXCEPT ![c] =
                [at |-> now, base |-> OwnBase(c), incoming |-> call[c].incoming,
                 allowRemovals |-> removal(c)]]
    BY <1>0, <1>2, <2>1 DEF Sidecar, Finish, Goto, Calls
  <2>5. CASE call'[c].failure
    BY <2>3, <2>5 DEF RefreshOK
  <2>6. CASE /\ call' = call
             /\ pending' = [pending EXCEPT ![c] =
                  [at |-> now, base |-> OwnBase(c), incoming |-> call[c].incoming,
                   allowRemovals |-> removal(c)]]
    <3>1. pending'[c].incoming = call[c].incoming /\ pending'[c] # Absent
      <4> DEFINE sidecar == [at |-> now, base |-> OwnBase(c), incoming |-> call[c].incoming,
                             allowRemovals |-> removal(c)]
      <4>1. pending'[c] = sidecar /\ sidecar.incoming = call[c].incoming
        BY <1>0, <2>6
      <4>2. sidecar # Absent
        BY <1>0, SidecarWritten DEF Sidecar
      <4> QED BY <4>1, <4>2
    <3>2. Saved(c)'
      BY <2>2, <2>6, <3>1 DEF Saved, Keys
    <3> QED BY <2>3, <3>2 DEF RefreshOK
  <2> QED BY <2>4, <2>5, <2>6
<1> QED BY <1>1, <1>2

(* The other actions take no refresh to where it has something to keep. *)
LEMMA OtherRefresh ==
  ASSUME VaultInv, NEW c \in Call,
         \/ Begin(c) \/ Scan(c) \/ Acquire(c) \/ TimeOut(c) \/ Release(c)
         \/ (\E d \in Call : Absorb(c, d)) \/ Discard(c) \/ Absorbed(c) \/ Get(c)
         \/ Read(c) \/ ReadFails(c) \/ Unread(c) \/ Settle(c) \/ Erase(c)
  PROVE  RefreshOK(c)'
<1>0. /\ pc \in [Call -> Labels] /\ call \in [Call -> Calls] /\ Route(pc[c], call[c])
      /\ kind(c) = call[c].op.kind
  BY Acts DEF VaultInv, TypeOK, Local
<1>1. CASE Begin(c) \/ Scan(c) \/ Acquire(c) \/ Get(c) \/ ReadFails(c)
  <2>1. pc'[c] \in {"scan", "wait", "read", "unread", "absorb"}
    BY <1>0, <1>1 DEF Begin, Scan, Acquire, Get, ReadFails, Goto
  <2> QED BY <2>1, RefreshIdle
<1>2. CASE TimeOut(c) \/ Release(c)
  <2>1. \/ pc'[c] \in Over \cup {"unread", "read", "queue"}
        \/ pc'[c] = "sidecar" /\ call' = call /\ kind(c) \in Outside
    BY <1>0, <1>2 DEF TimeOut, Release, Handler, End, Goto, Route, Over
  <2> QED BY <1>0, <2>1, RefreshIdle DEF Over, Outside
<1>3. CASE (\E d \in Call : Absorb(c, d)) \/ Discard(c)
  <2>1. pc'[c] \in {"discard", "absorb", "unread", "release"}
    BY <1>0, <1>3 DEF Absorb, Discard, Throw, Leave, Goto
  <2> QED BY <2>1, RefreshIdle
<1>4. CASE Absorbed(c)
  <2>1. \/ pc'[c] \in {"release", "body", "read"}
        \/ pc'[c] = "write" /\ call' = call /\ kind(c) \in Outside
    BY <1>0, <1>4 DEF Absorbed, Leave, Goto, Route
  <2> QED BY <1>0, <2>1, RefreshIdle DEF Outside
<1>5. CASE Read(c) \/ Unread(c)
  <2>1. \/ pc'[c] \in Over \cup {"wait", "release"}
        \/ pc'[c] = "persist" /\ kind(c) # "refresh" /\ call'[c].op = call[c].op
    <3>1. CASE Read(c)
      <4> DEFINE base == IF holder = c THEN stored ELSE Absent
      <4>1. \/ End(c, "done") \/ Goto(c, "wait") \/ Leave(c, "done")
            \/ /\ kind(c) # "refresh" /\ Goto(c, "persist")
               /\ \E edit \in Edits(c, Contents(stored)) :
                    call' = [call EXCEPT ![c].incoming = edit, ![c].opbase = base, ![c].base = stored]
        BY <3>1 DEF Read
      <4> HIDE DEF base
      <4>2. CASE End(c, "done") \/ Goto(c, "wait") \/ Leave(c, "done")
        BY <1>0, <4>2 DEF End, Leave, Goto, Over
      <4>3. ASSUME kind(c) # "refresh", Goto(c, "persist"), NEW edit,
                   call' = [call EXCEPT ![c].incoming = edit, ![c].opbase = base, ![c].base = stored]
            PROVE  pc'[c] = "persist" /\ kind(c) # "refresh" /\ call'[c].op = call[c].op
        BY <1>0, <4>3 DEF Goto, Calls
      <4> QED BY <4>1, <4>2, <4>3
    <3>2. CASE Unread(c)
      BY <1>0, <3>2 DEF Unread, End, Leave, Goto, Over, Calls
    <3> QED BY <1>5, <3>1, <3>2
  <2> QED BY <1>0, <2>1, RefreshIdle DEF Over
<1>6. CASE Settle(c) \/ Erase(c)
  <2>1. pc'[c] \in {"unread", "release"}
    BY <1>0, <1>6 DEF Settle, Erase, Throw, Leave, Goto
  <2> QED BY <2>1, RefreshIdle
<1> QED BY <1>1, <1>2, <1>3, <1>4, <1>5, <1>6

LEMMA RefreshStep ==
  ASSUME VaultInv, RefreshInv, [Next]_vars, \A l \in Lifetimes : l > Window
  PROVE  RefreshInv'
<1> SUFFICES ASSUME NEW d \in Call PROVE RefreshOK(d)'
  BY DEF RefreshInv
<1>0. RefreshOK(d)
  BY DEF RefreshInv
<1>1. ASSUME NEW c \in Call, Begin(c) \/ Proceed(c) PROVE RefreshOK(d)'
  <2>1. CASE c = d
    BY <1>0, <1>1, <2>1, RereadRefresh, AskRefresh, AnsweredRefresh, PersistRefresh, WriteRefresh,
       WriteUnreadRefresh, SidecarRefresh, OtherRefresh DEF Proceed
  <2>2. CASE c # d
    BY <1>0, <1>1, <2>2, Others, RefreshFrame
  <2> QED BY <2>1, <2>2
<1>2. ASSUME NEW p \in Process, Crash(p) PROVE RefreshOK(d)'
  <2>1. pc'[d] = "dead" \/ (pc'[d] = pc[d] /\ call'[d] = call[d])
    BY <1>2, CrashOf
  <2>2. UNCHANGED disk
    BY <1>2 DEF Crash
  <2> QED BY <1>0, <2>1, <2>2, RefreshIdle, RefreshFrame DEF disk
<1>3. CASE Tick \/ UNCHANGED vars
  BY <1>0, <1>3, RefreshFrame DEF Tick, vars, disk
<1> QED BY <1>1, <1>2, <1>3 DEF Next

LEMMA RefreshInit ==
  ASSUME Init
  PROVE  RefreshInv
<1>1. \A c \in Call : pc[c] = "idle"
  BY DEF Init
<1> QED BY <1>1 DEF RefreshInv, RefreshOK

(* The rotated token is durable before the lock is released.  Tokens must   *)
(* outlive the refresh window: the merge prefers the later expiry, and one  *)
(* that would expire sooner than the token it replaces is not stored.       *)
THEOREM RotationIsDurable ==
  ASSUME \A l \in Lifetimes : l > Window
  PROVE  Spec => []RotationDurable
<1>1. ASSUME VaultInv, RefreshInv PROVE RotationDurable
  <2> SUFFICES ASSUME NEW c \in Call, pc[c] = "settle", ~call[c].failure
               PROVE  call[c].renewed.secret \in Durable
    BY DEF RotationDurable
  <2>1. Saved(c)
    BY <1>1 DEF RefreshInv, RefreshOK
  <2>2. CASE \E a \in Keys(Contents(stored)) : stored[a].creds = call[c].renewed
    <3>1. stored # Absent
      BY <2>2 DEF Contents, Keys, EmptyStore
    <3> QED BY <2>2, <3>1 DEF Contents, Durable, Secrets
  <2>3. CASE /\ pending[c] # Absent
             /\ \E a \in Keys(pending[c].incoming) : pending[c].incoming[a].creds = call[c].renewed
    <3>1. c \in Pending
      BY <2>3 DEF Pending
    <3>2. call[c].renewed.secret \in Secrets(pending[c].incoming)
      BY <2>3 DEF Secrets
    <3> QED BY <3>1, <3>2 DEF Durable
  <2> QED BY <2>1, <2>2, <2>3 DEF Saved
<1>2. Init => VaultInv /\ RefreshInv
  BY InitStep, RefreshInit
<1>3. VaultInv /\ RefreshInv /\ [Next]_vars => (VaultInv /\ RefreshInv)'
  BY VaultStep, RefreshStep
<1> QED BY <1>1, <1>2, <1>3, PTL DEF Spec

-----------------------------------------------------------------------------
(* Where secrets are known, and where they come from. *)
LEMMA KnownStore ==
  ASSUME NEW M, NEW s \in KeyStore
  PROVE  /\ Contents(s) = s /\ Known(M, Absent) /\ Known(M, EmptyStore)
         /\ Known(M, s) <=> \A a \in Keys(s) : s[a].creds.secret \in M
<1>1. Contents(s) = s
  BY VaultAssumption DEF Contents
<1>2. Contents(Absent) = EmptyStore /\ Keys(EmptyStore) = {} /\ Contents(EmptyStore) = EmptyStore
  BY DEF Contents, Keys, EmptyStore
<1> QED BY <1>1, <1>2 DEF Known

LEMMA KnownMerge ==
  ASSUME NEW M, NEW b \in KeyStore, NEW i \in KeyStore, NEW s \in KeyStore, NEW allow,
         NEW m \in MergeKeyStores(b, i, s, allow), Known(M, i), Known(M, s)
  PROVE  m \in KeyStore /\ Known(M, m) /\ Known(M, Flagged(b, i, s, m))
<1> DEFINE r == Replay(b, i, s, allow)
<1>1. m \in KeyStore /\ \A a \in Alias : SameCreds(m[a], r[a])
  BY MergeAt
<1>2. \A a \in Alias : /\ i[a] # NoEntry => i[a].creds.secret \in M
                       /\ s[a] # NoEntry => s[a].creds.secret \in M
  BY KnownStore DEF Keys
<1>3. ASSUME NEW a \in Alias, r[a] # NoEntry PROVE r[a].creds.secret \in M
  <2>1. CASE a \in Added(b, i) \cup Modified(b, i)
    <3>1. i[a] # NoEntry
      BY <2>1 DEF Added, Modified, Keys
    <3>2. PickNewer(s[a], i[a]) \in {s[a], i[a]}
      BY DEF PickNewer
    <3>3. /\ s[a] = NoEntry => r[a] = i[a]
          /\ s[a] # NoEntry => r[a].creds = PickNewer(s[a], i[a]).creds
      BY <2>1, ReplayAt
    <3> QED BY <1>2, <3>1, <3>2, <3>3
  <2>2. CASE a \notin Added(b, i) \cup Modified(b, i)
    <3>1. r[a] \in {NoEntry, s[a]}
      BY <2>2, ReplayAt
    <3> QED BY <1>2, <1>3, <3>1
  <2> QED BY <2>1, <2>2
<1> HIDE DEF r
<1>4. ASSUME NEW a \in Keys(m) PROVE m[a].creds.secret \in M
  <2>1. a \in Alias /\ m[a] # NoEntry
    BY DEF Keys
  <2> QED BY <1>1, <1>3, <2>1 DEF SameCreds
<1>5. Known(M, m)
  BY <1>1, <1>4, KnownStore
<1>6. Flagged(b, i, s, m) \in KeyStore
  BY <1>1, FlaggedType
<1>7. ASSUME NEW a \in Keys(Flagged(b, i, s, m)) PROVE Flagged(b, i, s, m)[a].creds.secret \in M
  <2>1. a \in Alias /\ Flagged(b, i, s, m)[a] \in {m[a], i[a]} /\ Flagged(b, i, s, m)[a] # NoEntry
    BY DEF Keys, Flagged
  <2>2. m[a] # NoEntry => m[a].creds.secret \in M
    BY <1>4, <2>1 DEF Keys
  <2> QED BY <1>2, <2>1, <2>2
<1>8. Known(M, Flagged(b, i, s, m))
  BY <1>6, <1>7, KnownStore
<1> QED BY <1>1, <1>5, <1>8

LEMMA KnownEdits ==
  ASSUME VaultInv, NEW M, NEW c \in Call, NEW s \in KeyStore, Known(M, s)
  PROVE  /\ call[c].login.secret \in M => Known(M, Stored(c, s))
         /\ \A edit \in Edits(c, s) : call[c].login.secret \in M \/ kind(c) \notin {"set", "bare"}
                                         => Known(M, edit)
<1>0. \A a \in Alias : s[a] \in Entry \cup {NoEntry} /\ (s[a] # NoEntry => s[a].creds.secret \in M)
  BY KnownStore DEF Keys, KeyStore
<1>1. Stored(c, s) \in KeyStore
  BY StoredType, VaultAssumption, Acts
<1>2. ASSUME call[c].login.secret \in M PROVE Known(M, Stored(c, s))
  <2> SUFFICES ASSUME NEW a \in Keys(Stored(c, s)) PROVE Stored(c, s)[a].creds.secret \in M
    BY <1>1, KnownStore
  <2> DEFINE new == [creds |-> call[c].login, isDefault |-> call[c].op.default]
             old == [s[a] EXCEPT !.isDefault = FALSE]
  <2>1. a \in Alias /\ Stored(c, s)[a] # NoEntry
    BY DEF Keys
  <2>2. Stored(c, s)[a] = IF a = call[c].op.alias THEN new
                          ELSE IF call[c].op.default /\ s[a] # NoEntry THEN old ELSE s[a]
    BY <2>1, Zenon DEF Stored
  <2>3. new.creds = call[c].login /\ (s[a] # NoEntry => old.creds = s[a].creds)
    BY <1>0, <2>1 DEF Entry
  <2> HIDE DEF new, old
  <2> QED BY <1>0, <1>2, <2>1, <2>2, <2>3
<1>3. ASSUME NEW t \in KeyStore, NEW preferred, NEW m \in Normalize(t, preferred), Known(M, t)
      PROVE  Known(M, m)
  <2>1. m \in KeyStore /\ \A a \in Alias : SameCreds(m[a], t[a])
    BY NormalizeAt
  <2>2. \A a \in Keys(m) : m[a].creds.secret \in M
    BY <1>3, <2>1, KnownStore DEF SameCreds, Keys
  <2> QED BY <2>1, <2>2, KnownStore
<1>4. Without(call[c].op.alias, s) \in KeyStore /\ Known(M, Without(call[c].op.alias, s))
  <2> DEFINE w == Without(call[c].op.alias, s)
  <2>1. w \in KeyStore
    BY DEF Without, KeyStore
  <2>2. \A a \in Keys(w) : w[a] = s[a] /\ s[a] # NoEntry
    BY DEF Without, Keys, KeyStore
  <2>3. \A a \in Keys(w) : w[a].creds.secret \in M
    BY <1>0, <2>2 DEF Keys
  <2> HIDE DEF w
  <2>4. Known(M, w)
    BY <2>1, <2>3, KnownStore
  <2> QED BY <2>1, <2>4 DEF w
<1>5. ASSUME NEW edit \in Edits(c, s), call[c].login.secret \in M \/ kind(c) \notin {"set", "bare"}
      PROVE  Known(M, edit)
  <2>1. \/ call[c].op.kind \in {"set", "bare"} /\ edit = Stored(c, s)
        \/ edit = Without(call[c].op.alias, s)
        \/ edit \in Normalize(s, {call[c].op.alias})
        \/ edit \in Normalize(Without(call[c].op.alias, s), {})
    BY DEF Edits
  <2> QED BY <1>2, <1>3, <1>4, <1>5, <2>1 DEF kind
<1> QED BY <1>2, <1>5

LEMMA KnownRenewed ==
  ASSUME NEW M, NEW s \in KeyStore, NEW old \in Creds, NEW new \in Creds,
         Known(M, s), new.secret \in M
  PROVE  Known(M, Renewed(s, old, new))
<1>1. Renewed(s, old, new) \in KeyStore
  BY RenewedType
<1>2. ASSUME NEW a \in Keys(Renewed(s, old, new)) PROVE Renewed(s, old, new)[a].creds.secret \in M
  <2> DEFINE renewed == [s[a] EXCEPT !.creds = new]
  <2>1. a \in Alias /\ Renewed(s, old, new)[a] # NoEntry
    BY DEF Keys
  <2>2. Renewed(s, old, new)[a] = IF a \in Entries(s) /\ s[a].creds = old THEN renewed ELSE s[a]
    BY <2>1, Zenon DEF Renewed
  <2>3. s[a] \in Entry \cup {NoEntry} /\ (s[a] # NoEntry => s[a].creds.secret \in M)
    BY <2>1, KnownStore DEF Keys, KeyStore
  <2>4. s[a] # NoEntry => renewed.creds = new
    BY <2>3 DEF Entry
  <2> HIDE DEF renewed
  <2> QED BY <2>1, <2>2, <2>3, <2>4 DEF Entries, Keys
<1> QED BY <1>1, <1>2, KnownStore

(* A call goes on and what it knows, stores and remembers is in M. *)
LEMMA WithinGoes ==
  ASSUME NEW M, NEW c, Within(M, c), NEW d \in Call,
         \A e \in Call \ {d} : call'[e] = call[e],
         CallKnown(M, call'[d], d = c),
         stored' = stored \/ Known(M, stored'),
         \A p \in Process : lastRead'[p] = lastRead[p] \/ Known(M, lastRead'[p]),
         \A e \in Pending' : \/ e \in Pending /\ pending'[e] = pending[e]
                             \/ Known(M, pending'[e].base) /\ Known(M, pending'[e].incoming)
  PROVE  Within(M, c)'
<1>1. \A e \in Call : CallKnown(M, call'[e], e = c)
  BY DEF Within
<1>2. Known(M, stored') /\ \A p \in Process : Known(M, lastRead'[p])
  BY DEF Within
<1>3. \A e \in Pending' : Known(M, pending'[e].base) /\ Known(M, pending'[e].incoming)
  BY DEF Within
<1>4. /\ \A x : Known(M, x)' <=> Known(M, x)
      /\ \A x, y : CallKnown(M, x, y)' <=> CallKnown(M, x, y)
  BY DEF Known, CallKnown, Contents
<1> QED BY <1>1, <1>2, <1>3, <1>4 DEF Within

(* The call keeps its stores and credentials. *)
Keeps(c) ==
  /\ call'[c].login = call[c].login /\ call'[c].opbase = call[c].opbase
  /\ call'[c].base = call[c].base /\ call'[c].incoming = call[c].incoming
  /\ call'[c].creds = call[c].creds /\ call'[c].renewed = call[c].renewed

LEMMA Leaving ==
  ASSUME call \in [Call -> Calls], NEW c \in Call, Throw(c) \/ \E next : Leave(c, next)
  PROVE  Keeps(c) /\ \A e \in Call \ {c} : call'[e] = call[e]
<1>1. CASE UNCHANGED call
  BY <1>1 DEF Keeps
<1>2. ASSUME NEW next, call' = [call EXCEPT ![c].then = next]
      PROVE  Keeps(c) /\ \A e \in Call \ {c} : call'[e] = call[e]
  BY <1>2 DEF Keeps, Calls
<1> QED BY <1>1, <1>2 DEF Throw, Leave

LEMMA Ending ==
  ASSUME VaultInv, NEW M, 0 \in M, NEW c \in Call, NEW exempt
  PROVE  CallKnown(M, Cleared(c), exempt)
<1>1. /\ Cleared(c).login = NoCreds /\ Cleared(c).creds = NoCreds /\ Cleared(c).renewed = NoCreds
      /\ Cleared(c).opbase = Absent /\ Cleared(c).base = Absent /\ Cleared(c).incoming = Absent
  BY DEF Cleared, NoCall
<1>2. Known(M, Absent) /\ NoCreds.secret = 0
  <2>1. EmptyStore \in KeyStore
    BY DEF EmptyStore, KeyStore
  <2> QED BY <2>1, KnownStore DEF NoCreds
<1> QED BY <1>1, <1>2 DEF CallKnown

LEMMA WithinKeeps ==
  ASSUME VaultInv, NEW M, 0 \in M, NEW c, Within(M, c), NEW d \in Call,
         Keeps(d) \/ call'[d] = Cleared(d), \A e \in Call \ {d} : call'[e] = call[e],
         stored' = stored \/ Known(M, stored'),
         \A p \in Process : lastRead'[p] = lastRead[p] \/ Known(M, lastRead'[p]),
         \A e \in Pending' : e \in Pending /\ pending'[e] = pending[e]
  PROVE  Within(M, c)'
<1>1. CallKnown(M, call'[d], d = c)
  <2>1. CASE Keeps(d)
    BY <2>1 DEF Within, CallKnown, Keeps
  <2>2. CASE call'[d] = Cleared(d)
    BY <2>2, Ending
  <2> QED BY <2>1, <2>2
<1> QED BY <1>1, WithinGoes

LEMMA WithinQuiet ==
  ASSUME VaultInv, NEW M, 0 \in M, NEW c, Within(M, c), NEW d \in Call,
         \/ Scan(d) \/ Acquire(d) \/ TimeOut(d) \/ Release(d) \/ Discard(d) \/ Absorbed(d) \/ Get(d)
         \/ ReadFails(d) \/ Settle(d) \/ WriteUnread(d) \/ Erase(d)
  PROVE  Within(M, c)'
<1>0. call \in [Call -> Calls] /\ pending \in [Call -> Sidecars \cup {Absent}] /\ lastRead \in [Process -> Image]
  BY DEF VaultInv, TypeOK
<1>1. Known(M, Absent)
  <2>1. EmptyStore \in KeyStore
    BY DEF EmptyStore, KeyStore
  <2> QED BY <2>1, KnownStore
<1>2. CASE Scan(d) \/ Acquire(d) \/ TimeOut(d) \/ Release(d)
  <2>1. Keeps(d) \/ call'[d] = Cleared(d)
    BY <1>0, <1>2 DEF Scan, Acquire, TimeOut, Release, End, Keeps, Calls
  <2>2. (\A e \in Call \ {d} : call'[e] = call[e]) /\ UNCHANGED <<stored, lastRead, pending>>
    BY <1>0, <1>2 DEF Scan, Acquire, TimeOut, Release, End, disk, memory
  <2> QED BY <2>1, <2>2, WithinKeeps DEF Pending
<1>3. CASE Absorbed(d) \/ Get(d) \/ ReadFails(d) \/ WriteUnread(d)
  <2>1. Keeps(d)
    BY <1>0, <1>3, Leaving DEF Absorbed, Get, ReadFails, WriteUnread, Keeps, Calls
  <2>2. (\A e \in Call \ {d} : call'[e] = call[e]) /\ UNCHANGED <<stored, lastRead, pending>>
    BY <1>0, <1>3, Leaving DEF Absorbed, Get, ReadFails, WriteUnread, disk, memory
  <2> QED BY <2>1, <2>2, WithinKeeps DEF Pending
<1>4. CASE Discard(d)
  <2>1. Keeps(d) /\ \A e \in Call \ {d} : call'[e] = call[e]
    BY <1>0, <1>4, Leaving DEF Discard, Keeps
  <2>2. UNCHANGED <<stored, lastRead>> /\ \A e \in Pending' : e \in Pending /\ pending'[e] = pending[e]
    BY <1>0, <1>4 DEF Discard, memory, Pending
  <2> QED BY <2>1, <2>2, WithinKeeps
<1>5. CASE Settle(d)
  <2>1. Keeps(d) /\ \A e \in Call \ {d} : call'[e] = call[e]
    BY <1>0, <1>5, Leaving DEF Settle
  <2>2. UNCHANGED <<stored, lastRead, pending>>
    BY <1>5 DEF Settle, disk
  <2> QED BY <2>1, <2>2, WithinKeeps DEF Pending
<1>6. CASE Erase(d)
  <2>1. Keeps(d) /\ \A e \in Call \ {d} : call'[e] = call[e]
    BY <1>0, <1>6, Leaving DEF Erase
  <2>2. /\ UNCHANGED pending /\ stored' \in {stored, Absent}
        /\ \A p \in Process : lastRead'[p] \in {lastRead[p], Absent}
    BY <1>0, <1>6 DEF Erase
  <2> QED BY <1>1, <2>1, <2>2, WithinKeeps DEF Pending
<1> QED BY <1>2, <1>3, <1>4, <1>5, <1>6

LEMMA WithinBegin ==
  ASSUME VaultInv, NEW M, 0 \in M, NEW c, Within(M, c), NEW d \in Call, Begin(d),
         issued' = issued \/ issued' \in M \/ d = c
  PROVE  Within(M, c)'
<1>0. call \in [Call -> Calls] /\ issued \in Nat
  BY DEF VaultInv, TypeOK
<1>1. PICK login \in Login(call[d].op) :
        /\ call' = [call EXCEPT ![d].login = login, ![d].then = "body"]
        /\ issued' = IF login = NoCreds THEN issued ELSE issued + 1
  BY DEF Begin
<1>2. /\ call'[d].login = login /\ call'[d].opbase = call[d].opbase
      /\ call'[d].base = call[d].base /\ call'[d].incoming = call[d].incoming
      /\ call'[d].creds = call[d].creds /\ call'[d].renewed = call[d].renewed
      /\ \A e \in Call \ {d} : call'[e] = call[e]
  BY <1>0, <1>1 DEF Calls
<1>3. d = c \/ login.secret \in M
  <2>1. login = NoCreds \/ login.secret = issued + 1
    BY DEF Login
  <2>2. CASE login = NoCreds
    BY <2>2 DEF NoCreds
  <2>3. CASE login # NoCreds
    BY <1>0, <1>1, <2>1, <2>3
  <2> QED BY <2>2, <2>3
<1>4. CallKnown(M, call'[d], d = c)
  BY <1>2, <1>3 DEF Within, CallKnown
<1>5. UNCHANGED <<stored, lastRead, pending>>
  BY DEF Begin, disk, memory
<1> QED BY <1>2, <1>4, <1>5, WithinGoes DEF Pending

LEMMA WithinAbsorb ==
  ASSUME VaultInv, NEW M, 0 \in M, NEW c, Within(M, c), NEW d \in Call, NEW e \in Call, Absorb(d, e)
  PROVE  Within(M, c)'
<1> DEFINE s == Contents(stored)
           p == pending[e]
           b == BaseOr(p.base, s)
<1>0. call \in [Call -> Calls] /\ s \in KeyStore
  BY ContentsType, VaultAssumption DEF VaultInv, TypeOK
<1>1. e \in Pending /\ p \in Sidecars
  BY Acts DEF Absorb, Oldest, Recovers, Pending, Globals
<1>2. /\ b \in KeyStore /\ p.incoming \in KeyStore /\ Known(M, p.incoming) /\ Known(M, s)
  BY <1>0, <1>1, KnownStore DEF BaseOr, Sidecars, Image, Within, Known
<1>3. PICK m \in MergeKeyStores(b, p.incoming, s, p.allowRemovals) :
        /\ stored' = m \/ stored' = stored
        /\ \/ call' = [call EXCEPT ![d].todo = @ \ {e}, ![d].file = e]
           \/ Throw(d)
  BY DEF Absorb
<1> HIDE DEF b, p, s
<1>4. Known(M, m)
  BY <1>0, <1>2, KnownMerge
<1>5. Keeps(d) /\ \A x \in Call \ {d} : call'[x] = call[x]
  BY <1>0, <1>3, Leaving DEF Keeps, Calls
<1>6. UNCHANGED <<lastRead, pending>>
  BY DEF Absorb, memory
<1> QED BY <1>3, <1>4, <1>5, <1>6, WithinKeeps DEF Pending

LEMMA WithinRead ==
  ASSUME VaultInv, NEW M, 0 \in M, NEW c, Within(M, c), NEW d \in Call, Read(d)
  PROVE  Within(M, c)'
<1> DEFINE s == Contents(stored)
           base == IF holder = d THEN stored ELSE Absent
<1>0. /\ call \in [Call -> Calls] /\ s \in KeyStore /\ lastRead \in [Process -> Image]
      /\ Known(M, s) /\ Known(M, stored) /\ Known(M, base)
  <2>1. s \in KeyStore
    BY ContentsType, VaultAssumption DEF VaultInv, TypeOK
  <2>2. Known(M, stored) /\ Known(M, s)
    BY <2>1, KnownStore DEF Within, Known
  <2>3. Known(M, base)
    BY <2>1, <2>2, KnownStore
  <2> QED BY <2>1, <2>2, <2>3 DEF VaultInv, TypeOK
<1>1. UNCHANGED <<stored, pending>> /\ \A p \in Process : lastRead'[p] \in {lastRead[p], stored}
  BY <1>0 DEF Read, disk
<1>2. \/ End(d, "done") \/ Leave(d, "done")
      \/ InRefreshWindow(s, call[d].op.alias)
         /\ call' = [call EXCEPT ![d].creds = s[call[d].op.alias].creds, ![d].then = "body"]
      \/ \E edit \in Edits(d, s) :
            call' = [call EXCEPT ![d].incoming = edit, ![d].opbase = base, ![d].base = stored]
  BY DEF Read
<1> HIDE DEF s, base
<1>3. CASE End(d, "done") \/ Leave(d, "done")
  <2>1. Keeps(d) \/ call'[d] = Cleared(d)
    BY <1>0, <1>3, Leaving DEF End
  <2>2. \A e \in Call \ {d} : call'[e] = call[e]
    BY <1>0, <1>3, Leaving DEF End
  <2> QED BY <1>0, <1>1, <2>1, <2>2, WithinKeeps DEF Pending
<1>4. CASE InRefreshWindow(s, call[d].op.alias)
           /\ call' = [call EXCEPT ![d].creds = s[call[d].op.alias].creds, ![d].then = "body"]
  <2> DEFINE x == s[call[d].op.alias].creds
  <2>1. x.secret \in M
    BY <1>0, <1>4, KnownStore DEF InRefreshWindow, Entries
  <2> HIDE DEF x
  <2>2. /\ call'[d].login = call[d].login /\ call'[d].opbase = call[d].opbase
        /\ call'[d].base = call[d].base /\ call'[d].incoming = call[d].incoming
        /\ call'[d].creds = x /\ call'[d].renewed = call[d].renewed
        /\ \A e \in Call \ {d} : call'[e] = call[e]
    BY <1>0, <1>4 DEF Calls, x
  <2>3. CallKnown(M, call'[d], d = c)
    BY <2>1, <2>2 DEF Within, CallKnown
  <2> QED BY <1>0, <1>1, <2>2, <2>3, WithinGoes DEF Pending
<1>5. ASSUME NEW edit \in Edits(d, s),
             call' = [call EXCEPT ![d].incoming = edit, ![d].opbase = base, ![d].base = stored]
      PROVE  Within(M, c)'
  <2>1. d = c \/ Known(M, edit)
    BY <1>0, KnownEdits DEF Within, CallKnown
  <2>2. /\ call'[d].login = call[d].login /\ call'[d].opbase = base
        /\ call'[d].base = stored /\ call'[d].incoming = edit
        /\ call'[d].creds = call[d].creds /\ call'[d].renewed = call[d].renewed
        /\ \A e \in Call \ {d} : call'[e] = call[e]
    BY <1>0, <1>5 DEF Calls
  <2>3. CallKnown(M, call'[d], d = c)
    BY <1>0, <2>1, <2>2 DEF Within, CallKnown
  <2> QED BY <1>0, <1>1, <2>2, <2>3, WithinGoes DEF Pending
<1> QED BY <1>2, <1>3, <1>4, <1>5

LEMMA WithinUnread ==
  ASSUME VaultInv, NEW M, 0 \in M, NEW c, Within(M, c), NEW d \in Call, Unread(d)
  PROVE  Within(M, c)'
<1>0. call \in [Call -> Calls] /\ UNCHANGED <<stored, lastRead, pending>>
  BY DEF Unread, disk, memory, VaultInv, TypeOK
<1>1. CASE Leave(d, "failed") \/ End(d, "failed")
  <2>1. Keeps(d) \/ call'[d] = Cleared(d)
    BY <1>0, <1>1, Leaving DEF End
  <2>2. \A e \in Call \ {d} : call'[e] = call[e]
    BY <1>0, <1>1, Leaving DEF End
  <2> QED BY <1>0, <2>1, <2>2, WithinKeeps DEF Pending
<1>2. CASE call' = [call EXCEPT ![d].incoming = Stored(d, EmptyStore)]
  <2>1. d = c \/ Known(M, Stored(d, EmptyStore))
    <3>1. EmptyStore \in KeyStore
      BY DEF EmptyStore, KeyStore
    <3> QED BY <3>1, KnownStore, KnownEdits DEF Within, CallKnown
  <2>2. /\ call'[d].login = call[d].login /\ call'[d].opbase = call[d].opbase
        /\ call'[d].base = call[d].base /\ call'[d].incoming = Stored(d, EmptyStore)
        /\ call'[d].creds = call[d].creds /\ call'[d].renewed = call[d].renewed
        /\ \A e \in Call \ {d} : call'[e] = call[e]
    BY <1>0, <1>2 DEF Calls
  <2>3. CallKnown(M, call'[d], d = c)
    BY <2>1, <2>2 DEF Within, CallKnown
  <2> QED BY <1>0, <2>2, <2>3, WithinGoes DEF Pending
<1> QED BY <1>1, <1>2 DEF Unread

LEMMA WithinReread ==
  ASSUME VaultInv, NEW M, 0 \in M, NEW c, Within(M, c), NEW d \in Call, Reread(d)
  PROVE  Within(M, c)'
<1>0. call \in [Call -> Calls] /\ UNCHANGED <<stored, lastRead, pending>>
  BY DEF Reread, disk, memory, VaultInv, TypeOK
<1>1. CASE Throw(d)
  BY <1>0, <1>1, Leaving, WithinKeeps DEF Pending
<1>2. ASSUME NEW x \in {stored[a].creds : a \in Candidates(d)},
             call' = [call EXCEPT ![d].creds = x, ![d].opbase = stored, ![d].base = stored]
      PROVE  Within(M, c)'
  <2>1. Known(M, stored)
    BY DEF Within
  <2>2. x.secret \in M
    <3>1. PICK a \in Candidates(d) : x = stored[a].creds
      BY <1>2
    <3>2. a \in Keys(Contents(stored))
      BY DEF Candidates, Entries
    <3>3. Contents(stored) = stored
      BY <3>2 DEF Contents, Keys, EmptyStore
    <3> QED BY <2>1, <3>1, <3>2, <3>3 DEF Known
  <2>3. /\ call'[d].login = call[d].login /\ call'[d].opbase = stored
        /\ call'[d].base = stored /\ call'[d].incoming = call[d].incoming
        /\ call'[d].creds = x /\ call'[d].renewed = call[d].renewed
        /\ \A e \in Call \ {d} : call'[e] = call[e]
    BY <1>0, <1>2 DEF Calls
  <2>4. CallKnown(M, call'[d], d = c)
    BY <2>1, <2>2, <2>3 DEF Within, CallKnown
  <2> QED BY <1>0, <2>3, <2>4, WithinGoes DEF Pending
<1> QED BY <1>1, <1>2 DEF Reread

LEMMA WithinAsk ==
  ASSUME VaultInv, NEW M, 0 \in M, NEW c, Within(M, c), NEW d \in Call, Ask(d),
         issued' = issued \/ issued' \in M
  PROVE  Within(M, c)'
<1> DEFINE old == call[d].creds
           Answer(new, life) == [old EXCEPT !.secret = new, !.expires_at = now + life]
<1>0. call \in [Call -> Calls] /\ issued \in Nat /\ UNCHANGED <<stored, lastRead, pending>>
  BY DEF Ask, disk, memory, VaultInv, TypeOK
<1>1. CASE Throw(d) \/ Leave(d, "done")
  BY <1>0, <1>1, Leaving, WithinKeeps DEF Pending
<1>2. ASSUME NEW life \in Lifetimes, NEW new \in {old.secret, issued + 1},
             issued' = IF new = old.secret THEN issued ELSE new,
             call' = [call EXCEPT ![d].renewed = Answer(new, life)]
      PROVE  Within(M, c)'
  <2>1. old.secret \in M /\ old \in Creds
    BY <1>0 DEF Within, CallKnown, Calls
  <2>2. new \in M
    BY <1>0, <1>2, <2>1
  <2>3. Answer(new, life).secret = new
    BY <2>1 DEF Creds
  <2> HIDE DEF Answer
  <2>4. /\ call'[d].login = call[d].login /\ call'[d].opbase = call[d].opbase
        /\ call'[d].base = call[d].base /\ call'[d].incoming = call[d].incoming
        /\ call'[d].creds = call[d].creds /\ call'[d].renewed = Answer(new, life)
        /\ \A e \in Call \ {d} : call'[e] = call[e]
    BY <1>0, <1>2 DEF Calls
  <2>5. CallKnown(M, call'[d], d = c)
    BY <2>2, <2>3, <2>4 DEF Within, CallKnown
  <2> QED BY <1>0, <2>4, <2>5, WithinGoes DEF Pending
<1> QED BY <1>1, <1>2 DEF Ask

LEMMA WithinAnswered ==
  ASSUME VaultInv, NEW M, 0 \in M, NEW c, Within(M, c), NEW d \in Call, Answered(d)
  PROVE  Within(M, c)'
<1> DEFINE s == Contents(call[d].opbase)
           incoming == Renewed(s, call[d].creds, call[d].renewed)
<1>0. call \in [Call -> Calls] /\ UNCHANGED <<stored, lastRead, pending>>
  BY DEF Answered, disk, memory, VaultInv, TypeOK
<1>1. CASE Throw(d)
  BY <1>0, <1>1, Leaving, WithinKeeps DEF Pending
<1>2. CASE call' = [call EXCEPT ![d].incoming = incoming]
  <2>1. s \in KeyStore /\ call[d].creds \in Creds /\ call[d].renewed \in Creds
    BY <1>0, ContentsType, VaultAssumption DEF Calls
  <2>2. Known(M, s) /\ call[d].renewed.secret \in M
    BY <2>1, KnownStore DEF Within, CallKnown, Known
  <2>3. Known(M, incoming)
    BY <2>1, <2>2, KnownRenewed
  <2> HIDE DEF incoming
  <2>4. /\ call'[d].login = call[d].login /\ call'[d].opbase = call[d].opbase
        /\ call'[d].base = call[d].base /\ call'[d].incoming = incoming
        /\ call'[d].creds = call[d].creds /\ call'[d].renewed = call[d].renewed
        /\ \A e \in Call \ {d} : call'[e] = call[e]
    BY <1>0, <1>2 DEF Calls
  <2>5. CallKnown(M, call'[d], d = c)
    BY <2>3, <2>4 DEF Within, CallKnown
  <2> QED BY <1>0, <2>4, <2>5, WithinGoes DEF Pending
<1> QED BY <1>1, <1>2 DEF Answered

LEMMA WithinPersist ==
  ASSUME VaultInv, NEW M, 0 \in M, NEW c, Within(M, c), NEW d \in Call, Persist(d)
  PROVE  Within(M, c)'
<1> DEFINE opbase == IF kind(d) = "intent" THEN lastRead[ProcOf(d)] ELSE call[d].opbase
<1>0. call \in [Call -> Calls] /\ UNCHANGED <<stored, lastRead, pending>> /\ ProcOf(d) \in Process
  BY Acts DEF Persist, disk, memory, VaultInv, TypeOK
<1>1. Known(M, opbase) /\ Known(M, OwnBase(d))
  BY <1>0 DEF Within, CallKnown, OwnBase, BaseOr
<1> HIDE DEF opbase
<1>2. /\ call'[d].login = call[d].login /\ call'[d].opbase = opbase
      /\ call'[d].base = OwnBase(d) /\ call'[d].incoming = call[d].incoming
      /\ call'[d].creds = call[d].creds /\ call'[d].renewed = call[d].renewed
      /\ \A e \in Call \ {d} : call'[e] = call[e]
  BY <1>0 DEF Persist, Calls, opbase
<1>3. CallKnown(M, call'[d], d = c)
  BY <1>1, <1>2 DEF Within, CallKnown
<1> QED BY <1>0, <1>2, <1>3, WithinGoes DEF Pending

(* What a call writes leaves it; a call with a login of its own that is     *)
(* exempt does not write.                                                   *)
LEMMA WithinWrite ==
  ASSUME VaultInv, NEW M, 0 \in M, NEW c, Within(M, c), NEW d \in Call, Write(d), d # c
  PROVE  Within(M, c)'
<1> DEFINE s == Contents(stored)
           b == BaseOr(call[d].base, s)
           i == call[d].incoming
<1>0. /\ call \in [Call -> Calls] /\ UNCHANGED pending /\ lastRead \in [Process -> Image]
      /\ s \in KeyStore /\ b \in KeyStore /\ i \in KeyStore
  <2>1. s \in KeyStore
    BY ContentsType, VaultAssumption, Acts DEF Globals
  <2> QED BY <2>1, Acts DEF Write, VaultInv, TypeOK, BaseOr, Image, Local, Carries, Calls
<1>1. Known(M, s) /\ Known(M, i)
  BY <1>0, KnownStore DEF Within, CallKnown, Known
<1>2. PICK m \in MergeKeyStores(b, i, s, removal(d)) :
        /\ stored' = m \/ stored' = stored
        /\ \A p \in Process : lastRead'[p] = m \/ lastRead'[p] = lastRead[p]
        /\ \/ Finish(d)
           \/ call' = [call EXCEPT ![d].attempt = @ + 1, ![d].incoming = Flagged(b, i, s, m)]
           \/ call' = [call EXCEPT ![d].incoming = Flagged(b, i, s, m), ![d].then = "sidecar"]
  BY <1>0 DEF Write
<1> DEFINE flagged == Flagged(b, i, s, m)
<1> HIDE DEF b, i, s
<1>3. Known(M, m) /\ Known(M, flagged)
  BY <1>0, <1>1, KnownMerge
<1> HIDE DEF flagged
<1>4. CASE Finish(d)
  <2>1. Keeps(d) /\ \A e \in Call \ {d} : call'[e] = call[e]
    BY <1>0, <1>4, Leaving DEF Finish, Keeps
  <2> QED BY <1>0, <1>2, <1>3, <2>1, WithinKeeps DEF Pending
<1>5. CASE \/ call' = [call EXCEPT ![d].attempt = @ + 1, ![d].incoming = flagged]
           \/ call' = [call EXCEPT ![d].incoming = flagged, ![d].then = "sidecar"]
  <2>1. /\ call'[d].login = call[d].login /\ call'[d].opbase = call[d].opbase
        /\ call'[d].base = call[d].base /\ call'[d].incoming = flagged
        /\ call'[d].creds = call[d].creds /\ call'[d].renewed = call[d].renewed
        /\ \A e \in Call \ {d} : call'[e] = call[e]
    BY <1>0, <1>5 DEF Calls
  <2>2. CallKnown(M, call'[d], d = c)
    BY <1>3, <2>1 DEF Within, CallKnown
  <2> QED BY <1>0, <1>2, <1>3, <2>1, <2>2, WithinGoes DEF Pending
<1> QED BY <1>2, <1>4, <1>5 DEF flagged

LEMMA WithinSidecar ==
  ASSUME VaultInv, NEW M, 0 \in M, NEW c, Within(M, c), NEW d \in Call, Sidecar(d), d # c
  PROVE  Within(M, c)'
<1>0. /\ call \in [Call -> Calls] /\ UNCHANGED <<stored, lastRead>> /\ ProcOf(d) \in Process
      /\ pending \in [Call -> Sidecars \cup {Absent}]
  BY Acts DEF Sidecar, memory, VaultInv, TypeOK
<1>1. Known(M, OwnBase(d)) /\ Known(M, call[d].incoming)
  BY <1>0 DEF Within, CallKnown, OwnBase, BaseOr
<1>2. \A e \in Pending' : \/ e \in Pending /\ pending'[e] = pending[e]
                          \/ Known(M, pending'[e].base) /\ Known(M, pending'[e].incoming)
  <2>1. \A e \in Call : \/ pending'[e] = pending[e]
                        \/ pending'[e].base = OwnBase(d) /\ pending'[e].incoming = call[d].incoming
    BY <1>0 DEF Sidecar
  <2> QED BY <1>1, <2>1 DEF Pending
<1>3. Keeps(d) \/ call'[d] = Cleared(d)
  BY <1>0, Leaving DEF Sidecar, Finish, End, Keeps, Calls
<1>4. \A e \in Call \ {d} : call'[e] = call[e]
  BY <1>0, Leaving DEF Sidecar, Finish, End
<1>5. CallKnown(M, call'[d], d = c)
  <2>1. CASE Keeps(d)
    BY <2>1 DEF Within, CallKnown, Keeps
  <2>2. CASE call'[d] = Cleared(d)
    BY <2>2, Ending
  <2> QED BY <1>3, <2>1, <2>2
<1> QED BY <1>0, <1>2, <1>4, <1>5, WithinGoes

LEMMA WithinCrash ==
  ASSUME VaultInv, NEW M, 0 \in M, NEW c, Within(M, c), NEW p \in Process, Crash(p)
  PROVE  Within(M, c)'
<1> DEFINE victims == {d \in Call : ProcOf(d) = p /\ Live(d)}
<1>1. /\ call' = [d \in Call |-> IF d \in victims THEN Cleared(d) ELSE call[d]]
      /\ lastRead' = [lastRead EXCEPT ![p] = Absent] /\ UNCHANGED <<stored, pending>>
  BY DEF Crash, disk
<1> HIDE DEF victims
<1>2. \A d \in Call : CallKnown(M, call'[d], d = c)
  <2> SUFFICES ASSUME NEW d \in Call PROVE CallKnown(M, call'[d], d = c)
    OBVIOUS
  <2>1. CASE d \in victims
    BY <1>1, <2>1, Ending
  <2>2. CASE d \notin victims
    BY <1>1, <2>2 DEF Within
  <2> QED BY <2>1, <2>2
<1>3. \A q \in Process : Known(M, lastRead'[q])
  <2>1. EmptyStore \in KeyStore
    BY DEF EmptyStore, KeyStore
  <2>2. Known(M, Absent)
    BY <2>1, KnownStore
  <2>3. \A q \in Process : lastRead'[q] \in {Absent, lastRead[q]}
    BY <1>1 DEF VaultInv, TypeOK
  <2> QED BY <2>2, <2>3 DEF Within
<1>4. Known(M, stored') /\ \A d \in Pending' : Known(M, pending'[d].base) /\ Known(M, pending'[d].incoming)
  BY <1>1 DEF Within, Pending
<1>5. /\ \A x : Known(M, x)' <=> Known(M, x)
      /\ \A x, y : CallKnown(M, x, y)' <=> CallKnown(M, x, y)
  BY DEF Known, CallKnown, Contents
<1> QED BY <1>2, <1>3, <1>4, <1>5 DEF Within

(* A secret comes to be known only when the server makes it or its login's  *)
(* call writes it.                                                          *)
LEMMA WithinStep ==
  ASSUME VaultInv, NEW M, 0 \in M, NEW c, Within(M, c), [Next]_vars,
         issued' = issued \/ issued' \in M \/ (c \in Call /\ pc[c] = "idle" /\ pc'[c] # "idle"),
         c \in Call => pc[c] \notin {"write", "sidecar"}
  PROVE  Within(M, c)'
<1>1. ASSUME NEW d \in Call, Begin(d) PROVE Within(M, c)'
  <2>1. d = c \/ issued' = issued \/ issued' \in M
    BY <1>1, Others
  <2> QED BY <1>1, <2>1, WithinBegin
<1>2. ASSUME NEW d \in Call, Proceed(d) PROVE Within(M, c)'
  <2>1. CASE \/ Scan(d) \/ Acquire(d) \/ TimeOut(d) \/ Release(d) \/ Discard(d) \/ Absorbed(d) \/ Get(d)
             \/ ReadFails(d) \/ Settle(d) \/ WriteUnread(d) \/ Erase(d)
    BY <2>1, WithinQuiet
  <2>2. CASE \E e \in Call : Absorb(d, e)
    BY <2>2, WithinAbsorb
  <2>3. CASE Read(d) \/ Unread(d) \/ Reread(d)
    BY <2>3, WithinRead, WithinUnread, WithinReread
  <2>4. CASE Ask(d)
    <3>1. c \in Call /\ pc[c] = "idle" => pc'[c] = "idle"
      BY <1>2, <2>4, Others DEF Ask
    <3> QED BY <2>4, <3>1, WithinAsk
  <2>5. CASE Answered(d) \/ Persist(d)
    BY <2>5, WithinAnswered, WithinPersist
  <2>6. CASE Write(d) \/ Sidecar(d)
    <3>1. d # c
      BY <2>6 DEF Write, Sidecar
    <3> QED BY <2>6, <3>1, WithinWrite, WithinSidecar
  <2> QED BY <1>2, <2>1, <2>2, <2>3, <2>4, <2>5, <2>6 DEF Proceed
<1>3. CASE \E p \in Process : Crash(p)
  BY <1>3, WithinCrash
<1>4. CASE Tick \/ UNCHANGED vars
  BY <1>4 DEF Tick, vars, disk, memory, Within, CallKnown, Known, Contents, Pending
<1> QED BY <1>1, <1>2, <1>3, <1>4 DEF Next

LEMMA WithinMore ==
  ASSUME NEW M, NEW N, M \subseteq N, NEW c, Within(M, Nobody)
  PROVE  Within(N, c)
<1>1. Nobody \notin Call
  BY VaultAssumption
<1>2. \A x : Known(M, x) => Known(N, x)
  BY DEF Known
<1>3. ASSUME NEW d \in Call PROVE CallKnown(N, call[d], d = c)
  <2>1. CallKnown(M, call[d], FALSE)
    BY <1>1 DEF Within, CallKnown
  <2> QED BY <1>2, <2>1 DEF CallKnown
<1> QED BY <1>2, <1>3 DEF Within

LEMMA IssuedGrows ==
  ASSUME VaultInv, [Next]_vars
  PROVE  issued \in Nat /\ issued' \in {issued, issued + 1}
<1>1. issued \in Nat
  BY DEF VaultInv, TypeOK
<1>2. ASSUME NEW c \in Call, Begin(c) \/ Proceed(c) PROVE issued' \in {issued, issued + 1}
  <2>1. CASE Begin(c)
    BY <2>1 DEF Begin
  <2>2. CASE Scan(c) \/ Acquire(c) \/ TimeOut(c) \/ Release(c)
    BY <2>2 DEF Scan, Acquire, TimeOut, Release, server
  <2>3. CASE (\E e \in Call : Absorb(c, e)) \/ Discard(c) \/ Absorbed(c) \/ Get(c)
    BY <2>3 DEF Absorb, Discard, Absorbed, Get, server
  <2>4. CASE Read(c) \/ ReadFails(c) \/ Unread(c) \/ Reread(c)
    BY <2>4 DEF Read, ReadFails, Unread, Reread, server
  <2>5. CASE Ask(c)
    BY <1>1, <2>5 DEF Ask, server
  <2>6. CASE \/ Answered(c) \/ Settle(c) \/ Persist(c) \/ Write(c) \/ WriteUnread(c)
             \/ Sidecar(c) \/ Erase(c)
    BY <2>6 DEF Answered, Settle, Persist, Write, WriteUnread, Sidecar, Erase, server
  <2> QED BY <1>2, <2>1, <2>2, <2>3, <2>4, <2>5, <2>6 DEF Proceed
<1>3. ASSUME NEW p \in Process, Crash(p) PROVE issued' = issued
  BY <1>3 DEF Crash
<1>4. ASSUME Tick \/ UNCHANGED vars PROVE issued' = issued
  <2>1. UNCHANGED server
    BY <1>4 DEF Tick, vars
  <2> QED BY <2>1 DEF server
<1> QED BY <1>1, <1>2, <1>3, <1>4 DEF Next

(* A login that nobody has written yet is in a call that has just begun, or *)
(* was so before.                                                           *)
LEMMA EarlyOn ==
  ASSUME VaultInv, [Next]_vars, NEW c \in Call, call'[c].op.kind = "set", pc'[c] \in Early
  PROVE  /\ kind(c) = "set"
         /\ \/ pc[c] \in Early /\ call'[c].login = call[c].login
            \/ Begin(c) /\ pc[c] = "idle"
<1>0. pc \in [Call -> Labels] /\ call \in [Call -> Calls] /\ Route(pc[c], call[c])
  BY Acts DEF VaultInv, TypeOK, Local
<1>1. CASE pc'[c] = pc[c] /\ call'[c] = call[c]
  BY <1>1 DEF kind
<1>2. CASE pc'[c] = "dead"
  BY <1>2 DEF Early
<1>3. CASE Begin(c)
  <2>1. PICK login : call' = [call EXCEPT ![c].login = login, ![c].then = "body"]
    BY <1>3 DEF Begin
  <2>2. call'[c].op = call[c].op
    BY <1>0, <2>1 DEF Calls
  <2> QED BY <1>3, <2>2 DEF Begin, kind
<1>4. CASE Proceed(c)
  <2>1. CASE Scan(c) \/ Acquire(c) \/ TimeOut(c) \/ Release(c)
    BY <1>0, <2>1 DEF Scan, Acquire, TimeOut, Release, End, Goto, Early, Over, Calls, kind,
                      Route, Reading, Outside, Transfers, Handler, Cleared
  <2>2. CASE (\E e \in Call : Absorb(c, e)) \/ Discard(c) \/ Absorbed(c) \/ Get(c)
    <3>1. pc[c] \in Early
      BY <2>2 DEF Absorb, Discard, Absorbed, Get, Early
    <3>2. CASE \E e \in Call : Absorb(c, e)
      <4>1. PICK e : Throw(c) \/ call' = [call EXCEPT ![c].todo = @ \ {e}, ![c].file = e]
        BY <3>2 DEF Absorb
      <4>2. call'[c].op = call[c].op /\ call'[c].login = call[c].login
        BY <1>0, <4>1 DEF Throw, Leave, Calls
      <4> QED BY <3>1, <4>2 DEF kind
    <3>3. CASE Discard(c) \/ Absorbed(c) \/ Get(c)
      <4>1. call'[c].op = call[c].op /\ call'[c].login = call[c].login
        BY <1>0, <3>3 DEF Discard, Absorbed, Get, Throw, Leave, Calls
      <4> QED BY <3>1, <4>1 DEF kind
    <3> QED BY <2>2, <3>2, <3>3
  <2>3. CASE Read(c) \/ ReadFails(c) \/ Unread(c)
    <3>1. pc[c] \in Early
      BY <2>3 DEF Read, ReadFails, Unread, Early
    <3>2. CASE End(c, "done") \/ End(c, "failed")
      BY <1>0, <3>2 DEF End, Goto, Early
    <3>3. CASE Leave(c, "done") \/ Leave(c, "failed") \/ UNCHANGED call
      BY <1>0, <3>1, <3>3 DEF Leave, Calls, kind
    <3>4. CASE \/ \E x : call' = [call EXCEPT ![c].creds = x, ![c].then = "body"]
               \/ \E x : call' = [call EXCEPT ![c].incoming = x]
               \/ \E x, y : call' = [call EXCEPT ![c].incoming = x, ![c].opbase = y, ![c].base = stored]
      <4>1. CASE \E x : call' = [call EXCEPT ![c].creds = x, ![c].then = "body"]
        BY <1>0, <3>1, <4>1 DEF Calls, kind
      <4>2. CASE \E x : call' = [call EXCEPT ![c].incoming = x]
        BY <1>0, <3>1, <4>2 DEF Calls, kind
      <4>3. CASE \E x, y : call' = [call EXCEPT ![c].incoming = x, ![c].opbase = y, ![c].base = stored]
        BY <1>0, <3>1, <4>3 DEF Calls, kind
      <4> QED BY <3>4, <4>1, <4>2, <4>3
    <3>5. CASE Read(c)
      <4> DEFINE base == IF holder = c THEN stored ELSE Absent
                 x == Contents(stored)[call[c].op.alias].creds
      <4>1. \/ End(c, "done") \/ Leave(c, "done")
            \/ call' = [call EXCEPT ![c].creds = x, ![c].then = "body"]
            \/ \E edit \in Edits(c, Contents(stored)) :
                 call' = [call EXCEPT ![c].incoming = edit, ![c].opbase = base, ![c].base = stored]
        BY <3>5 DEF Read
      <4> HIDE DEF base, x
      <4> QED BY <3>2, <3>3, <3>4, <4>1
    <3> QED BY <2>3, <3>2, <3>3, <3>4, <3>5 DEF ReadFails, Unread
  <2>4. CASE Reread(c) \/ Ask(c) \/ Answered(c) \/ Settle(c)
    <3>1. kind(c) = "refresh" /\ call'[c].op = call[c].op
      <4>1. kind(c) = "refresh"
        BY <1>0, <2>4 DEF Reread, Ask, Answered, Settle, kind, Route
      <4>2. CASE Throw(c) \/ Leave(c, "done")
        BY <1>0, <4>1, <4>2 DEF Throw, Leave, Calls
      <4>3. CASE \/ \E x : call' = [call EXCEPT ![c].creds = x, ![c].opbase = stored, ![c].base = stored]
                 \/ \E x : call' = [call EXCEPT ![c].renewed = x]
                 \/ \E x : call' = [call EXCEPT ![c].incoming = x]
        <5>1. CASE \E x : call' = [call EXCEPT ![c].creds = x, ![c].opbase = stored, ![c].base = stored]
          BY <1>0, <4>1, <5>1 DEF Calls
        <5>2. CASE \E x : \/ call' = [call EXCEPT ![c].renewed = x]
                        \/ call' = [call EXCEPT ![c].incoming = x]
          BY <1>0, <4>1, <5>2 DEF Calls
        <5> QED BY <4>3, <5>1, <5>2
      <4>4. CASE Reread(c)
        BY <4>2, <4>3, <4>4 DEF Reread
      <4>5. CASE Ask(c)
        BY <4>2, <4>3, <4>5 DEF Ask
      <4> QED BY <2>4, <4>2, <4>3, <4>4, <4>5 DEF Answered, Settle
    <3> QED BY <3>1 DEF kind
  <2>5. CASE Persist(c)
    BY <1>0, <2>5 DEF Persist, Goto, Early, Calls, kind
  <2>6. CASE Write(c) \/ WriteUnread(c) \/ Sidecar(c)
    BY <1>0, <2>6 DEF Write, WriteUnread, Sidecar, Finish, Leave, End, Goto, Early, Calls, kind
  <2>7. CASE Erase(c)
    BY <1>0, <2>7 DEF Erase, Throw, Leave, Goto, Early, Calls, kind
  <2> QED BY <1>4, <2>1, <2>2, <2>3, <2>4, <2>5, <2>6, <2>7 DEF Proceed
<1>5. ASSUME NEW d \in Call, d # c, Begin(d) \/ Proceed(d) PROVE pc'[c] = pc[c] /\ call'[c] = call[c]
  BY <1>5, Others
<1>6. CASE \E p \in Process : Crash(p)
  BY <1>1, <1>2, <1>6, CrashOf
<1>7. CASE Tick \/ UNCHANGED vars
  BY <1>1, <1>7 DEF Tick, vars
<1> QED BY <1>1, <1>3, <1>4, <1>5, <1>6, <1>7 DEF Next

LEMMA SecretStep ==
  ASSUME VaultInv, SecretInv, [Next]_vars
  PROVE  SecretInv'
<1>0. issued \in Nat /\ issued' \in {issued, issued + 1}
  BY IssuedGrows
<1>1. PICK k \in Nat : k = issued
  BY <1>0
<1>2. PICK n \in Nat : n = issued'
  BY <1>0
<1>3. Within(0..k, Nobody)
  BY <1>1 DEF SecretInv
<1>4. Within(0..issued, Nobody)'
  <2>1. 0 \in 0..n /\ 0..k \subseteq 0..n /\ issued' \in 0..n
    BY <1>0, <1>1, <1>2
  <2>2. Within(0..n, Nobody)
    BY <1>3, <2>1, WithinMore
  <2>3. Nobody \notin Call
    BY VaultAssumption
  <2>4. Within(0..n, Nobody)'
    BY <2>1, <2>2, <2>3, WithinStep
  <2> QED BY <1>2, <2>4 DEF Within, CallKnown, Known
<1>5. ASSUME NEW c \in Call, call'[c].op.kind = "set", pc'[c] \in Early
      PROVE  /\ call'[c].login.secret \in 1..issued'
             /\ Within(Nat \ {call[c].login.secret}, c)'
  <2>1. PICK s : s = call'[c].login.secret
    OBVIOUS
  <2> DEFINE M == Nat \ {s}
  <2>2. CASE pc[c] \in Early /\ call'[c].login = call[c].login /\ kind(c) = "set"
    <3>1. s = call[c].login.secret /\ s \in 1..issued /\ Within(M, c)
      BY <2>1, <2>2 DEF SecretInv, Unseen
    <3>2. 0 \in M /\ (issued' = issued \/ issued' \in M) /\ s \in 1..issued'
      BY <1>0, <3>1
    <3>3. pc[c] \notin {"write", "sidecar"}
      BY <2>2 DEF Early
    <3>4. Within(M, c)'
      BY <3>1, <3>2, <3>3, WithinStep
    <3> QED BY <2>1, <3>2, <3>4 DEF Within, CallKnown, Known
  <2>3. CASE Begin(c) /\ pc[c] = "idle" /\ kind(c) = "set"
    <3>1. s = issued + 1 /\ issued' = s
      <4>1. PICK login \in Login(call[c].op) :
              /\ call' = [call EXCEPT ![c].login = login, ![c].then = "body"]
              /\ issued' = IF login = NoCreds THEN issued ELSE issued + 1
        BY <2>3 DEF Begin
      <4>2. login.secret = issued + 1
        BY <2>3 DEF Login, kind, Outside
      <4>3. login # NoCreds
        BY <1>0, <4>2 DEF NoCreds
      <4>4. call'[c].login = login
        BY <4>1 DEF VaultInv, TypeOK, Calls
      <4> QED BY <2>1, <4>1, <4>2, <4>3, <4>4
    <3>2. 0 \in M /\ 0..k \subseteq M /\ s \in 1..issued'
      BY <1>0, <1>1, <3>1
    <3>3. Within(M, c)
      BY <1>3, <3>2, WithinMore
    <3>4. pc'[c] # "idle"
      BY <1>5 DEF Early
    <3>5. Within(M, c)'
      BY <2>3, <3>2, <3>3, <3>4, WithinStep
    <3> QED BY <2>1, <3>2, <3>5 DEF Within, CallKnown, Known
  <2> QED BY <1>5, <2>2, <2>3, EarlyOn
<1>6. \A c \in Call : Unseen(c)'
  BY <1>5 DEF Unseen, kind
<1> QED BY <1>4, <1>6 DEF SecretInv

LEMMA SecretInit ==
  ASSUME Init
  PROVE  SecretInv
<1>0. EmptyStore \in KeyStore
  BY DEF EmptyStore, KeyStore
<1>1. VaultInv
  BY InitStep
<1>2. PICK setup \in Setups : /\ stored = setup.store
                              /\ call = [c \in Call |-> [NoCall EXCEPT !.op = setup.plan[c]]]
  BY DEF Init
<1>3. issued = Cardinality(Alias) /\ issued \in Nat
  BY <1>1 DEF Init, VaultInv, TypeOK
<1>4. Known(0..issued, stored)
  <2>1. CASE stored = Absent
    BY <1>0, <2>1, KnownStore
  <2>2. CASE stored # Absent
    <3>1. stored \in KeyStore
      BY <1>1, <2>2 DEF VaultInv, TypeOK, Image
    <3>2. \A a \in Keys(stored) : stored[a].creds.secret \in 1..Cardinality(Alias)
      BY <1>2, <2>2, VaultAssumption
    <3>3. \A a \in Keys(stored) : stored[a].creds.secret \in 0..issued
      BY <1>3, <3>2
    <3> QED BY <3>1, <3>3, KnownStore
  <2> QED BY <2>1, <2>2
<1>5. Known(0..issued, Absent)
  BY <1>0, KnownStore
<1>6. ASSUME NEW c \in Call PROVE CallKnown(0..issued, call[c], FALSE)
  <2>1. /\ call[c].login = NoCreds /\ call[c].creds = NoCreds /\ call[c].renewed = NoCreds
        /\ call[c].opbase = Absent /\ call[c].base = Absent /\ call[c].incoming = Absent
    BY <1>2 DEF NoCall
  <2>2. NoCreds.secret \in 0..issued
    BY <1>3 DEF NoCreds
  <2> QED BY <1>5, <2>1, <2>2 DEF CallKnown
<1>7. Within(0..issued, Nobody)
  <2>1. Nobody \notin Call
    BY VaultAssumption
  <2>2. Pending = {}
    BY DEF Init, Pending
  <2>3. \A c \in Call : CallKnown(0..issued, call[c], c = Nobody)
    BY <1>6, <2>1 DEF CallKnown
  <2>4. \A p \in Process : Known(0..issued, lastRead[p])
    BY <1>5 DEF Init
  <2> QED BY <1>4, <2>2, <2>3, <2>4 DEF Within
<1>8. \A c \in Call : Unseen(c)
  BY DEF Init, Unseen, Early
<1> QED BY <1>7, <1>8 DEF SecretInv

-----------------------------------------------------------------------------
(* What the merge makes of a login and of a new default. *)
LEMMA LoginMerged ==
  ASSUME NEW b \in KeyStore, NEW i \in KeyStore, NEW s \in KeyStore, NEW allow,
         NEW m \in MergeKeyStores(b, i, s, allow), NEW a \in Alias, i[a] # NoEntry,
         b[a] # i[a] \/ b = s
  PROVE  /\ m[a] # NoEntry
         /\ \/ m[a].creds = i[a].creds
            \/ m[a].creds.type = "oauth" /\ m[a].creds.expires_at >= i[a].creds.expires_at
         /\ Flagged(b, i, s, m)[a] # NoEntry /\ Flagged(b, i, s, m)[a].creds = i[a].creds
         /\ Flagged(b, i, s, m)[a] = i[a] \/ b[a] = NoEntry
<1> DEFINE r == Replay(b, i, s, allow)
<1>0. i[a] \in Entry /\ b[a] \in Entry \cup {NoEntry} /\ s[a] \in Entry \cup {NoEntry}
  BY DEF KeyStore
<1>1. m \in KeyStore /\ SameCreds(m[a], r[a])
  BY MergeAt
<1>2. CASE a \in Added(b, i) \cup Modified(b, i)
  <2>1. /\ r[a] # NoEntry
        /\ s[a] = NoEntry => r[a] = i[a]
        /\ s[a] # NoEntry => r[a].creds = PickNewer(s[a], i[a]).creds
    BY <1>2, ReplayAt
  <2>2. m[a] # NoEntry /\ m[a].creds = r[a].creds
    BY <1>1, <2>1 DEF SameCreds
  <2>3. s[a] # NoEntry => \/ PickNewer(s[a], i[a]) = i[a]
                          \/ /\ PickNewer(s[a], i[a]) = s[a]
                             /\ s[a].creds.type = "oauth" /\ i[a].creds.expires_at <= s[a].creds.expires_at
    BY DEF PickNewer
  <2>4. s[a] # NoEntry => s[a].creds.expires_at \in Nat
    BY <1>0 DEF Entry, Creds
  <2>5. i[a].creds.expires_at \in Nat
    BY <1>0 DEF Entry, Creds
  <2>6. Flagged(b, i, s, m)[a] = IF /\ a \in Added(b, i)
                                    /\ s[a] = NoEntry \/ PickNewer(s[a], i[a]) # s[a]
                                 THEN m[a] ELSE i[a]
    BY DEF Flagged
  <2>7. a \in Added(b, i) => b[a] = NoEntry
    BY DEF Added, Keys
  <2>8. \/ m[a].creds = i[a].creds
        \/ m[a].creds.type = "oauth" /\ m[a].creds.expires_at >= i[a].creds.expires_at
    BY <2>1, <2>2, <2>3, <2>4, <2>5
  <2>9. s[a] = NoEntry \/ PickNewer(s[a], i[a]) # s[a] => m[a].creds = i[a].creds
    BY <2>1, <2>2, <2>3
  <2> QED BY <2>2, <2>6, <2>7, <2>8, <2>9
<1>3. CASE a \notin Added(b, i) \cup Modified(b, i)
  <2>1. b[a] = i[a]
    BY <1>0, <1>3 DEF Added, Modified, Keys
  <2>2. s[a] = i[a] /\ a \notin Removed(b, i)
    BY <2>1 DEF Removed, Keys
  <2>3. r[a] = s[a]
    BY <1>3, <2>2, ReplayAt
  <2>4. m[a] # NoEntry /\ m[a].creds = i[a].creds
    BY <1>1, <2>2, <2>3 DEF SameCreds
  <2>5. Flagged(b, i, s, m)[a] = i[a]
    BY <1>3 DEF Flagged
  <2> QED BY <2>4, <2>5
<1> QED BY <1>2, <1>3

LEMMA WithDefaultIs ==
  ASSUME NEW s \in KeyStore, NEW a \in Keys(s)
  PROVE  LET w == WithDefault(s, a)
         IN /\ w \in KeyStore /\ Keys(w) = Keys(s) /\ Defaults(w) = {a}
            /\ \A x \in Keys(s) : w[x] \in Entry /\ w[x].creds = s[x].creds /\ w[x].isDefault = (x = a)
<1> DEFINE w == WithDefault(s, a)
<1>0. NoEntry \notin Entry /\ a \in Alias
  BY VaultAssumption DEF Keys
<1>1. ASSUME NEW x \in Alias, s[x] # NoEntry
      PROVE  w[x] \in Entry /\ w[x].creds = s[x].creds /\ w[x].isDefault = (x = a)
  <2> DEFINE e == [s[x] EXCEPT !.isDefault = (x = a)]
  <2>1. s[x] \in Entry
    BY <1>1 DEF KeyStore
  <2>2. e \in Entry /\ e.creds = s[x].creds /\ e.isDefault = (x = a)
    BY <2>1 DEF Entry
  <2>3. w[x] = e
    BY <1>1 DEF WithDefault
  <2> QED BY <2>2, <2>3
<1>2. \A x \in Alias : s[x] = NoEntry => w[x] = NoEntry
  BY DEF WithDefault
<1>3. w = [x \in Alias |-> w[x]]
  BY DEF WithDefault
<1> HIDE DEF w
<1>4. w \in KeyStore
  BY <1>1, <1>2, <1>3 DEF KeyStore
<1>5. Keys(w) = Keys(s)
  BY <1>0, <1>1, <1>2 DEF Keys
<1>6. Defaults(w) = {a}
  <2>1. \A x \in Keys(w) : w[x].isDefault = (x = a)
    BY <1>1, <1>5 DEF Keys
  <2> QED BY <1>5, <2>1 DEF Defaults
<1>7. \A x \in Keys(s) : w[x] \in Entry /\ w[x].creds = s[x].creds /\ w[x].isDefault = (x = a)
  BY <1>1 DEF Keys
<1> QED BY <1>4, <1>5, <1>6, <1>7 DEF w

LEMMA DefaultMerged ==
  ASSUME NEW b \in KeyStore, NEW s \in KeyStore, NEW a \in Keys(b), s = b \/ Defaults(s) = {a},
         NEW i, i = WithDefault(b, a), NEW allow, NEW m \in MergeKeyStores(b, i, s, allow)
  PROVE  m \in KeyStore /\ Defaults(m) = {a} /\ Defaults(i) = {a} /\ Flagged(b, i, s, m) = i
<1> DEFINE r == Replay(b, i, s, allow)
<1>1. /\ i \in KeyStore /\ Keys(i) = Keys(b) /\ Defaults(i) = {a}
      /\ \A x \in Keys(b) : i[x] \in Entry /\ i[x].creds = b[x].creds /\ i[x].isDefault = (x = a)
  BY WithDefaultIs
<1>2. Added(b, i) = {} /\ Removed(b, i) = {} /\ a \in Alias
  BY <1>1 DEF Added, Removed, Keys
<1>3. Flagged(b, i, s, m) = i
  <2>1. i = [x \in Alias |-> i[x]]
    BY <1>1 DEF KeyStore
  <2> QED BY <1>2, <2>1 DEF Flagged
<1>4. r \in KeyStore
  <2>1. \A x \in Alias : r[x] \in Entry \cup {NoEntry}
    BY <1>1, ReplayAt
  <2>2. r = [x \in Alias |-> r[x]]
    BY DEF Replay
  <2> QED BY <2>1, <2>2 DEF KeyStore
<1>5. s[a] # NoEntry
  BY DEF Defaults, Keys
<1>6. ASSUME NEW x \in Alias, r[x] # NoEntry PROVE r[x].isDefault = (x = a)
  <2>1. CASE x \in Modified(b, i)
    <3>1. x \in Keys(b) /\ b[x] \in Entry /\ i[x] \in Entry /\ i[x].isDefault = (x = a)
      BY <1>1, <2>1 DEF Modified, Keys, KeyStore
    <3>2. s[x] = NoEntry => r[x] = i[x]
      BY <1>1, <2>1, ReplayAt
    <3>3. s[x] # NoEntry => /\ s[x] \in Entry
                            /\ r[x] = [PickNewer(s[x], i[x]) EXCEPT
                                         !.isDefault = IF b[x].isDefault = i[x].isDefault
                                                       THEN s[x].isDefault ELSE i[x].isDefault]
      BY <1>2, <2>1 DEF Replay, Updated, KeyStore
    <3>4. s[x] # NoEntry => PickNewer(s[x], i[x]) \in Entry
      BY <3>1, <3>3 DEF PickNewer
    <3>5. s[x] # NoEntry => r[x].isDefault = IF b[x].isDefault = i[x].isDefault
                                             THEN s[x].isDefault ELSE i[x].isDefault
      BY <3>3, <3>4 DEF Entry
    <3>6. s[x] # NoEntry => s[x].isDefault = (x = a) \/ s[x] = b[x]
      BY <3>3 DEF Defaults, Keys, Entry
    <3>7. s[x] # NoEntry => r[x].isDefault = (x = a)
      BY <3>1, <3>5, <3>6
    <3> QED BY <3>1, <3>2, <3>7
  <2>2. CASE x \notin Modified(b, i)
    <3>1. r[x] = s[x]
      BY <1>1, <1>2, <2>2, ReplayAt
    <3>2. s[x] \in Entry
      BY <1>6, <3>1 DEF KeyStore
    <3>3. CASE s = b
      <4>1. s[x] = i[x] /\ x \in Keys(b)
        BY <1>1, <1>6, <2>2, <3>1, <3>3 DEF Modified, Keys
      <4> QED BY <1>1, <3>1, <4>1
    <3>4. CASE Defaults(s) = {a}
      BY <1>6, <3>1, <3>2, <3>4 DEF Defaults, Keys, Entry
    <3> QED BY <3>3, <3>4
  <2> QED BY <2>1, <2>2
<1>7. a \in Keys(r)
  <2>1. CASE a \in Modified(b, i)
    BY <1>1, <1>2, <2>1, ReplayAt DEF Keys
  <2>2. CASE a \notin Modified(b, i)
    BY <1>1, <1>2, <1>5, <2>2, ReplayAt DEF Keys
  <2> QED BY <2>1, <2>2
<1>8. NewDefaults(b, i) \in {{}, {a}}
  BY <1>1 DEF NewDefaults
<1>9. MergeKeyStores(b, i, s, allow) = IF NewDefaults(b, i) = {} THEN Normalize(r, {})
                                       ELSE UNION {Normalize(r, {p}) : p \in NewDefaults(b, i)}
  BY DEF MergeKeyStores
<1> HIDE DEF r
<1>10. Defaults(r) = {a}
  BY <1>6, <1>7 DEF Defaults, Keys
<1>11. Winners(r, {}) = {a} /\ Winners(r, {a}) = {a}
  BY <1>7, <1>10 DEF Winners
<1>12. m \in Normalize(r, {}) \/ m \in Normalize(r, {a})
  <2>1. CASE NewDefaults(b, i) = {}
    BY <1>9, <2>1
  <2>2. CASE NewDefaults(b, i) = {a}
    <3>1. UNION {Normalize(r, {p}) : p \in {a}} = Normalize(r, {a})
      BY Zenon
    <3>2. MergeKeyStores(b, i, s, allow) = UNION {Normalize(r, {p}) : p \in {a}}
      BY <1>9, <2>2
    <3> QED BY <3>1, <3>2
  <2> QED BY <1>8, <2>1, <2>2
<1>13. m = WithDefault(r, a)
  BY <1>7, <1>11, <1>12 DEF Normalize
<1> QED BY <1>1, <1>3, <1>4, <1>7, <1>13, WithDefaultIs

-----------------------------------------------------------------------------
(* The change a call is asked for, until it is reported. *)
LEMMA AckIdle ==
  ASSUME NEW c \in Call, pc'[c] \notin {"persist", "write", "sidecar"},
         pc'[c] = "release" => call'[c].then # "done"
  PROVE  AckOK(c)'
BY DEF AckOK

LEMMA AckOther ==
  ASSUME NEW c \in Call, call'[c].op.kind \notin Edited
  PROVE  AckOK(c)'
BY DEF AckOK, Bears, Has, kind, Edited

LEMMA AckLogin ==
  ASSUME VaultInv', SecretInv', NEW c \in Call, call'[c].op.kind = "set", pc'[c] = "persist",
         NEW a, a = call'[c].op.alias,
         call'[c].incoming[a] # NoEntry, call'[c].incoming[a].creds = call'[c].login
  PROVE  AckOK(c)'
<1> DEFINE s == call'[c].login.secret
           b == OwnBase(c)'
<1>1. Unseen(c)'
  BY DEF SecretInv
<1>2. Within(Nat \ {call[c].login.secret}, c)'
  BY <1>1 DEF Unseen, Early, kind
<1>3. call'[c].op.process \in Process /\ a \in Alias /\ call'[c].opbase \in Image /\ lastRead' \in [Process -> Image]
  BY DEF VaultInv, TypeOK, Calls, Op
<1>4. Known(Nat \ {s}, call'[c].opbase) /\ \A p \in Process : Known(Nat \ {s}, lastRead'[p])
  BY <1>2 DEF Within, CallKnown, Known
<1>5. b \in Image /\ Known(Nat \ {s}, b)
  BY <1>3, <1>4 DEF OwnBase, BaseOr, ProcOf
<1> HIDE DEF s, b
<1>6. b # Absent => b[a] # call'[c].incoming[a]
  <2>1. CASE b # Absent /\ b[a] # NoEntry
    <3>1. b[a].creds.secret # s
      BY <1>3, <1>5, <2>1 DEF Known, Contents, Keys
    <3> QED BY <3>1 DEF s
  <2> QED BY <2>1
<1> QED BY <1>6 DEF AckOK, Bears, kind, b

LEMMA AckFrame ==
  ASSUME VaultInv, VaultInv', SecretInv', NEW c \in Call, AckOK(c), pc'[c] = pc[c], call'[c] = call[c],
         holder = c => stored' = stored /\ pending'[c] = pending[c]
  PROVE  AckOK(c)'
<1>1. CASE kind(c) \in Edited /\ holder = c
  <2>1. CASE pc[c] = "persist" /\ kind(c) = "set"
    <3>1. Bears(c, OwnBase(c))
      BY <2>1 DEF AckOK
    <3>2. /\ call'[c].op.kind = "set" /\ pc'[c] = "persist"
          /\ call'[c].incoming[call'[c].op.alias] # NoEntry
          /\ call'[c].incoming[call'[c].op.alias].creds = call'[c].login
      BY <2>1, <3>1 DEF Bears, kind
    <3> QED BY <3>2, AckLogin
  <2>2. CASE pc[c] = "persist" /\ kind(c) \in {"default", "delete"}
    BY <1>1, <2>2 DEF AckOK, Bears, kind, OwnBase, BaseOr
  <2>3. CASE pc[c] # "persist"
    <3>1. stored' = stored /\ pending'[c] = pending[c]
      BY <1>1
    <3>2. Has(c, Contents(stored))' <=> Has(c, Contents(stored))
      BY <3>1 DEF Has, kind, Contents
    <3>3. Has(c, call[c].incoming)' <=> Has(c, call[c].incoming)
      BY DEF Has, kind
    <3>4. Has(c, pending[c].incoming)' <=> Has(c, pending[c].incoming)
      BY <3>1 DEF Has, kind
    <3>5. Bears(c, call[c].base)' <=> Bears(c, call[c].base)
      BY <3>1 DEF Bears, kind
    <3> QED BY <2>3, <3>1, <3>2, <3>3, <3>4, <3>5 DEF AckOK
  <2> QED BY <1>1, <2>1, <2>2, <2>3 DEF Edited
<1>2. CASE kind(c) \in Edited /\ holder # c
  <2>1. ~Locked(pc[c], call[c])
    BY <1>2, Acts
  <2> QED BY <1>2, <2>1, AckIdle, Acts DEF Locked
<1>3. CASE kind(c) \notin Edited
  BY <1>3, AckOther DEF kind
<1> QED BY <1>1, <1>2, <1>3

(* The edit is made from the store that is read under the lock. *)
LEMMA StoredHas ==
  ASSUME VaultInv, NEW c \in Call, NEW s \in KeyStore
  PROVE  LET e == Stored(c, s)[call[c].op.alias]
         IN e # NoEntry /\ e.creds = call[c].login
<1> DEFINE e == [creds |-> call[c].login, isDefault |-> call[c].op.default]
<1>1. call[c].op.alias \in Alias /\ call[c].login \in Creds /\ call[c].op.default \in BOOLEAN
  <2>1. NoCreds \in Creds
    BY DEF NoCreds, Creds
  <2> QED BY <2>1, Acts DEF Calls, Op
<1>2. Stored(c, s)[call[c].op.alias] = e
  BY <1>1, Zenon DEF Stored
<1>3. e \in Entry /\ e # NoEntry
  BY <1>1, VaultAssumption DEF Entry
<1> QED BY <1>2, <1>3

LEMMA WithoutIs ==
  ASSUME NEW s \in KeyStore, NEW a \in Alias
  PROVE  Without(a, s) \in KeyStore /\ Without(a, s)[a] = NoEntry
BY DEF Without, KeyStore

LEMMA SomeEdit ==
  ASSUME NEW s \in KeyStore, NEW preferred
  PROVE  Normalize(s, preferred) # {}
<1>1. CASE Keys(s) = {}
  BY <1>1 DEF Normalize
<1>2. CASE Keys(s) # {}
  <2>1. Winners(s, preferred) # {}
    BY <1>2 DEF Winners
  <2> QED BY <1>2, <2>1 DEF Normalize
<1> QED BY <1>1, <1>2

LEMMA ReadAck ==
  ASSUME VaultInv, VaultInv', SecretInv', NEW c \in Call, kind(c) \in Edited, Read(c)
  PROVE  AckOK(c)'
<1> DEFINE s == Contents(stored)
           a == call[c].op.alias
<1>0. /\ holder = c /\ a \in Alias /\ ProcOf(c) \in Process /\ stored \in Image /\ s \in KeyStore
      /\ call \in [Call -> Calls] /\ pc \in [Call -> Labels] /\ lastRead \in [Process -> Image]
  <2>1. s \in KeyStore
    BY ContentsType, VaultAssumption, Acts DEF Globals
  <2>2. /\ pc \in [Call -> Labels] /\ call \in [Call -> Calls]
        /\ lastRead \in [Process -> Image] /\ stored \in Image
    BY DEF VaultInv, TypeOK
  <2>3. call[c].op \in Op
    BY <2>2 DEF Calls
  <2>4. a \in Alias /\ ProcOf(c) \in Process
    BY <2>3 DEF Op, ProcOf
  <2>5. holder = c
    <3>1. pc[c] = "read"
      BY DEF Read
    <3> QED BY <3>1, Acts DEF Locked, kind
  <2> QED BY <2>1, <2>2, <2>4, <2>5
<1>1. UNCHANGED stored /\ lastRead'[ProcOf(c)] = stored
  BY <1>0 DEF Read, disk
<1>2. CASE kind(c) \in {"default", "delete"} /\ Edits(c, s) = {} /\ Leave(c, "done")
  <2>1. a \notin Keys(s)
    <3> SUFFICES ASSUME a \in Keys(s) PROVE Edits(c, s) # {}
      BY <1>2
    <3>1. Without(a, s) \in KeyStore
      BY <1>0, WithoutIs
    <3>2. Normalize(s, {a}) # {} /\ Normalize(Without(a, s), {}) # {}
      BY <1>0, <3>1, SomeEdit
    <3> QED BY <1>2, <3>2 DEF Edits, kind
  <2>2. call'[c].op = call[c].op /\ pc'[c] = "release"
    BY <1>0, <1>2 DEF Leave, Goto, Calls
  <2>3. Has(c, s)'
    BY <1>1, <1>2, <2>1, <2>2 DEF Has, kind
  <2> QED BY <2>2, <2>3 DEF AckOK
<1>3. ASSUME NEW edit \in Edits(c, s), pc'[c] = "persist",
             call' = [call EXCEPT ![c].incoming = edit, ![c].opbase = stored, ![c].base = stored]
      PROVE  AckOK(c)'
  <2>1. /\ call'[c].op = call[c].op /\ call'[c].login = call[c].login /\ call'[c].opbase = stored
        /\ call'[c].incoming = edit
    BY <1>0, <1>3 DEF Calls
  <2>2. CASE kind(c) = "set"
    <3>1. edit = Stored(c, s)
      BY <2>2 DEF Edits, kind
    <3>2. edit[a] # NoEntry /\ edit[a].creds = call[c].login
      BY <1>0, <3>1, StoredHas
    <3> QED BY <1>3, <2>1, <2>2, <3>2, AckLogin DEF kind
  <2>3. CASE kind(c) \in {"default", "delete"}
    <3>1. a \in Keys(s)
      BY <2>3 DEF Edits, kind
    <3>2. stored # Absent /\ s = stored
      BY <3>1 DEF Contents, Keys, EmptyStore
    <3>3. OwnBase(c)' = stored
      BY <2>1, <3>2 DEF OwnBase, BaseOr
    <3>4. stored[a] # NoEntry
      BY <3>1, <3>2 DEF Keys
    <3>5. CASE kind(c) = "delete"
      <4>0. Without(a, s) \in KeyStore /\ Without(a, s)[a] = NoEntry
        BY <1>0, WithoutIs
      <4>1. edit \in Normalize(Without(a, s), {})
        BY <3>1, <3>5 DEF Edits, kind
      <4>2. SameCreds(edit[a], Without(a, s)[a])
        BY <1>0, <4>0, <4>1, NormalizeAt
      <4>3. edit[a] = NoEntry
        BY <4>0, <4>2 DEF SameCreds
      <4> QED BY <1>3, <2>1, <3>2, <3>3, <3>4, <3>5, <4>3 DEF AckOK, Bears, kind
    <3>6. CASE kind(c) = "default"
      <4>1. edit \in Normalize(s, {a})
        BY <3>1, <3>6 DEF Edits, kind
      <4>2. Winners(s, {a}) = {a}
        BY <3>1 DEF Winners
      <4>3. edit = WithDefault(s, a)
        BY <3>1, <4>1, <4>2 DEF Normalize
      <4> QED BY <1>1, <1>3, <2>1, <3>2, <3>3, <3>4, <3>6, <4>3 DEF AckOK, Bears, kind
    <3> QED BY <2>3, <3>5, <3>6
  <2> QED BY <2>2, <2>3 DEF Edited
<1>4. \/ kind(c) \in {"default", "delete"} /\ Edits(c, s) = {} /\ Leave(c, "done")
      \/ \E edit \in Edits(c, s) :
           /\ call' = [call EXCEPT ![c].incoming = edit, ![c].opbase = stored, ![c].base = stored]
           /\ Goto(c, "persist")
  BY <1>0 DEF Read, Edited
<1> QED BY <1>0, <1>2, <1>3, <1>4 DEF Goto

LEMMA UnreadAck ==
  ASSUME VaultInv, VaultInv', SecretInv', NEW c \in Call, kind(c) \in Edited, Unread(c)
  PROVE  AckOK(c)'
<1>0. call \in [Call -> Calls] /\ pc \in [Call -> Labels] /\ EmptyStore \in KeyStore
  BY DEF VaultInv, TypeOK, EmptyStore, KeyStore
<1>1. CASE Leave(c, "failed") \/ End(c, "failed")
  <2>1. pc'[c] = "failed" \/ (pc'[c] = "release" /\ call'[c].then = "failed")
    BY <1>0, <1>1 DEF Leave, End, Goto, Calls
  <2> QED BY <2>1, AckIdle
<1>2. CASE kind(c) = "set" /\ Goto(c, "persist")
           /\ call' = [call EXCEPT ![c].incoming = Stored(c, EmptyStore)]
  <2> DEFINE e == Stored(c, EmptyStore)
             a == call[c].op.alias
  <2>1. e[a] # NoEntry /\ e[a].creds = call[c].login
    BY <1>0, StoredHas
  <2> HIDE DEF e
  <2>2. /\ call'[c].op = call[c].op /\ call'[c].login = call[c].login
        /\ call'[c].incoming = e /\ pc'[c] = "persist"
    BY <1>0, <1>2 DEF Goto, Calls, e
  <2> QED BY <1>2, <2>1, <2>2, AckLogin DEF kind
<1> QED BY <1>1, <1>2 DEF Unread, Edited

LEMMA PersistAck ==
  ASSUME VaultInv, NEW c \in Call, kind(c) \in Edited, Persist(c), AckOK(c)
  PROVE  AckOK(c)'
<1>1. holder = c /\ call \in [Call -> Calls] /\ pc \in [Call -> Labels]
  BY Acts DEF Persist, Locked, VaultInv, TypeOK
<1>2. pc'[c] = "write" /\ UNCHANGED stored
  BY <1>1 DEF Persist, Goto, disk
<1>3. /\ call'[c].op = call[c].op /\ call'[c].login = call[c].login
      /\ call'[c].incoming = call[c].incoming /\ call'[c].base = OwnBase(c)
  BY <1>1 DEF Persist, Calls
<1>4. Bears(c, OwnBase(c))
  BY DEF Persist, AckOK
<1> HIDE DEF OwnBase
<1>5. Bears(c, call[c].base)'
  BY <1>2, <1>3, <1>4 DEF Bears, kind
<1> QED BY <1>2, <1>5 DEF AckOK

(* An attempt to write brings the change into the store, or keeps it.       *)
LEMMA WriteBears ==
  ASSUME VaultInv, NEW c \in Call, kind(c) \in Edited, pc[c] = "write", AckOK(c),
         NEW b, b = BaseOr(call[c].base, Contents(stored)),
         NEW m \in MergeKeyStores(b, call[c].incoming, Contents(stored), removal(c)),
         NEW f, f = Flagged(b, call[c].incoming, Contents(stored), m)
  PROVE  /\ m \in KeyStore /\ Has(c, m) /\ Has(c, f)
         /\ kind(c) = "set" => /\ f[call[c].op.alias] # NoEntry /\ f[call[c].op.alias].creds = call[c].login
                               /\ call[c].base # Absent => call[c].base[call[c].op.alias] # f[call[c].op.alias]
         /\ kind(c) = "delete" => f[call[c].op.alias] = NoEntry
         /\ kind(c) = "default" => f = call[c].incoming /\ Defaults(m) = {call[c].op.alias}
<1> DEFINE s == Contents(stored)
           i == call[c].incoming
           a == call[c].op.alias
           r == call[c].base
<1>1. s \in KeyStore /\ i \in KeyStore /\ a \in Alias /\ r \in Image
  <2>1. s \in KeyStore
    BY ContentsType, VaultAssumption, Acts DEF Globals
  <2> QED BY <2>1, Acts DEF Local, Carries, Calls, Op
<1>2. b \in KeyStore /\ (r # Absent => b = r) /\ (r = Absent => b = s)
  BY <1>1 DEF BaseOr, Image
<1>3. m \in KeyStore
  BY <1>1, <1>2, MergeAt
<1>4. Bears(c, r)
  BY DEF AckOK
<1>5. CASE kind(c) = "set"
  <2>1. i[a] # NoEntry /\ i[a].creds = call[c].login /\ (b[a] # i[a] \/ b = s)
    BY <1>2, <1>4, <1>5 DEF Bears
  <2>2. /\ m[a] # NoEntry
        /\ \/ m[a].creds = i[a].creds
           \/ m[a].creds.type = "oauth" /\ m[a].creds.expires_at >= i[a].creds.expires_at
        /\ f[a] # NoEntry /\ f[a].creds = i[a].creds
        /\ f[a] = i[a] \/ b[a] = NoEntry
    <3>1. PICK allow : allow = removal(c)
      OBVIOUS
    <3>2. m \in MergeKeyStores(b, i, s, allow) /\ f = Flagged(b, i, s, m)
      BY <3>1
    <3> HIDE DEF s, i, a, r
    <3> QED BY <1>1, <1>2, <2>1, <3>2, LoginMerged
  <2>3. r # Absent => r[a] # f[a]
    BY <1>2, <1>4, <1>5, <2>2 DEF Bears
  <2> QED BY <1>3, <1>5, <2>1, <2>2, <2>3 DEF Has
<1>6. CASE kind(c) = "delete"
  <2>1. b[a] # NoEntry /\ i[a] = NoEntry
    BY <1>2, <1>4, <1>6 DEF Bears
  <2>2. a \in Removed(b, i) /\ a \notin Added(b, i) /\ a \notin Modified(b, i)
    BY <1>1, <2>1 DEF Removed, Added, Modified, Keys
  <2>3. Replay(b, i, s, removal(c))[a] = NoEntry
    BY <1>1, <1>6, <2>2 DEF Replay, removal
  <2>4. SameCreds(m[a], Replay(b, i, s, removal(c))[a])
    BY <1>1, <1>2, MergeAt
  <2>5. m[a] = NoEntry /\ f[a] = NoEntry
    BY <1>1, <2>1, <2>2, <2>3, <2>4 DEF SameCreds, Flagged
  <2> QED BY <1>3, <1>6, <2>5 DEF Has, Keys
<1>7. CASE kind(c) = "default"
  <2>1. r # Absent /\ a \in Keys(r) /\ i = WithDefault(r, a) /\ (s = r \/ Defaults(s) = {a})
    BY <1>1, <1>4, <1>7 DEF Bears, Keys, Contents
  <2>2. Defaults(m) = {a} /\ Defaults(i) = {a} /\ f = i
    BY <1>1, <1>2, <2>1, DefaultMerged
  <2> QED BY <1>3, <1>7, <2>2 DEF Has
<1> QED BY <1>5, <1>6, <1>7 DEF Edited

LEMMA WriteAck ==
  ASSUME VaultInv, NEW c \in Call, kind(c) \in Edited, Write(c), AckOK(c)
  PROVE  AckOK(c)'
<1> DEFINE s == Contents(stored)
           i == call[c].incoming
           a == call[c].op.alias
           b == BaseOr(call[c].base, s)
<1>1. call \in [Call -> Calls] /\ pc \in [Call -> Labels] /\ kind(c) \notin Outside \cup {"refresh"}
  BY DEF VaultInv, TypeOK, Outside, Edited
<1>2. PICK m \in MergeKeyStores(b, i, s, removal(c)) :
        \/ stored' = m /\ Finish(c)
        \/ /\ stored' \in {m, stored}
           /\ \/ call' = [call EXCEPT ![c].attempt = @ + 1, ![c].incoming = Flagged(b, i, s, m)] /\ UNCHANGED pc
              \/ /\ call' = [call EXCEPT ![c].incoming = Flagged(b, i, s, m), ![c].then = "sidecar"]
                 /\ Goto(c, IF kind(c) \in Outside THEN "release" ELSE "sidecar")
  BY DEF Write
<1> DEFINE f == Flagged(b, i, s, m)
<1>3. /\ m \in KeyStore /\ Has(c, m) /\ Has(c, f)
      /\ kind(c) = "set" => /\ f[a] # NoEntry /\ f[a].creds = call[c].login
                            /\ call[c].base # Absent => call[c].base[a] # f[a]
      /\ kind(c) = "delete" => f[a] = NoEntry
      /\ kind(c) = "default" => f = i /\ Defaults(m) = {a}
  BY WriteBears DEF Write
<1>4. Bears(c, call[c].base) /\ pc[c] = "write"
  BY DEF Write, AckOK
<1> HIDE DEF f, b, s
<1>5. CASE stored' = m /\ Finish(c)
  <2>1. call'[c].op = call[c].op /\ call'[c].login = call[c].login /\ pc'[c] = "release"
    BY <1>1, <1>5 DEF Finish, Leave, Goto, Calls
  <2>2. Has(c, m)'
    BY <1>3, <2>1 DEF Has, kind
  <2>3. Contents(stored') = m
    BY <1>3, <1>5, VaultAssumption DEF Contents
  <2> QED BY <2>1, <2>2, <2>3 DEF AckOK, Has, kind
<1>6. CASE /\ stored' \in {m, stored} /\ UNCHANGED pc
           /\ call' = [call EXCEPT ![c].attempt = @ + 1, ![c].incoming = f]
  <2>1. /\ call'[c].op = call[c].op /\ call'[c].login = call[c].login
        /\ call'[c].incoming = f /\ call'[c].base = call[c].base /\ pc'[c] = "write"
    BY <1>1, <1>4, <1>6 DEF Calls
  <2>2. m # Absent
    BY <1>3, VaultAssumption
  <2>3. Bears(c, call[c].base)'
    BY <1>3, <1>4, <1>6, <2>1, <2>2 DEF Bears, kind
  <2> QED BY <2>1, <2>3 DEF AckOK
<1>7. CASE /\ call' = [call EXCEPT ![c].incoming = f, ![c].then = "sidecar"]
           /\ Goto(c, "sidecar")
  <2>1. /\ call'[c].op = call[c].op /\ call'[c].login = call[c].login
        /\ call'[c].incoming = f /\ pc'[c] = "sidecar"
    BY <1>1, <1>7 DEF Goto, Calls
  <2>2. PICK g : g = f
    OBVIOUS
  <2>3. Has(c, g)'
    BY <1>3, <2>1, <2>2 DEF Has, kind
  <2> QED BY <2>1, <2>2, <2>3 DEF AckOK, Has, kind
<1> QED BY <1>1, <1>2, <1>5, <1>6, <1>7 DEF f

LEMMA WriteUnreadAck ==
  ASSUME VaultInv, NEW c \in Call, kind(c) \in Edited, WriteUnread(c), AckOK(c)
  PROVE  AckOK(c)'
<1> DEFINE i == call[c].incoming
           a == call[c].op.alias
<1>0. /\ call \in [Call -> Calls] /\ pc \in [Call -> Labels] /\ pc[c] = "write"
      /\ call[c].base \in Image /\ a \in Alias
  BY Acts DEF WriteUnread, VaultInv, TypeOK, Calls, Op
<1>1. /\ pc'[c] = "sidecar" /\ call'[c].op = call[c].op /\ call'[c].login = call[c].login
      /\ call'[c].incoming = i
  BY <1>0 DEF WriteUnread, Goto, Edited, Outside, Calls
<1>2. Bears(c, call[c].base)
  BY <1>0 DEF AckOK
<1>3. Has(c, i)
  <2>1. CASE kind(c) = "set"
    BY <1>2, <2>1 DEF Has, Bears
  <2>2. CASE kind(c) = "delete"
    BY <1>2, <2>2 DEF Has, Bears, Keys
  <2>3. CASE kind(c) = "default"
    <3>1. call[c].base \in KeyStore /\ a \in Keys(call[c].base) /\ i = WithDefault(call[c].base, a)
      BY <1>0, <1>2, <2>3 DEF Bears, Keys, Image
    <3>2. Defaults(i) = {a}
      BY <1>0, <3>1, WithDefaultIs
    <3> QED BY <2>3, <3>2 DEF Has
  <2> QED BY <2>1, <2>2, <2>3 DEF Edited
<1>4. Has(c, i)'
  BY <1>1, <1>3 DEF Has, kind
<1> QED BY <1>1, <1>4 DEF AckOK

LEMMA SidecarAck ==
  ASSUME VaultInv, NEW c \in Call, kind(c) \in Edited, Sidecar(c), AckOK(c)
  PROVE  AckOK(c)'
<1>1. /\ call \in [Call -> Calls] /\ pc \in [Call -> Labels] /\ pending \in [Call -> Sidecars \cup {Absent}]
      /\ holder = c /\ kind(c) # "refresh" /\ Has(c, call[c].incoming)
      /\ OwnBase(c) \in Image /\ call[c].incoming \in KeyStore /\ now \in Nat
  <2>1. lastRead[ProcOf(c)] \in Image /\ call[c].opbase \in Image
    BY Acts DEF Globals, Calls
  <2> QED BY <2>1, Acts, VaultAssumption
          DEF Sidecar, AckOK, Locked, VaultInv, TypeOK, Edited, OwnBase, BaseOr, Local, Carries
<1>2. CASE Leave(c, "failed") \/ (call' = [call EXCEPT ![c].failure = TRUE, ![c].then = "failed"] /\ Goto(c, "release"))
  <2>1. pc'[c] = "release" /\ call'[c].then = "failed"
    BY <1>1, <1>2 DEF Leave, Goto, Calls
  <2> QED BY <2>1, AckIdle
<1>3. CASE /\ pending' = [pending EXCEPT ![c] = [at |-> now, base |-> OwnBase(c), incoming |-> call[c].incoming,
                                                allowRemovals |-> removal(c)]]
           /\ Finish(c)
  <2>1. call'[c].op = call[c].op /\ call'[c].login = call[c].login /\ pc'[c] = "release"
    BY <1>1, <1>3 DEF Finish, Leave, Goto, Calls
  <2>2. pending'[c].incoming = call[c].incoming /\ pending'[c] \in Sidecars
    <3>1. removal(c) \in BOOLEAN
      BY DEF removal
    <3> HIDE DEF removal
    <3>2. [at |-> now, base |-> OwnBase(c), incoming |-> call[c].incoming, allowRemovals |-> removal(c)] \in Sidecars
      BY <1>1, <3>1 DEF Sidecars
    <3> QED BY <1>1, <1>3, <3>2
  <2>3. pending'[c] # Absent
    BY <2>2, VaultAssumption
  <2>4. Has(c, pending[c].incoming)'
    BY <1>1, <2>1, <2>2 DEF Has, kind
  <2> QED BY <2>1, <2>3, <2>4 DEF AckOK, Has, kind
<1> QED BY <1>1, <1>2, <1>3 DEF Sidecar, Finish, Edited, kind

LEMMA RestAck ==
  ASSUME VaultInv, NEW c \in Call, kind(c) \in Edited, Begin(c) \/ Proceed(c),
         ~Read(c), ~Unread(c), ~Persist(c), ~Write(c), ~WriteUnread(c), ~Sidecar(c)
  PROVE  AckOK(c)'
<1>0. /\ call \in [Call -> Calls] /\ pc \in [Call -> Labels] /\ Route(pc[c], call[c])
      /\ kind(c) \notin Reading \cup Outside \cup Transfers \cup {"refresh", "deleteAll"}
  BY Acts DEF VaultInv, TypeOK, Local, Edited, Reading, Outside, Transfers
<1>1. CASE Begin(c) \/ Scan(c) \/ Acquire(c)
  <2>1. pc'[c] \in {"scan", "wait", "read", "absorb"}
    BY <1>0, <1>1 DEF Begin, Scan, Acquire, Goto
  <2> QED BY <2>1, AckIdle
<1>2. CASE TimeOut(c) \/ Release(c)
  <2>1. Handler(c) # "sidecar"
    BY <1>0 DEF Handler
  <2>2. Handler(c) \in {"unread", "sidecar", "failed"}
    BY DEF Handler
  <2>3. pc[c] = "release" => call[c].then \in Over
    BY <1>0 DEF Route, kind
  <2>4. pc'[c] \in Over \cup {"unread"}
    BY <1>0, <1>2, <2>1, <2>2, <2>3 DEF TimeOut, Release, End, Goto, Over
  <2> QED BY <2>4, AckIdle DEF Over
<1>3. CASE Throw(c) /\ pc[c] \in {"absorb", "discard", "body", "ask", "answered", "settle"}
  <2>1. PICK l, r : Goes(c, l, r) /\ l \in {"unread", "release"} /\ (l = "release" => r.then # "done")
    BY <1>3, ThrowGoes
  <2> QED BY <2>1, Gone, AckIdle
<1>4. CASE (\E e \in Call : Absorb(c, e)) \/ Discard(c)
  <2>1. Throw(c) \/ pc'[c] \in {"discard", "absorb"}
    BY <1>0, <1>4 DEF Absorb, Discard, Goto
  <2> QED BY <1>3, <1>4, <2>1, AckIdle DEF Absorb, Discard
<1>5. CASE Absorbed(c)
  <2>1. call[c].then \in {"body", "read"}
    BY <1>0, <1>5 DEF Absorbed, Route, kind
  <2>2. pc'[c] \in {"body", "read"}
    BY <1>0, <1>5, <2>1 DEF Absorbed, Goto
  <2> QED BY <2>2, AckIdle
<1>6. CASE Get(c) \/ ReadFails(c)
  <2>1. pc'[c] \in {"absorb", "unread"}
    BY <1>0, <1>6 DEF Get, ReadFails, Goto
  <2> QED BY <2>1, AckIdle
<1>7. ~Reread(c) /\ ~Ask(c) /\ ~Answered(c) /\ ~Settle(c) /\ ~Erase(c)
  BY <1>0 DEF Reread, Ask, Answered, Settle, Erase, Route, kind
<1> QED BY <1>1, <1>2, <1>4, <1>5, <1>6, <1>7 DEF Proceed

(* No step of a call changes its operation. *)
LEMMA OpKept ==
  ASSUME VaultInv, NEW c \in Call, Begin(c) \/ Proceed(c)
  PROVE  call'[c].op = call[c].op
<1>0. call \in [Call -> Calls]
  BY DEF VaultInv, TypeOK
<1>1. CASE Throw(c) \/ \E next : Leave(c, next)
  BY <1>0, <1>1 DEF Throw, Leave, Calls
<1>2. CASE (\E outcome : End(c, outcome)) \/ UNCHANGED call
  BY <1>0, <1>2, ClearedType DEF End
<1>3. CASE Begin(c)
  <2>1. PICK login : call' = [call EXCEPT ![c].login = login, ![c].then = "body"]
    BY <1>3 DEF Begin
  <2> QED BY <1>0, <2>1 DEF Calls
<1>4. CASE Scan(c) \/ Acquire(c) \/ TimeOut(c) \/ Release(c)
  BY <1>0, <1>2, <1>4 DEF Scan, Acquire, TimeOut, Release, Calls
<1>5. CASE (\E e \in Call : Absorb(c, e)) \/ Discard(c) \/ Absorbed(c) \/ Get(c)
  <2>1. CASE \E e \in Call : Absorb(c, e)
    <3>1. PICK e : Throw(c) \/ call' = [call EXCEPT ![c].todo = @ \ {e}, ![c].file = e]
      BY <2>1 DEF Absorb
    <3> QED BY <1>0, <1>1, <3>1 DEF Calls
  <2>2. CASE Discard(c) \/ Absorbed(c)
    BY <1>0, <1>1, <2>2 DEF Discard, Absorbed, Calls
  <2>3. CASE Get(c)
    BY <1>0, <2>3 DEF Get, Calls
  <2> QED BY <1>5, <2>1, <2>2, <2>3
<1>6. CASE Read(c)
  <2> DEFINE base == IF holder = c THEN stored ELSE Absent
             x == Contents(stored)[call[c].op.alias].creds
  <2>1. \/ End(c, "done") \/ Leave(c, "done")
        \/ call' = [call EXCEPT ![c].creds = x, ![c].then = "body"]
        \/ \E edit \in Edits(c, Contents(stored)) :
             call' = [call EXCEPT ![c].incoming = edit, ![c].opbase = base, ![c].base = stored]
    BY <1>6 DEF Read
  <2> HIDE DEF base, x
  <2>2. CASE call' = [call EXCEPT ![c].creds = x, ![c].then = "body"]
    BY <1>0, <2>2 DEF Calls
  <2>3. CASE \E edit : call' = [call EXCEPT ![c].incoming = edit, ![c].opbase = base, ![c].base = stored]
    BY <1>0, <2>3 DEF Calls
  <2> QED BY <1>1, <1>2, <2>1, <2>2, <2>3
<1>7. CASE ReadFails(c) \/ Unread(c)
  BY <1>0, <1>1, <1>2, <1>7 DEF ReadFails, Unread, Calls
<1>8. CASE Reread(c) \/ Ask(c)
  <2>1. CASE Reread(c)
    <3>1. \/ Throw(c)
          \/ \E x : call' = [call EXCEPT ![c].creds = x, ![c].opbase = stored, ![c].base = stored]
      BY <2>1 DEF Reread
    <3> QED BY <1>0, <1>1, <3>1 DEF Calls
  <2>2. CASE Ask(c)
    BY <1>0, <1>1, <2>2 DEF Ask, Calls
  <2> QED BY <1>8, <2>1, <2>2
<1>9. CASE Answered(c) \/ Settle(c) \/ Persist(c) \/ WriteUnread(c)
  BY <1>0, <1>1, <1>9 DEF Answered, Settle, Persist, WriteUnread, Calls
<1>10. CASE Write(c) \/ Sidecar(c) \/ Erase(c)
  <2>1. CASE Write(c)
    <3>1. \/ Finish(c)
          \/ \E y : \/ call' = [call EXCEPT ![c].attempt = @ + 1, ![c].incoming = y]
                   \/ call' = [call EXCEPT ![c].incoming = y, ![c].then = "sidecar"]
      BY <2>1 DEF Write
    <3> QED BY <1>0, <1>1, <3>1 DEF Finish, Calls
  <2>2. CASE Sidecar(c)
    BY <1>0, <1>1, <1>2, <2>2 DEF Sidecar, Finish, Calls
  <2>3. CASE Erase(c)
    BY <1>0, <1>1, <2>3 DEF Erase, Calls
  <2> QED BY <1>10, <2>1, <2>2, <2>3
<1> QED BY <1>3, <1>4, <1>5, <1>6, <1>7, <1>8, <1>9, <1>10 DEF Proceed

LEMMA AckStep ==
  ASSUME VaultInv, SecretInv, AckInv, [Next]_vars
  PROVE  AckInv'
<1> SUFFICES ASSUME NEW d \in Call PROVE AckOK(d)'
  BY DEF AckInv
<1>0. VaultInv' /\ SecretInv' /\ AckOK(d)
  BY VaultStep, SecretStep DEF AckInv
<1>1. ASSUME NEW c \in Call, Begin(c) \/ Proceed(c) PROVE AckOK(d)'
  <2>1. CASE d # c
    BY <1>0, <1>1, <2>1, Others, AckFrame
  <2>2. CASE d = c /\ kind(c) \in Edited
    BY <1>0, <1>1, <2>2, ReadAck, UnreadAck, PersistAck, WriteAck, WriteUnreadAck,
       SidecarAck, RestAck
  <2>3. CASE d = c /\ kind(c) \notin Edited
    <3>1. call'[c].op = call[c].op
      BY <1>1, OpKept
    <3> QED BY <2>3, <3>1, AckOther DEF kind
  <2> QED BY <2>1, <2>2, <2>3
<1>2. ASSUME NEW p \in Process, Crash(p) PROVE AckOK(d)'
  <2>1. pc'[d] = "dead" \/ (pc'[d] = pc[d] /\ call'[d] = call[d])
    BY <1>2, CrashOf
  <2>2. UNCHANGED disk
    BY <1>2 DEF Crash
  <2> QED BY <1>0, <2>1, <2>2, AckIdle, AckFrame DEF disk
<1>3. CASE Tick \/ UNCHANGED vars
  BY <1>0, <1>3, AckFrame DEF Tick, vars, disk
<1> QED BY <1>1, <1>2, <1>3 DEF Next

LEMMA AckInit ==
  ASSUME Init
  PROVE  AckInv
<1>1. \A c \in Call : pc[c] = "idle"
  BY DEF Init
<1> QED BY <1>1 DEF AckInv, AckOK

(* A login, a deletion and a change of the default that are reported done   *)
(* are in the store or in a sidecar, whatever attempts failed on the way    *)
(* and whatever other processes did (setPassword and persist, lines 107 to  *)
(* 148 of CredentialVault.ts).                                              *)
THEOREM AcknowledgedIsKept == Spec => []Acknowledged
<1>1. VaultInv /\ AckInv => Acknowledged
  BY DEF AckInv, AckOK, Acknowledged
<1>2. Init => VaultInv /\ SecretInv /\ AckInv
  BY InitStep, SecretInit, AckInit
<1>3. VaultInv /\ SecretInv /\ AckInv /\ [Next]_vars => (VaultInv /\ SecretInv /\ AckInv)'
  BY VaultStep, SecretStep, AckStep
<1> QED BY <1>1, <1>2, <1>3, PTL DEF Spec
=============================================================================
