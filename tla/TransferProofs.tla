--------------------------- MODULE TransferProofs ---------------------------
(***************************************************************************)
(* Theorems about Transfer: a store never has more than one default, and a *)
(* transfer changes exactly what it was asked to.  The invariant of Vault  *)
(* also covers the transfers; beside it, what is about to be put is what   *)
(* the transfer makes of a store that nobody has changed since.            *)
(***************************************************************************)
EXTENDS Transfer, VaultProofs

OneDefault(s) == \A a, b \in Defaults(s) : a = b

DefaultInv == /\ OneDefault(Contents(stored))
              /\ \A c \in Call : pc[c] = "put" => OneDefault(call[c].base)

(* What is about to be put in the place of s is s but for what is asked. *)
Puts(c, s, store) ==
  \A a \in Alias :
    IF a \in Asked(c, s)
    THEN /\ store[a] # NoEntry /\ store[a].creds = call[c].incoming[a].creds
         /\ kind(c) = "apply" => SameCreds(s[a], call[c].opbase[a])
         /\ a \in Keys(s) => store[a].isDefault = s[a].isDefault
    ELSE store[a] = s[a]
PutInv == \A c \in Call : pc[c] = "put" => Puts(c, Contents(stored), call[c].base)

-----------------------------------------------------------------------------
(* The actions of a transfer keep the invariant of the vault. *)
LEMMA TransferBeginStep ==
  ASSUME VaultInv, NEW c \in Call, TransferBegin(c)
  PROVE  VaultInv'
<1>1. PICK life \in Lifetimes :
        LET creds == [type |-> "oauth", secret |-> issued + 1, expires_at |-> now + life]
        IN \E request \in Request(c, creds) : call' = [call EXCEPT ![c].incoming = request]
  BY DEF TransferBegin
<1> DEFINE creds == [type |-> "oauth", secret |-> issued + 1, expires_at |-> now + life]
<1>2. issued \in Nat /\ now \in Nat /\ life \in Nat /\ valid \in SUBSET Nat
  BY VaultAssumption, Acts DEF Globals
<1>3. creds \in Creds
  BY <1>2 DEF Creds
<1> HIDE DEF creds
<1>4. PICK request \in Request(c, creds) : call' = [call EXCEPT ![c].incoming = request]
  BY <1>1 DEF creds
<1>5. request \in KeyStore
  <2>1. EmptyStore \in KeyStore
    BY DEF EmptyStore, KeyStore
  <2>2. \A flags \in SUBSET BOOLEAN : [creds : {creds}, isDefault : flags] \subseteq Entry
    BY <1>3 DEF Entry
  <2>3. request = EmptyStore \/ \E flags \in SUBSET BOOLEAN :
          request \in [Alias -> {NoEntry} \cup [creds : {creds}, isDefault : flags]]
    BY DEF Request
  <2> QED BY <2>1, <2>2, <2>3 DEF KeyStore
<1> DEFINE r == [call[c] EXCEPT !.incoming = request]
<1>6. Goes(c, "queue", r)
  BY <1>4 DEF TransferBegin, Goto, Goes
<1>7. r \in Calls /\ r.incoming = request /\ r.op = call[c].op
  BY <1>5, Acts DEF Calls, Image
<1> HIDE DEF r
<1>8. Globals' /\ UNCHANGED <<pending, holder>>
  BY <1>2, Acts DEF TransferBegin, Globals, disk, memory
<1>9. ~Locked("queue", r) /\ ~Locked("idle", call[c])
  BY DEF Locked
<1>10. Fits(c, "queue", r)
  BY <1>5, <1>7, <1>9, NotLockedRecovers, Acts DEF TransferBegin, Fits, Local, Route, Labels
<1> QED BY <1>6, <1>8, <1>9, <1>10, MoveQuiet DEF TransferBegin, Locks, Moves

LEMMA EnterStep ==
  ASSUME VaultInv, NEW c \in Call, Enter(c)
  PROVE  VaultInv'
<1>1. Globals' /\ UNCHANGED pending
  BY Acts DEF Enter, Globals, disk, server, memory
<1>2. holder # c
  BY Acts DEF Enter, Locked
<1>3. CASE holder = Nobody /\ holder' = c /\ Goto(c, "check") /\ UNCHANGED call
  <2>1. Goes(c, "check", call[c])
    BY <1>3, Acts DEF Goto, Goes, VaultInv, TypeOK
  <2>2. Fits(c, "check", call[c])
    BY Acts DEF Enter, Fits, Local, Route, Carries, Recovers, Labels
  <2> QED BY <1>1, <1>3, <2>1, <2>2, MoveQuiet DEF Locked, Locks, Moves
<1>4. CASE End(c, "failed") /\ UNCHANGED holder
  BY <1>1, <1>2, <1>4, EndMoves, MoveQuiet DEF Over
<1> QED BY <1>3, <1>4 DEF Enter

LEMMA CheckStep ==
  ASSUME VaultInv, NEW c \in Call, Check(c)
  PROVE  VaultInv'
<1>1. Globals' /\ UNCHANGED <<pending, holder>>
  BY Acts DEF Check, Globals, disk, server, memory
<1>2. holder = c
  BY Acts DEF Check, Locked
<1>3. CASE Pending = {} /\ Goto(c, "compare") /\ UNCHANGED call
  <2>1. Goes(c, "compare", call[c])
    BY <1>3, Acts DEF Goto, Goes, VaultInv, TypeOK
  <2>2. Fits(c, "compare", call[c])
    BY <1>3, Acts DEF Check, Fits, Local, Route, Carries, Recovers, Labels, Inside
  <2>3. Locks(c, "compare", call[c])
    BY <1>1 DEF Check, Locked, Locks
  <2> QED BY <1>1, <2>1, <2>2, <2>3, MoveQuiet DEF Moves
<1>4. CASE Leave(c, "failed")
  BY <1>1, <1>2, <1>4, LeaveMoves, MoveQuiet
<1> QED BY <1>3, <1>4 DEF Check

(* What a transfer makes of a store. *)
Makes(c, s, store) ==
  \/ /\ kind(c) = "apply" /\ Conflicts(c, s) = {}
     /\ store = Changed(s, call[c].incoming)
  \/ /\ kind(c) \in {"import", "overwrite"}
     /\ store \in Imports(s, call[c].incoming, kind(c) = "overwrite")

LEMMA CompareCases ==
  ASSUME NEW c \in Call, Compare(c)
  PROVE  \/ Leave(c, "failed") \/ Leave(c, "done")
         \/ /\ kind(c) = "apply" /\ Goto(c, "release")
            /\ call' = [call EXCEPT ![c].opbase = Contents(stored), ![c].then = "queue"]
         \/ \E store : /\ Makes(c, Contents(stored), store) /\ Goto(c, "put")
                       /\ call' = [call EXCEPT ![c].base = store]
<1> DEFINE s == Contents(stored)
<1>1. CASE Leave(c, "failed") \/ Leave(c, "done")
  BY <1>1
<1>2. CASE kind(c) = "apply" /\ HasSnapshot(c)
  BY <1>2 DEF Compare, Makes, kind
<1>3. CASE kind(c) = "apply" /\ ~HasSnapshot(c)
  BY <1>3 DEF Compare, kind
<1>4. CASE kind(c) \in {"import", "overwrite"}
  BY <1>4 DEF Compare, Makes, kind
<1> QED BY <1>1, <1>2, <1>3, <1>4 DEF Compare, kind

LEMMA MakesPuts ==
  ASSUME VaultInv, NEW c \in Call, NEW s \in KeyStore, NEW store, Makes(c, s, store),
         call[c].incoming \in KeyStore
  PROVE  store \in KeyStore /\ Puts(c, s, store) /\ (OneDefault(s) => OneDefault(store))
<1> DEFINE request == call[c].incoming
<1>0. \A a \in Alias : s[a] \in Entry \cup {NoEntry} /\ request[a] \in Entry \cup {NoEntry}
  BY DEF KeyStore
<1>1. CASE kind(c) = "apply" /\ Conflicts(c, s) = {} /\ store = Changed(s, request)
  <2>1. ASSUME NEW a \in Alias
        PROVE  /\ a \notin Keys(request) => store[a] = s[a]
               /\ a \in Keys(request) => /\ store[a] \in Entry /\ store[a] # NoEntry
                                         /\ store[a].creds = request[a].creds
                                         /\ store[a].isDefault = (a \in Defaults(s))
    <3> DEFINE new == [creds |-> request[a].creds, isDefault |-> a \in Defaults(s)]
    <3>1. store[a] = IF a \notin Keys(request) THEN s[a] ELSE new
      BY <1>1 DEF Changed
    <3>2. a \in Keys(request) => new \in Entry
      BY <1>0 DEF Keys, Entry
    <3>3. new.creds = request[a].creds /\ new.isDefault = (a \in Defaults(s))
      OBVIOUS
    <3> HIDE DEF new
    <3> QED BY <3>1, <3>2, <3>3, VaultAssumption
  <2>2. store \in KeyStore
    <3>1. store = [a \in Alias |-> store[a]]
      BY <1>1 DEF Changed
    <3> QED BY <1>0, <2>1, <3>1 DEF KeyStore
  <2>3. Asked(c, s) = Keys(request)
    BY <1>1 DEF Asked
  <2>4. ASSUME NEW a \in Keys(request) PROVE SameCreds(s[a], call[c].opbase[a])
    BY <1>1 DEF Conflicts
  <2>5. ASSUME NEW a \in Keys(s) PROVE s[a].isDefault = (a \in Defaults(s))
    BY <1>0 DEF Defaults, Keys, Entry
  <2>6. Puts(c, s, store)
    BY <2>1, <2>3, <2>4, <2>5 DEF Puts
  <2>7. Defaults(store) \subseteq Defaults(s)
    BY <2>1 DEF Defaults, Keys
  <2> QED BY <2>2, <2>6, <2>7 DEF OneDefault
<1>2. CASE kind(c) \in {"import", "overwrite"} /\ store \in Imports(s, request, kind(c) = "overwrite")
  <2> DEFINE over == kind(c) = "overwrite"
             asked == Selected(s, request, over)
  <2>1. PICK adopted : store = [a \in Alias |->
                          IF a \in asked
                          THEN [creds |-> request[a].creds,
                                isDefault |-> IF Keys(s) = {} THEN a = adopted ELSE a \in Defaults(s)]
                          ELSE s[a]]
    BY <1>2 DEF Imports
  <2>2. asked = Asked(c, s) /\ asked \subseteq Keys(request)
    BY <1>2 DEF Selected, Asked
  <2> HIDE DEF asked
  <2>3. ASSUME NEW a \in Alias
        PROVE  /\ a \notin asked => store[a] = s[a]
               /\ a \in asked =>
                    /\ store[a] \in Entry /\ store[a] # NoEntry
                    /\ store[a].creds = request[a].creds
                    /\ store[a].isDefault = IF Keys(s) = {} THEN a = adopted ELSE a \in Defaults(s)
    <3> DEFINE flag == IF Keys(s) = {} THEN a = adopted ELSE a \in Defaults(s)
               new == [creds |-> request[a].creds, isDefault |-> flag]
    <3>1. store[a] = IF a \in asked THEN new ELSE s[a]
      BY <2>1
    <3>2. flag \in BOOLEAN
      <4>1. CASE Keys(s) = {}
        BY <4>1
      <4>2. CASE Keys(s) # {}
        <5>1. (a \in Defaults(s)) \in BOOLEAN
          OBVIOUS
        <5> QED BY <4>2, <5>1
      <4> QED BY <4>1, <4>2
    <3> HIDE DEF flag
    <3>3. a \in asked => new \in Entry
      BY <1>0, <2>2, <3>2 DEF Keys, Entry
    <3>4. new.creds = request[a].creds /\ new.isDefault = flag
      OBVIOUS
    <3> HIDE DEF new
    <3> QED BY <3>1, <3>3, <3>4, VaultAssumption DEF flag
  <2>4. store \in KeyStore
    <3>1. store = [a \in Alias |-> store[a]]
      BY <2>1
    <3> QED BY <1>0, <2>3, <3>1 DEF KeyStore
  <2>5. ASSUME NEW a \in Keys(s) PROVE s[a].isDefault = (a \in Defaults(s))
    BY <1>0 DEF Defaults, Keys, Entry
  <2>6. Puts(c, s, store)
    BY <1>2, <2>2, <2>3, <2>5 DEF Puts
  <2>7. OneDefault(s) => OneDefault(store)
    <3>1. CASE Keys(s) = {}
      <4>1. Defaults(store) \subseteq {adopted}
        BY <2>3, <3>1 DEF Defaults, Keys
      <4> QED BY <4>1 DEF OneDefault
    <3>2. CASE Keys(s) # {}
      <4>1. Defaults(store) \subseteq Defaults(s)
        BY <2>3, <3>2 DEF Defaults, Keys
      <4> QED BY <4>1 DEF OneDefault
    <3> QED BY <3>1, <3>2
  <2> QED BY <2>4, <2>6, <2>7
<1> QED BY <1>1, <1>2 DEF Makes

LEMMA CompareStep ==
  ASSUME VaultInv, NEW c \in Call, Compare(c)
  PROVE  VaultInv'
<1>1. Globals' /\ UNCHANGED <<pending, holder>> /\ pc[c] = "compare"
  BY Acts DEF Compare, Globals, disk, server, memory
<1>2. /\ holder = c /\ call[c] \in Calls /\ call[c].incoming \in KeyStore
      /\ Contents(stored) \in KeyStore /\ Inside = {} /\ kind(c) \in Transfers
  <2>1. Contents(stored) \in KeyStore
    BY ContentsType, VaultAssumption, Acts DEF Globals
  <2> QED BY <1>1, <2>1, Acts DEF Locked, Local, Carries, Recovers, Route
<1>3. CASE Leave(c, "failed") \/ Leave(c, "done")
  BY <1>1, <1>2, <1>3, LeaveMoves, MoveQuiet
<1>4. CASE /\ Goto(c, "release")
           /\ call' = [call EXCEPT ![c].opbase = Contents(stored), ![c].then = "queue"]
  <2> DEFINE r == [call[c] EXCEPT !.opbase = Contents(stored), !.then = "queue"]
  <2>1. Goes(c, "release", r)
    BY <1>4 DEF Goto, Goes
  <2>2. "queue" \in Labels /\ Contents(stored) \in Image
    BY <1>2 DEF Labels, Image
  <2>3. r \in Calls /\ r.incoming = call[c].incoming /\ r.then = "queue" /\ r.op = call[c].op
    BY <1>2, <2>2 DEF Calls
  <2> HIDE DEF r
  <2>4. Fits(c, "release", r)
    BY <1>2, <2>3, Acts DEF Fits, Local, Route, Carries, Recovers, Labels
  <2>5. Locks(c, "release", r)
    BY <1>1 DEF Locked, Locks
  <2> QED BY <1>1, <2>1, <2>4, <2>5, MoveQuiet DEF Moves
<1>5. ASSUME NEW store, Makes(c, Contents(stored), store), Goto(c, "put"),
             call' = [call EXCEPT ![c].base = store]
      PROVE  VaultInv'
  <2> DEFINE r == [call[c] EXCEPT !.base = store]
  <2>1. Goes(c, "put", r)
    BY <1>5 DEF Goto, Goes
  <2>2. store \in KeyStore
    BY <1>2, <1>5, MakesPuts
  <2>3. r \in Calls /\ r.incoming = call[c].incoming /\ r.base = store /\ r.op = call[c].op
    BY <1>2, <2>2 DEF Calls, Image
  <2> HIDE DEF r
  <2>4. Fits(c, "put", r)
    BY <1>2, <2>2, <2>3, Acts DEF Fits, Local, Route, Carries, Recovers, Labels
  <2>5. Locks(c, "put", r)
    BY <1>1 DEF Locked, Locks
  <2> QED BY <1>1, <2>1, <2>4, <2>5, MoveQuiet DEF Moves
<1> QED BY <1>3, <1>4, <1>5, CompareCases

LEMMA PutStep ==
  ASSUME VaultInv, NEW c \in Call, Put(c)
  PROVE  VaultInv'
<1>1. /\ holder = c /\ call[c].base \in KeyStore /\ Inside = {} /\ kind(c) \in Transfers
      /\ pc[c] = "put"
  BY Acts DEF Put, Locked, Local, Recovers, Route
<1>2. Globals' /\ UNCHANGED <<pending, holder>>
  BY <1>1, Acts DEF Put, Globals, Image, server, memory
<1>3. CASE Leave(c, "failed")
  BY <1>1, <1>2, <1>3, LeaveMoves, MoveQuiet
<1>4. CASE Goto(c, "verify") /\ UNCHANGED call
  <2>1. Goes(c, "verify", call[c])
    BY <1>4, Acts DEF Goto, Goes, VaultInv, TypeOK
  <2>2. Fits(c, "verify", call[c])
    BY <1>1, Acts DEF Fits, Local, Route, Carries, Recovers, Labels
  <2>3. Locks(c, "verify", call[c])
    BY <1>1, <1>2 DEF Locked, Locks
  <2> QED BY <1>2, <2>1, <2>2, <2>3, MoveQuiet DEF Moves
<1> QED BY <1>3, <1>4 DEF Put

LEMMA VerifyStep ==
  ASSUME VaultInv, NEW c \in Call, Verify(c)
  PROVE  VaultInv'
<1>1. holder = c /\ call[c].base \in KeyStore
  BY Acts DEF Verify, Locked, Local
<1>2. Globals' /\ UNCHANGED <<pending, holder>>
  <2>1. UNCHANGED <<disk, holder, now, server>>
    BY DEF Verify
  <2>2. CASE UNCHANGED memory
    BY <2>1, <2>2, Acts DEF Globals, disk, server, memory
  <2>3. CASE /\ stored = call[c].base /\ lastRead' = [lastRead EXCEPT ![ProcOf(c)] = stored]
             /\ Remember(ProcOf(c), stored)
    <3>1. observed' \in [Process -> SUBSET (Creds \X Alias)]
      BY <1>1, <2>3, RememberType, Acts DEF Globals
    <3> QED BY <2>1, <2>3, <3>1, Acts DEF Globals, disk, server
  <2> QED BY <2>1, <2>2, <2>3 DEF Verify, disk
<1> QED BY <1>1, <1>2, LeaveMoves, MoveQuiet DEF Verify

LEMMA TransferStep ==
  ASSUME VaultInv, [TransferNext]_vars
  PROVE  VaultInv'
BY VaultStep, TransferBeginStep, EnterStep, CheckStep, CompareStep, PutStep, VerifyStep
   DEF TransferNext

-----------------------------------------------------------------------------
Transferring(c) ==
  TransferBegin(c) \/ Enter(c) \/ Check(c) \/ Compare(c) \/ Put(c) \/ Verify(c)

LEMMA TransferOthers ==
  ASSUME VaultInv, NEW c \in Call, Transferring(c), NEW d \in Call, d # c
  PROVE  /\ pc'[d] = pc[d] /\ call'[d] = call[d] /\ pending' = pending
         /\ holder = d => stored' = stored
<1>1. pc \in [Call -> Labels] /\ call \in [Call -> Calls]
  BY DEF VaultInv, TypeOK
<1>2. CASE TransferBegin(c) \/ Enter(c) \/ Check(c)
  BY <1>1, <1>2 DEF TransferBegin, Enter, Check, Leave, End, Goto, disk
<1>3. CASE Compare(c)
  <2>1. UNCHANGED disk
    BY <1>3 DEF Compare
  <2> QED BY <1>1, <1>3, <2>1, CompareCases DEF Leave, Goto, disk
<1>4. CASE Put(c)
  <2>1. holder = c
    BY <1>4, Acts DEF Put, Locked
  <2> QED BY <1>1, <1>4, <2>1 DEF Put, Leave, Goto
<1>5. CASE Verify(c)
  BY <1>1, <1>5 DEF Verify, Leave, Goto, disk
<1> QED BY <1>2, <1>3, <1>4, <1>5 DEF Transferring

(* The other operations never get to put. *)
LEMMA NoPut ==
  ASSUME VaultInv, NEW c \in Call, Begin(c) \/ Proceed(c)
  PROVE  pc'[c] # "put" /\ pc[c] # "put"
<1>0. pc \in [Call -> Labels] /\ Route(pc[c], call[c])
  BY Acts DEF VaultInv, TypeOK, Local
<1>1. CASE Begin(c) \/ Scan(c) \/ Acquire(c) \/ TimeOut(c)
  BY <1>0, <1>1 DEF Begin, Scan, Acquire, TimeOut, Handler, End, Goto
<1>2. CASE Release(c) \/ Absorbed(c)
  BY <1>0, <1>2 DEF Release, Absorbed, Route, End, Leave, Goto, Over
<1>3. CASE (\E d \in Call : Absorb(c, d)) \/ Discard(c) \/ Get(c)
  BY <1>0, <1>3 DEF Absorb, Discard, Get, Throw, Leave, Goto
<1>4. CASE Read(c)
  <2>1. /\ pc[c] = "read"
        /\ End(c, "done") \/ Goto(c, "wait") \/ Leave(c, "done") \/ Goto(c, "persist")
    BY <1>4 DEF Read
  <2> QED BY <1>0, <2>1 DEF End, Leave, Goto
<1>5. CASE ReadFails(c) \/ Unread(c) \/ Reread(c)
  BY <1>0, <1>5 DEF ReadFails, Unread, Reread, End, Throw, Leave, Goto
<1>6. CASE Ask(c)
  <2>1. pc[c] = "ask" /\ (Leave(c, "done") \/ Throw(c) \/ Goto(c, "answered"))
    BY <1>6 DEF Ask
  <2> QED BY <1>0, <2>1 DEF Leave, Throw, Goto
<1>7. CASE Answered(c) \/ Settle(c) \/ Persist(c) \/ Erase(c)
  BY <1>0, <1>7 DEF Answered, Settle, Persist, Erase, Throw, Leave, Goto
<1>8. CASE Write(c) \/ WriteUnread(c) \/ Sidecar(c)
  BY <1>0, <1>8 DEF Write, WriteUnread, Sidecar, Finish, End, Leave, Goto
<1> QED BY <1>1, <1>2, <1>3, <1>4, <1>5, <1>6, <1>7, <1>8 DEF Proceed

(* A call that is about to put has compared just now, and nobody but itself *)
(* changes the store then.                                                  *)
LEMMA AboutToPut ==
  ASSUME VaultInv, [TransferNext]_vars, NEW d \in Call
  PROVE  /\ pc'[d] = "put" =>
              /\ stored' = stored
              /\ \/ pc[d] = "put" /\ call'[d] = call[d]
                 \/ /\ pc[d] = "compare"
                    /\ \E store : /\ Makes(d, Contents(stored), store)
                                  /\ call' = [call EXCEPT ![d].base = store]
         /\ pc[d] = "put" /\ stored' # stored => Put(d)
<1>0. pc \in [Call -> Labels] /\ (pc[d] = "put" => holder = d)
  BY Acts DEF VaultInv, TypeOK, Locked
<1>1. ASSUME NEW c \in Call, Begin(c) \/ Proceed(c)
      PROVE  /\ pc'[d] = "put" => stored' = stored /\ pc[d] = "put" /\ call'[d] = call[d]
             /\ pc[d] = "put" => stored' = stored
  BY <1>0, <1>1, Others, NoPut
<1>2. ASSUME NEW c \in Call, Transferring(c), c # d
      PROVE  /\ pc'[d] = "put" => stored' = stored /\ pc[d] = "put" /\ call'[d] = call[d]
             /\ pc[d] = "put" => stored' = stored
  BY <1>0, <1>2, TransferOthers
<1>3. CASE TransferBegin(d) \/ Enter(d) \/ Check(d) \/ Put(d) \/ Verify(d)
  <2>1. pc'[d] # "put" /\ (pc[d] = "put" => Put(d))
    BY <1>0, <1>3 DEF TransferBegin, Enter, Check, Put, Verify, Leave, End, Goto
  <2> QED BY <2>1
<1>4. CASE Compare(d)
  <2>1. UNCHANGED disk /\ pc[d] = "compare"
    BY <1>4 DEF Compare
  <2> QED BY <1>0, <1>4, <2>1, CompareCases DEF Leave, Goto, disk
<1>5. CASE Tick \/ (\E p \in Process : Crash(p)) \/ UNCHANGED vars
  <2>1. UNCHANGED disk
    BY <1>5 DEF Tick, Crash, vars
  <2>2. pc'[d] = "dead" \/ (pc'[d] = pc[d] /\ call'[d] = call[d])
    <3>1. ASSUME NEW p \in Process, Crash(p)
          PROVE  pc'[d] = "dead" \/ (pc'[d] = pc[d] /\ call'[d] = call[d])
      BY <3>1, CrashOf
    <3> QED BY <1>5, <3>1 DEF Tick, vars
  <2> QED BY <2>1, <2>2 DEF disk
<1> QED BY <1>1, <1>2, <1>3, <1>4, <1>5 DEF TransferNext, Next, Transferring

(* Every merge leaves at most one default. *)
LEMMA MergedOne ==
  ASSUME NEW b \in KeyStore, NEW i \in KeyStore, NEW s \in KeyStore, NEW allow,
         NEW m \in MergeKeyStores(b, i, s, allow)
  PROVE  m \in KeyStore /\ OneDefault(m)
<1> DEFINE r == Replay(b, i, s, allow)
<1>1. m \in KeyStore /\ \A a \in Alias : SameCreds(m[a], r[a])
  BY MergeAt
<1>2. PICK preferred : m \in Normalize(r, preferred)
  BY DEF MergeKeyStores
<1>3. \A a \in Alias : r[a] \in Entry \cup {NoEntry}
  BY ReplayAt
<1> HIDE DEF r
<1>4. CASE Keys(r) = {}
  <2>1. m = r
    BY <1>2, <1>4 DEF Normalize
  <2> QED BY <1>1, <1>4, <2>1 DEF OneDefault, Defaults
<1>5. CASE Keys(r) # {}
  <2>1. PICK w : m = WithDefault(r, w)
    BY <1>2, <1>5 DEF Normalize
  <2>2. ASSUME NEW a \in Defaults(m) PROVE a = w
    <3>1. a \in Alias /\ m[a] # NoEntry /\ m[a].isDefault
      BY DEF Defaults, Keys
    <3>2. r[a] \in Entry /\ m[a] = [r[a] EXCEPT !.isDefault = (a = w)]
      BY <1>3, <2>1, <3>1 DEF WithDefault
    <3> DEFINE flag == a = w
    <3>3. r[a] \in [creds : Creds, isDefault : BOOLEAN] /\ m[a] = [r[a] EXCEPT !.isDefault = flag]
      BY <3>2 DEF Entry
    <3> HIDE DEF flag
    <3>4. m[a].isDefault = flag
      BY <3>3
    <3> QED BY <3>1, <3>4 DEF flag
  <2> QED BY <1>1, <2>2 DEF OneDefault
<1> QED BY <1>4, <1>5

LEMMA StoresOne ==
  ASSUME VaultInv, [TransferNext]_vars
  PROVE  \/ stored' = stored \/ OneDefault(Contents(stored'))
         \/ \E c \in Call : pc[c] = "put" /\ stored' = call[c].base /\ stored' \in KeyStore
<1>1. ASSUME NEW m \in KeyStore PROVE Contents(m) = m
  BY VaultAssumption DEF Contents
<1>2. Contents(stored) \in KeyStore
  BY ContentsType, VaultAssumption DEF VaultInv, TypeOK
<1>3. ASSUME NEW c \in Call, NEW d \in Call, Absorb(c, d)
      PROVE  stored' = stored \/ OneDefault(Contents(stored'))
  <2> DEFINE s == Contents(stored)
             p == pending[d]
             b == BaseOr(p.base, s)
  <2>1. p \in Sidecars
    BY <1>3, Acts DEF Absorb, Oldest, Recovers, Pending, Globals
  <2>2. b \in KeyStore /\ p.incoming \in KeyStore
    BY <1>2, <2>1 DEF BaseOr, Sidecars, Image
  <2>3. PICK m \in MergeKeyStores(b, p.incoming, s, p.allowRemovals) : stored' = m \/ stored' = stored
    BY <1>3 DEF Absorb
  <2> HIDE DEF b, p
  <2>4. m \in KeyStore /\ OneDefault(m)
    BY <1>2, <2>2, <2>3, MergedOne
  <2> QED BY <1>1, <2>3, <2>4
<1>4. ASSUME NEW c \in Call, Write(c)
      PROVE  stored' = stored \/ OneDefault(Contents(stored'))
  <2> DEFINE s == Contents(stored)
             b == BaseOr(call[c].base, s)
             i == call[c].incoming
  <2>1. b \in KeyStore /\ i \in KeyStore
    BY <1>2, <1>4, Acts DEF Write, Local, Carries, BaseOr, Image, Calls
  <2>2. PICK m \in MergeKeyStores(b, i, s, removal(c)) : stored' = m \/ stored' = stored
    BY <1>4 DEF Write
  <2> HIDE DEF b, i
  <2>3. m \in KeyStore /\ OneDefault(m)
    BY <1>2, <2>1, <2>2, MergedOne
  <2> QED BY <1>1, <2>2, <2>3
<1>5. ASSUME NEW c \in Call, Erase(c)
      PROVE  stored' = stored \/ OneDefault(Contents(stored'))
  BY <1>5 DEF Erase, Contents, OneDefault, Defaults, Keys, EmptyStore
<1>6. ASSUME NEW c \in Call, Begin(c) \/ Proceed(c)
      PROVE  stored' = stored \/ OneDefault(Contents(stored'))
  <2>1. CASE \/ Begin(c) \/ Scan(c) \/ Acquire(c) \/ TimeOut(c) \/ Release(c)
             \/ Discard(c) \/ Absorbed(c) \/ Get(c) \/ Read(c) \/ ReadFails(c) \/ Unread(c)
    BY <2>1 DEF Begin, Scan, Acquire, TimeOut, Release, Discard, Absorbed, Get, Read, ReadFails,
       Unread, disk
  <2>2. CASE \/ Reread(c) \/ Ask(c) \/ Answered(c) \/ Settle(c) \/ Persist(c)
             \/ WriteUnread(c) \/ Sidecar(c)
    BY <2>2 DEF Reread, Ask, Answered, Settle, Persist, WriteUnread, Sidecar, disk
  <2> QED BY <1>3, <1>4, <1>5, <1>6, <2>1, <2>2 DEF Proceed
<1>7. ASSUME NEW c \in Call, Transferring(c)
      PROVE  \/ stored' = stored
             \/ pc[c] = "put" /\ stored' = call[c].base /\ stored' \in KeyStore
  <2>1. CASE TransferBegin(c) \/ Enter(c) \/ Check(c) \/ Compare(c) \/ Verify(c)
    BY <2>1 DEF TransferBegin, Enter, Check, Compare, Verify, disk
  <2>2. CASE Put(c)
    BY <2>2, Acts DEF Put, Local
  <2> QED BY <1>7, <2>1, <2>2 DEF Transferring
<1>8. CASE Tick \/ (\E p \in Process : Crash(p)) \/ UNCHANGED vars
  BY <1>8 DEF Tick, Crash, vars, disk
<1> QED BY <1>6, <1>7, <1>8 DEF TransferNext, Next, Transferring

LEMMA DefaultStep ==
  ASSUME VaultInv, DefaultInv, [TransferNext]_vars
  PROVE  DefaultInv'
<1>1. OneDefault(Contents(stored'))
  <2>1. CASE stored' = stored
    BY <2>1 DEF DefaultInv
  <2>2. ASSUME NEW c \in Call, pc[c] = "put", stored' = call[c].base, stored' \in KeyStore
        PROVE  OneDefault(Contents(stored'))
    BY <2>2, VaultAssumption DEF DefaultInv, Contents
  <2> QED BY <2>1, <2>2, StoresOne
<1>2. ASSUME NEW d \in Call, pc'[d] = "put" PROVE OneDefault(call'[d].base)
  <2>1. CASE pc[d] = "put" /\ call'[d] = call[d]
    BY <2>1 DEF DefaultInv
  <2>2. ASSUME NEW store, pc[d] = "compare", Makes(d, Contents(stored), store),
               call' = [call EXCEPT ![d].base = store]
        PROVE  OneDefault(call'[d].base)
    <3>1. Contents(stored) \in KeyStore /\ call[d].incoming \in KeyStore
      BY <2>2, ContentsType, VaultAssumption, Acts DEF Globals, Local, Carries
    <3>2. OneDefault(store)
      BY <2>2, <3>1, MakesPuts DEF DefaultInv
    <3>3. call'[d].base = store
      BY <2>2 DEF VaultInv, TypeOK, Calls
    <3> QED BY <3>2, <3>3
  <2> QED BY <1>2, <2>1, <2>2, AboutToPut
<1> QED BY <1>1, <1>2 DEF DefaultInv

LEMMA PutInvStep ==
  ASSUME VaultInv, PutInv, [TransferNext]_vars
  PROVE  PutInv'
<1> SUFFICES ASSUME NEW d \in Call, pc'[d] = "put"
             PROVE  Puts(d, Contents(stored), call[d].base)'
  BY DEF PutInv
<1>0. stored' = stored
  BY AboutToPut
<1>1. CASE pc[d] = "put" /\ call'[d] = call[d]
  <2>1. Puts(d, Contents(stored), call[d].base)
    BY <1>1 DEF PutInv
  <2> QED BY <1>0, <1>1, <2>1 DEF Puts, Asked, kind, Contents
<1>2. ASSUME NEW store, pc[d] = "compare", Makes(d, Contents(stored), store),
             call' = [call EXCEPT ![d].base = store]
      PROVE  Puts(d, Contents(stored), call[d].base)'
  <2>1. Contents(stored) \in KeyStore /\ call[d].incoming \in KeyStore
    BY <1>2, ContentsType, VaultAssumption, Acts DEF Globals, Local, Carries
  <2>2. Puts(d, Contents(stored), store)
    BY <1>2, <2>1, MakesPuts
  <2>3. /\ call'[d].base = store /\ call'[d].incoming = call[d].incoming
        /\ call'[d].opbase = call[d].opbase /\ call'[d].op = call[d].op
    BY <1>2 DEF VaultInv, TypeOK, Calls
  <2> QED BY <1>0, <2>2, <2>3 DEF Puts, Asked, kind, Contents
<1> QED BY <1>1, <1>2, AboutToPut

-----------------------------------------------------------------------------
(* What the vault promises beside transfers it promises also with them. *)
THEOREM TransferInvariant == TransferSpec => []VaultInv
BY InitStep, TransferStep, PTL DEF TransferSpec

(* A transfer that reaches the store changes what it was asked to, and      *)
(* nothing else, of the credentials its caller has seen, and with no update *)
(* of a transaction left in a sidecar.                                      *)
THEOREM TransferExactly == TransferSpec => Exactly
<1>1. Init => PutInv
  BY DEF Init, PutInv
<1>2. VaultInv /\ PutInv /\ [TransferNext]_vars =>
        [\A c \in Call : pc[c] = "put" /\ stored' # stored =>
           LET old == Contents(stored)
               new == Contents(stored')
           IN /\ \A d \in Pending : kind(d) \in Outside
              /\ \A a \in Alias :
                   IF a \in Asked(c, old)
                   THEN /\ new[a] # NoEntry /\ new[a].creds = call[c].incoming[a].creds
                        /\ kind(c) = "apply" => SameCreds(old[a], call[c].opbase[a])
                        /\ a \in Keys(old) => new[a].isDefault = old[a].isDefault
                   ELSE new[a] = old[a]]_vars
  <2> SUFFICES ASSUME VaultInv, PutInv, TransferNext, NEW c \in Call, pc[c] = "put", stored' # stored
               PROVE  /\ \A d \in Pending : kind(d) \in Outside
                      /\ Puts(c, Contents(stored), Contents(stored'))
    BY DEF Puts
  <2>1. Put(c)
    BY AboutToPut
  <2>2. stored' = call[c].base /\ Contents(stored') = call[c].base /\ Inside = {}
    BY <2>1, VaultAssumption, Acts DEF Put, Local, Contents, Recovers
  <2>3. Puts(c, Contents(stored), call[c].base)
    BY DEF PutInv
  <2> QED BY <2>2, <2>3 DEF Inside
<1> QED BY <1>1, <1>2, TransferInvariant, PutInvStep, PTL DEF TransferSpec, Exactly

(* There is never more than one default, if the stores the calls start from *)
(* have none more.                                                          *)
THEOREM OneDefaultOnly ==
  ASSUME \A setup \in Setups : Valid(Contents(setup.store))
  PROVE  TransferSpec => []AtMostOneDefault
<1>1. ASSUME NEW s \in KeyStore PROVE Valid(s) <=> OneDefault(s)
  <2> DEFINE D == Defaults(s)
  <2>0. D \subseteq Alias /\ IsFiniteSet(D) /\ Cardinality(D) \in Nat
    <3>1. D \subseteq Alias
      BY DEF Defaults, Keys
    <3> QED BY <3>1, FS_Subset, FS_CardinalityType, VaultAssumption
  <2> HIDE DEF D
  <2>1. ASSUME OneDefault(s) PROVE Cardinality(D) <= 1
    <3>1. CASE D = {}
      BY <3>1, FS_EmptySet
    <3>2. ASSUME NEW a \in D PROVE Cardinality(D) <= 1
      <4>1. D = {a}
        BY <2>1 DEF OneDefault, D
      <4>2. Cardinality(D) = 1
        BY <4>1, FS_Singleton, Zenon
      <4> QED BY <4>2
    <3> QED BY <3>1, <3>2
  <2>2. ASSUME Cardinality(D) <= 1, NEW a \in D, NEW b \in D, a # b PROVE FALSE
    <3>1. IsFiniteSet({a}) /\ Cardinality({a}) = 1
      BY FS_Singleton
    <3>2. Cardinality({a} \cup {b}) = 2
      <4>1. Cardinality({a} \cup {b}) = IF b \in {a} THEN Cardinality({a}) ELSE Cardinality({a}) + 1
        BY <3>1, FS_AddElement, Zenon
      <4>2. b \notin {a}
        BY <2>2
      <4> HIDE DEF D
      <4> QED BY <3>1, <4>1, <4>2
    <3>3. Cardinality({a} \cup {b}) <= Cardinality(D)
      <4>1. {a} \cup {b} \subseteq D
        OBVIOUS
      <4> QED BY <2>0, <4>1, FS_Subset
    <3> QED BY <2>0, <2>2, <3>2, <3>3
  <2> QED BY <2>1, <2>2 DEF Valid, OneDefault, D
<1>2. ASSUME Init PROVE DefaultInv
  <2>1. PICK setup \in Setups : stored = setup.store
    BY <1>2 DEF Init
  <2>2. Contents(stored) \in KeyStore
    BY <2>1, ContentsType, VaultAssumption DEF Image
  <2> QED BY <1>1, <1>2, <2>1, <2>2 DEF DefaultInv, Init
<1>3. ASSUME VaultInv, DefaultInv PROVE AtMostOneDefault
  <2>1. Contents(stored) \in KeyStore
    BY <1>3, ContentsType, VaultAssumption DEF VaultInv, TypeOK
  <2> QED BY <1>1, <1>3, <2>1 DEF DefaultInv, AtMostOneDefault
<1> QED BY <1>2, <1>3, DefaultStep, TransferInvariant, PTL DEF TransferSpec
=============================================================================
