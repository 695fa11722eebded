-------------------------------- MODULE Vault --------------------------------
(***************************************************************************)
(* CredentialVault (src/vault/CredentialVault.ts): calls of several        *)
(* processes read, change and refresh the credentials of one store.        *)
(*                                                                         *)
(* A call is one SDK or API operation.  Changes run under the lock (the    *)
(* one of FileLock, here its abstraction: a holder); reads do not.  A      *)
(* write that fails three times is kept in a pending sidecar, which the    *)
(* next read or change absorbs.  The ServiceNow server may rotate a        *)
(* refresh token when it is used: the old one is then of no more use.      *)
(***************************************************************************)
EXTENDS Naturals, FiniteSets

CONSTANTS
  Alias, NoEntry,
  Call, Process,          \* the calls, and the processes they run in
  Setups,                 \* an initial store, and what each call is going to do
  Absent,                 \* no store file; also: no baseline
  Nobody,
  Window,                 \* SDK_REFRESH_WINDOW_SEC
  Lifetimes,              \* of the tokens the server issues
  MaxTime                 \* bound on the clock

(* set, default and delete are transactions.  bare and intent are calls of  *)
(* getPassword and then setPassword in none, intent withRemovalIntent.      *)
Outside == {"bare", "intent"}
Transfers == {"snapshot", "apply", "import", "overwrite"}   \* see Transfer
Kinds == {"read", "refresh", "set", "default", "delete", "deleteAll"} \cup Outside \cup Transfers
FaultKinds == {"read", "write", "commit", "sidecar", "discard", "timeout",
               "offline", "lost", "crash"}

(* A call's operation, where it runs, and what may go wrong with it. *)
Op == [kind : Kinds, alias : Alias, type : {"oauth", "basic"}, default : BOOLEAN,
       process : Process, faults : SUBSET FaultKinds]

INSTANCE Merge WITH Secret <- Nat

(* A store's blob, or none; and an update in a pending sidecar. *)
Image == KeyStore \cup {Absent}
Sidecars == [at : Nat, base : Image, incoming : KeyStore, allowRemovals : BOOLEAN]

ASSUME VaultAssumption ==
  /\ Setups \subseteq [store : KeyStore \cup {Absent}, plan : [Call -> Op]]
  /\ \A s \in {setup.store : setup \in Setups} \ {Absent} : \A a \in Keys(s) :
       s[a].creds.secret \in 1..Cardinality(Alias)
  /\ IsFiniteSet(Alias)
  /\ NoEntry \notin Entry
  /\ Absent \notin KeyStore \cup Sidecars
  /\ Nobody \notin Call
  /\ Window \in Nat /\ MaxTime \in Nat
  /\ Lifetimes \subseteq Nat

VARIABLES
  stored, pending,          \* the blob, and the sidecar a call wrote
  holder,                   \* of the lock
  now,
  valid, issued, lost,      \* see below
  lastRead, observed,       \* of each process: lastReadStore and observed
  pc, call                  \* of each call: its place and its locals

disk == <<stored, pending>>
server == <<valid, issued, lost>>
memory == <<lastRead, observed>>
vars == <<disk, holder, now, server, memory, pc, call>>

(* valid are the secrets the server accepts, issued the last one it made.   *)
(* lost are the secrets it replaced by one that nobody could store: the     *)
(* answer or the process was lost, came too late or every write failed.     *)

NoCreds == [type |-> "basic", expires_at |-> 0, secret |-> 0]

(* op, and of set and bare the login's credentials; base of the transaction *)
(* and base of the write under way; what setPassword was given; the writes  *)
(* that failed; the sidecars left to absorb and the one to delete; the      *)
(* credentials to refresh and their renewal; operation.failure; and where   *)
(* the call goes on after recovery or after the lock's release.             *)
NoCall == [op |-> CHOOSE o \in Op : TRUE, login |-> NoCreds,
           opbase |-> Absent, base |-> Absent, incoming |-> Absent,
           attempt |-> 0, todo |-> {}, file |-> Nobody,
           creds |-> NoCreds, renewed |-> NoCreds,
           failure |-> FALSE, then |-> "done"]

Over == {"done", "failed", "dead"}

Contents(s) == IF s = Absent THEN EmptyStore ELSE s
BaseOr(b, current) == IF b = Absent THEN current ELSE b

Pending == {c \in Call : pending[c] # Absent}
Entries(s) == {a \in Keys(s) : s[a].creds.type = "oauth"}
Secrets(s) == {s[a].creds.secret : a \in Keys(s)}

Init ==
  /\ \E setup \in Setups :
       /\ stored = setup.store
       /\ call = [c \in Call |-> [NoCall EXCEPT !.op = setup.plan[c]]]
  /\ pending = [c \in Call |-> Absent]
  /\ holder = Nobody
  /\ now = 0
  /\ valid = Secrets(Contents(stored))
  /\ issued = Cardinality(Alias)
  /\ lost = {}
  /\ lastRead = [p \in Process |-> Absent]
  /\ observed = [p \in Process |-> {}]
  /\ pc = [c \in Call |-> "idle"]

Goto(c, label) == pc' = [pc EXCEPT ![c] = label]
kind(c) == call[c].op.kind
ProcOf(c) == call[c].op.process
Fault(c, f) == f \in call[c].op.faults
\* Mutant of removal: every update may remove.
removalAlways(c) == TRUE
removal(c) == kind(c) \in {"delete", "intent"}

Cleared(c) == [NoCall EXCEPT !.op = call[c].op]

(* An operation ends and forgets its locals. *)
End(c, outcome) == /\ Goto(c, outcome)
                   /\ call' = [call EXCEPT ![c] = Cleared(c)]

Leave(c, next) == /\ Goto(c, "release")
                  /\ call' = [call EXCEPT ![c].then = next]

(* Where an exception takes a call: out of getPassword to its caller; out   *)
(* of a write of its own lock, to the sidecar; or to the operation's end.   *)
Handler(c) == CASE call[c].then = "recovered" -> "unread"
                [] call[c].then = "write" /\ kind(c) \in Outside -> "sidecar"
                [] OTHER -> "failed"
Throw(c) == IF call[c].then = "read"
            THEN Goto(c, "unread") /\ UNCHANGED call
            ELSE Leave(c, Handler(c))

-----------------------------------------------------------------------------
(* remember: which aliases had which OAuth credentials. *)
Remember(p, s) ==
  observed' = [observed EXCEPT ![p] = @ \cup {<<s[a].creds, a>> : a \in Entries(s)}]

InRefreshWindow(s, a) == a \in Entries(s) /\ s[a].creds.expires_at <= now + Window

(* A call starts; for set, bare and intent the SDK has got a new login. *)
Login(o) == IF o.kind \notin {"set"} \cup Outside THEN {NoCreds}
            ELSE [type : {o.type}, secret : {issued + 1},
                  expires_at : IF o.type = "oauth" THEN {now + life : life \in Lifetimes} ELSE {0}]

Begin(c) ==
  /\ pc[c] = "idle" /\ kind(c) \notin Transfers
  /\ \E login \in Login(call[c].op) :
       /\ call' = [call EXCEPT ![c].login = login, ![c].then = "body"]
       /\ issued' = IF login = NoCreds THEN issued ELSE issued + 1
       /\ valid' = valid \cup ({login.secret} \ {0})
       /\ Goto(c, IF kind(c) \in {"read", "refresh"} \cup Outside THEN "scan" ELSE "wait")
  /\ UNCHANGED <<disk, holder, now, lost, memory>>

(* getPassword in no transaction: sidecars are absorbed under a lock of its *)
(* own before the store is read.                                            *)
Scan(c) ==
  /\ pc[c] = "scan"
  /\ IF Pending = {}
     THEN Goto(c, "read") /\ UNCHANGED call
     ELSE Goto(c, "wait") /\ call' = [call EXCEPT ![c].then = "recovered"]
  /\ UNCHANGED <<disk, holder, now, server, memory>>

\* Mutant of Acquire: a transaction does not recover first.
AcquireOnly(c) ==
  /\ pc[c] = "wait" /\ holder = Nobody
  /\ holder' = c
  /\ Goto(c, "absorb")
  /\ UNCHANGED <<disk, now, server, memory, call>>

(* runTransaction: the lock, and the list of the sidecars. *)
Acquire(c) ==
  /\ pc[c] = "wait"
  /\ holder = Nobody
  /\ holder' = c
  /\ call' = [call EXCEPT ![c].todo = Pending]
  /\ Goto(c, "absorb")
  /\ UNCHANGED <<disk, now, server, memory>>

TimeOut(c) ==
  /\ pc[c] = "wait"
  /\ Fault(c, "timeout")
  /\ IF Handler(c) = "failed"
     THEN End(c, "failed")
     ELSE Goto(c, Handler(c)) /\ UNCHANGED call
  /\ UNCHANGED <<disk, holder, now, server, memory>>

Release(c) ==
  /\ pc[c] = "release"
  /\ holder' = Nobody
  /\ IF call[c].then \in Over
     THEN End(c, call[c].then)
     ELSE Goto(c, call[c].then) /\ UNCHANGED call
  /\ UNCHANGED <<disk, now, server, memory>>

-----------------------------------------------------------------------------
(* absorbPendingSidecars, in the order of the time in the files' names. *)
Oldest(files) == {d \in files : \A e \in files : pending[d].at <= pending[e].at}

Absorb(c, d) ==
  /\ pc[c] = "absorb"
  /\ d \in Oldest(call[c].todo)
  /\ LET current == Contents(stored)
         p == pending[d]
     IN \E merged \in MergeKeyStores(BaseOr(p.base, current), p.incoming, current, p.allowRemovals) :
          \/ /\ stored' = merged
             /\ Goto(c, "discard")
             /\ call' = [call EXCEPT ![c].todo = @ \ {d}, ![c].file = d]
          \/ /\ \/ Fault(c, "commit") /\ stored' = merged
                \/ (Fault(c, "write") \/ Fault(c, "read")) /\ stored' = stored
             /\ Throw(c)
  /\ UNCHANGED <<pending, holder, now, server, memory>>

Discard(c) ==
  /\ pc[c] = "discard"
  /\ \/ /\ pending' = [pending EXCEPT ![call[c].file] = Absent]
        /\ Goto(c, "absorb")
        /\ UNCHANGED call
     \/ /\ Fault(c, "discard")
        /\ Throw(c)
        /\ UNCHANGED pending
  /\ UNCHANGED <<stored, holder, now, server, memory>>

Absorbed(c) ==
  /\ pc[c] = "absorb"
  /\ call[c].todo = {}
  /\ IF call[c].then = "recovered"
     THEN Leave(c, "read")
     ELSE Goto(c, call[c].then) /\ UNCHANGED call
  /\ UNCHANGED <<disk, holder, now, server, memory>>

-----------------------------------------------------------------------------
\* Mutant of Get: recovery takes the lock, also in a transaction.
GetLocking(c) ==
  /\ pc[c] = "body"
  /\ kind(c) \in {"set", "default", "delete"}
  /\ call' = [call EXCEPT ![c].then = "read"]
  /\ Goto(c, "wait")
  /\ UNCHANGED <<disk, holder, now, server, memory>>

(* getPassword inside a transaction: sidecars first, here too. *)
Get(c) ==
  /\ pc[c] = "body"
  /\ kind(c) \in {"set", "default", "delete"}
  /\ call' = [call EXCEPT ![c].todo = Pending, ![c].then = "read"]
  /\ Goto(c, "absorb")
  /\ UNCHANGED <<disk, holder, now, server, memory>>

(* What the SDK and the API make of the store they were given. *)
Stored(c, s) ==
  LET o == call[c].op
  IN [a \in Alias |-> IF a = o.alias THEN [creds |-> call[c].login, isDefault |-> o.default]
                      ELSE IF o.default /\ s[a] # NoEntry THEN [s[a] EXCEPT !.isDefault = FALSE]
                      ELSE s[a]]
Without(a, s) == [s EXCEPT ![a] = NoEntry]

Edits(c, s) ==
  LET o == call[c].op
      there == o.alias \in Keys(s)
  IN CASE o.kind \in {"set", "bare"} -> {Stored(c, s)}
       [] o.kind = "intent" -> {Without(o.alias, s)}
       [] o.kind = "default" /\ there -> Normalize(s, {o.alias})
       [] o.kind = "delete" /\ there -> Normalize(Without(o.alias, s), {})
       [] OTHER -> {}

Read(c) ==
  LET p == ProcOf(c)
      s == Contents(stored)
      a == call[c].op.alias
      base == IF holder = c THEN stored ELSE Absent
  IN /\ pc[c] = "read"
     /\ lastRead' = [lastRead EXCEPT ![p] = stored]
     /\ Remember(p, s)
     /\ \/ /\ \/ kind(c) = "read"
              \/ kind(c) = "refresh" /\ ~InRefreshWindow(s, a)
           /\ End(c, "done")
        \/ /\ kind(c) = "refresh" /\ InRefreshWindow(s, a)
           /\ call' = [call EXCEPT ![c].creds = s[a].creds, ![c].then = "body"]
           /\ Goto(c, "wait")
        \/ /\ kind(c) \in {"default", "delete"} /\ Edits(c, s) = {}
           /\ Leave(c, "done")
        \/ /\ kind(c) \notin {"read", "refresh"}
           /\ \E edit \in Edits(c, s) :
                call' = [call EXCEPT ![c].incoming = edit, ![c].opbase = base, ![c].base = stored]
           /\ Goto(c, "persist")
     /\ UNCHANGED <<disk, holder, now, server>>

ReadFails(c) ==
  /\ pc[c] = "read"
  /\ Fault(c, "read")
  /\ Goto(c, "unread")
  /\ UNCHANGED <<disk, holder, now, server, memory, call>>

(* getPassword has failed: its caller fails, or takes the failure for an    *)
(* empty store, as the SDK does with its own key chain.                     *)
Unread(c) ==
  /\ pc[c] = "unread"
  /\ \/ /\ kind(c) \in {"set", "bare"}
        /\ call' = [call EXCEPT ![c].incoming = Stored(c, EmptyStore)]
        /\ Goto(c, "persist")
     \/ IF holder = c THEN Leave(c, "failed") ELSE End(c, "failed")
  /\ UNCHANGED <<disk, holder, now, server, memory>>

-----------------------------------------------------------------------------
(* refreshCredentials under the lock: the aliases this process has seen     *)
(* with the credentials must still agree.                                   *)
Candidates(c) ==
  {a \in Entries(Contents(stored)) : <<call[c].creds, a>> \in observed[ProcOf(c)]}

\* Mutant of Reread: the credentials the caller read before the lock.
RereadNothing(c) ==
  /\ pc[c] = "body" /\ kind(c) = "refresh"
  /\ call' = [call EXCEPT ![c].opbase = stored]
  /\ Goto(c, "ask")
  /\ UNCHANGED <<disk, holder, now, server, memory>>

Reread(c) ==
  /\ pc[c] = "body"
  /\ kind(c) = "refresh"
  /\ LET current == {stored[a].creds : a \in Candidates(c)}
     IN \/ /\ Cardinality(current) = 1
           /\ \E x \in current : call' = [call EXCEPT ![c].creds = x, ![c].opbase = stored, ![c].base = stored]
           /\ Goto(c, "ask")
        \/ /\ Cardinality(current) # 1 \/ Fault(c, "read")
           /\ Throw(c)
  /\ UNCHANGED <<disk, holder, now, server, memory>>

(* What a call that ends here takes away with it. *)
Durable == Secrets(Contents(stored)) \cup UNION {Secrets(pending[d].incoming) : d \in Pending}
Forgone(c) == {call[c].creds.secret : x \in {call[c].renewed.secret} \ (Durable \cup {0})}

(* The SDK's refreshAccessToken: no answer unless the token is in the       *)
(* window.  The server takes a valid refresh token, replaces it or not, and *)
(* its answer arrives or is lost.                                           *)
Ask(c) ==
  LET old == call[c].creds
      Answer(new, life) == [old EXCEPT !.secret = new, !.expires_at = now + life]
  IN /\ pc[c] = "ask"
     /\ \/ /\ old.expires_at > now + Window
           /\ Leave(c, "done")
           /\ UNCHANGED server
        \/ /\ old.expires_at <= now + Window
           /\ old.secret \notin valid \/ Fault(c, "offline")
           /\ Throw(c)
           /\ UNCHANGED server
        \/ /\ old.expires_at <= now + Window
           /\ old.secret \in valid
           /\ \E life \in Lifetimes, new \in {old.secret, issued + 1} :
                /\ valid' = (valid \ {old.secret}) \cup {new}
                /\ issued' = IF new = old.secret THEN issued ELSE new
                /\ \/ /\ call' = [call EXCEPT ![c].renewed = Answer(new, life)]
                      /\ Goto(c, "answered")
                      /\ UNCHANGED lost
                   \/ /\ Fault(c, "lost")
                      /\ Throw(c)
                      /\ lost' = lost \cup {old.secret}
     /\ UNCHANGED <<disk, holder, now, memory>>

\* Mutant of Renewed: one alias of those that share the credentials.
RenewedOne(s, old, new) ==
  LET a == CHOOSE x \in Entries(s) : s[x].creds = old IN [s EXCEPT ![a].creds = new]

Renewed(s, old, new) ==
  [a \in Alias |-> IF a \in Entries(s) /\ s[a].creds = old THEN [s[a] EXCEPT !.creds = new] ELSE s[a]]

(* Expired credentials are refused, before anything is kept of them. *)
Answered(c) ==
  /\ pc[c] = "answered"
  /\ IF call[c].renewed.expires_at <= now
     THEN Throw(c) /\ lost' = lost \cup Forgone(c)
     ELSE /\ call' = [call EXCEPT ![c].incoming =
                        Renewed(Contents(call[c].opbase), call[c].creds, call[c].renewed)]
          /\ Goto(c, "persist")
          /\ UNCHANGED lost
  /\ UNCHANGED <<disk, holder, now, valid, issued, memory>>

(* Both writes failed, or the caller's credentials become the renewed ones. *)
Settle(c) ==
  /\ pc[c] = "settle"
  /\ IF call[c].failure
     THEN /\ Throw(c)
          /\ lost' = lost \cup Forgone(c)
          /\ UNCHANGED observed
     ELSE /\ Leave(c, "done")
          /\ Remember(ProcOf(c), call[c].incoming)
          /\ UNCHANGED lost
  /\ UNCHANGED <<disk, holder, now, valid, issued, lastRead>>

-----------------------------------------------------------------------------
(* setPassword: persist takes the baseline, then writes under the lock. *)
OwnBase(c) == BaseOr(call[c].opbase, lastRead[ProcOf(c)])

Persist(c) ==
  /\ pc[c] = "persist"
  /\ LET opbase == IF kind(c) = "intent" THEN lastRead[ProcOf(c)] ELSE call[c].opbase
     IN call' = [call EXCEPT ![c].opbase = opbase, ![c].base = OwnBase(c), ![c].then = "write"]
  /\ Goto(c, IF holder = c THEN "write" ELSE "wait")
  /\ UNCHANGED <<disk, holder, now, server, memory>>

Finish(c) == IF kind(c) = "refresh" THEN Goto(c, "settle") /\ UNCHANGED call
             ELSE Leave(c, IF call[c].failure THEN "failed" ELSE "done")

(* A merge normalises the flags of the entries it takes from incoming in    *)
(* place: a later attempt and the sidecar see them changed.                 *)
Flagged(base, incoming, current, merged) ==
  [a \in Alias |->
     IF /\ a \in Added(base, incoming)
        /\ current[a] = NoEntry \/ PickNewer(current[a], incoming[a]) # current[a]
     THEN merged[a] ELSE incoming[a]]

\* Mutant of Retry: one attempt more.
RetryAgain(attempt) == attempt < 3

Retry(attempt) == attempt < 2

\* Mutant of Write: no sidecar after the third failure.
WriteOnly(c) ==
  LET base == BaseOr(call[c].base, Contents(stored))
  IN /\ pc[c] = "write"
     /\ \/ Fault(c, "write") /\ UNCHANGED <<stored, lastRead>>
        \/ /\ stored' \in MergeKeyStores(base, call[c].incoming, Contents(stored), removal(c))
           /\ lastRead' = [lastRead EXCEPT ![ProcOf(c)] = stored']
     /\ Finish(c)
     /\ UNCHANGED <<pending, holder, now, server, observed>>

(* One attempt: a write may fail before or after it took effect.  The third *)
(* failure ends in the sidecar.                                             *)
Write(c) ==
  LET p == ProcOf(c)
      current == Contents(stored)
      base == BaseOr(call[c].base, current)
      incoming == call[c].incoming
  IN /\ pc[c] = "write"
     /\ \E merged \in MergeKeyStores(base, incoming, current, removal(c)) :
          \/ /\ stored' = merged
             /\ lastRead' = [lastRead EXCEPT ![p] = merged]
             /\ Finish(c)
          \/ /\ \/ Fault(c, "commit") /\ stored' = merged
                \/ Fault(c, "write") /\ stored' = stored
             /\ LET flagged == Flagged(base, incoming, current, merged)
                IN IF Retry(call[c].attempt)
                   THEN /\ call' = [call EXCEPT ![c].attempt = @ + 1, ![c].incoming = flagged]
                        /\ UNCHANGED pc
                   ELSE /\ call' = [call EXCEPT ![c].incoming = flagged, ![c].then = "sidecar"]
                        /\ Goto(c, IF kind(c) \in Outside THEN "release" ELSE "sidecar")
             /\ UNCHANGED lastRead
     /\ UNCHANGED <<pending, holder, now, server, observed>>

(* readStore is outside of the retried part: if it throws, the update goes  *)
(* to the sidecar at once, as it is.                                        *)
WriteUnread(c) ==
  /\ pc[c] = "write"
  /\ Fault(c, "read")
  /\ call' = [call EXCEPT ![c].then = "sidecar"]
  /\ Goto(c, IF kind(c) \in Outside THEN "release" ELSE "sidecar")
  /\ UNCHANGED <<disk, holder, now, server, memory>>

\* Mutant of Sidecar: that the sidecar failed, too, is not recorded.
SidecarQuiet(c) ==
  /\ pc[c] = "sidecar" /\ Fault(c, "sidecar")
  /\ IF holder = c THEN Finish(c) ELSE End(c, "done")
  /\ UNCHANGED <<disk, holder, now, server, memory>>

(* The sidecar's baseline is read anew.  In no transaction nobody learns    *)
(* that it could not be written.                                            *)
Sidecar(c) ==
  /\ pc[c] = "sidecar"
  /\ \/ /\ pending' = [pending EXCEPT ![c] =
             [at |-> now, base |-> OwnBase(c), incoming |-> call[c].incoming,
              allowRemovals |-> removal(c)]]
        /\ IF holder = c THEN Finish(c) ELSE End(c, "done")
     \/ /\ Fault(c, "sidecar")
        /\ IF holder = c
           THEN /\ call' = [call EXCEPT ![c].failure = TRUE, ![c].then = "failed"]
                /\ Goto(c, IF kind(c) = "refresh" THEN "settle" ELSE "release")
           ELSE End(c, "done")
        /\ UNCHANGED pending
  /\ UNCHANGED <<stored, holder, now, server, memory>>

(* deletePassword *)
Erase(c) ==
  /\ pc[c] = "body"
  /\ kind(c) = "deleteAll"
  /\ \/ /\ stored' = Absent
        /\ lastRead' = [lastRead EXCEPT ![ProcOf(c)] = Absent]
        /\ Leave(c, "done")
     \/ /\ Fault(c, "write")
        /\ Throw(c)
        /\ UNCHANGED <<stored, lastRead>>
  /\ UNCHANGED <<pending, holder, now, server, observed>>

-----------------------------------------------------------------------------
(* A process ends; the lock of a dead holder is free again, and calls that  *)
(* have not begun run in the process that takes its place.                  *)
Live(c) == pc[c] \notin {"idle"} \cup Over

Crash(p) ==
  LET victims == {c \in Call : ProcOf(c) = p /\ Live(c)}
  IN /\ \E c \in victims : Fault(c, "crash")
     /\ pc' = [c \in Call |-> IF c \in victims THEN "dead" ELSE pc[c]]
     /\ call' = [c \in Call |-> IF c \in victims THEN Cleared(c) ELSE call[c]]
     /\ holder' = IF holder \in victims THEN Nobody ELSE holder
     /\ lost' = lost \cup UNION {Forgone(c) : c \in victims}
     /\ lastRead' = [lastRead EXCEPT ![p] = Absent]
     /\ observed' = [observed EXCEPT ![p] = {}]
     /\ UNCHANGED <<disk, now, valid, issued>>

Tick == /\ now < MaxTime
        /\ now' = now + 1
        /\ UNCHANGED <<disk, holder, server, memory, pc, call>>

Proceed(c) ==
  \/ Scan(c) \/ Acquire(c) \/ TimeOut(c) \/ Release(c)
  \/ \E d \in Call : Absorb(c, d)
  \/ Discard(c) \/ Absorbed(c) \/ Get(c) \/ Read(c) \/ ReadFails(c) \/ Unread(c)
  \/ Reread(c) \/ Ask(c) \/ Answered(c) \/ Settle(c)
  \/ Persist(c) \/ Write(c) \/ WriteUnread(c) \/ Sidecar(c) \/ Erase(c)

Next == (\E c \in Call : Begin(c) \/ Proceed(c)) \/ (\E p \in Process : Crash(p)) \/ Tick

Spec == Init /\ [][Next]_vars

-----------------------------------------------------------------------------
Labels == {"idle", "scan", "wait", "absorb", "discard", "body", "read", "unread", "ask", "answered",
           "settle", "persist", "write", "sidecar", "release",
           "queue", "check", "compare", "put", "verify"} \cup Over
Calls == [op : Op, login : Creds \cup {NoCreds}, opbase : Image, base : Image, incoming : Image,
          attempt : 0..2, todo : SUBSET Call, file : Call \cup {Nobody}, creds : Creds,
          renewed : Creds, failure : BOOLEAN, then : Labels \cup {"recovered"}]

TypeOK ==
  /\ stored \in Image
  /\ pending \in [Call -> Sidecars \cup {Absent}]
  /\ holder \in Call \cup {Nobody}
  /\ now \in 0..MaxTime
  /\ valid \in SUBSET Nat /\ issued \in Nat /\ lost \in SUBSET Nat
  /\ lastRead \in [Process -> Image]
  /\ observed \in [Process -> SUBSET (Creds \X Alias)]
  /\ pc \in [Call -> Labels]
  /\ call \in [Call -> Calls]

(* The rotated token is durable before the lock is released: once a refresh *)
(* has persisted, its new token is in the store or in a sidecar, unless the *)
(* operation is going to fail (refreshCredentials, lines 222 to 230).       *)
RotationDurable ==
  \A c \in Call : pc[c] = "settle" /\ ~call[c].failure => call[c].renewed.secret \in Durable

(* Nobody keeps a token the server no longer takes while another could be   *)
(* had: it is valid, or its successor is in a sidecar, in the hands of a    *)
(* live refresh, or was lost with a process, an answer or a failed write.   *)
InHand(s) == \E c \in Call : Live(c) /\ call[c].renewed # NoCreds /\ call[c].creds.secret = s
Replaced(s, a) == \E d \in Pending : /\ pending[d].base # Absent
                                     /\ s \in Secrets(pending[d].base)
                                     /\ a \in Entries(pending[d].incoming)
                                     /\ pending[d].incoming[a].creds.secret \in valid \cup lost
Usable ==
  \A a \in Entries(Contents(stored)) :
    LET s == stored[a].creds.secret
    IN s \in valid \cup lost \/ InHand(s) \/ Replaced(s, a)

(* The double refresh: no process presents a token that another has already *)
(* exchanged, however old the credentials it was asked to refresh.          *)
OneRefresh ==
  \A c \in Call : pc[c] = "ask" => call[c].creds.secret \in valid \cup lost

(* The next operation recovers first: a change under the lock is made with  *)
(* no update of an earlier transaction left in a sidecar.                   *)
RecoveredFirst ==
  \A c \in Call :
    holder = c /\ pc[c] \in {"ask", "answered", "persist", "write"} =>
      \A d \in Pending : kind(d) \in Outside

ChangedBy(base, incoming) ==
  {a \in Alias : base # Absent /\ incoming # Absent /\ base[a] # incoming[a]}
Targets(c) == IF kind(c) = "deleteAll" THEN Alias
              ELSE IF kind(c) \in {"read", "default"} THEN {}
              ELSE IF kind(c) = "refresh"
              THEN {call[c].op.alias} \cup ChangedBy(call[c].opbase, call[c].incoming)
                     \cup (IF c \in Pending THEN ChangedBy(pending[c].base, pending[c].incoming) ELSE {})
              ELSE {call[c].op.alias}
Acting(c) == Live(c) \/ pending[c] # Absent

(* A call in no transaction takes what its process read last for the store  *)
(* it was handed, and a sibling may have read in between.                   *)
Misled(c) == kind(c) \in Outside /\ \E d \in Call \ {c} : ProcOf(d) = ProcOf(c)

(* An alias changes only at the hands of a call that is about it and is not *)
(* over, or whose update waits in a sidecar: nobody's stale store undoes a  *)
(* refresh, a login or a deletion by another, except that of a call in no   *)
(* transaction that shares its process.                                     *)
OnlyTheAsker ==
  [][\A a \in Alias : ~SameCreds(Contents(stored)[a], Contents(stored')[a]) =>
       \E c \in Call : Acting(c) /\ (a \in Targets(c) \/ Misled(c))]_vars

(* The default moves only to the alias a call asks for, or when the default *)
(* alias goes or is stored anew by a login that knew it as the default.     *)
Knew(c) == IF c \in Pending THEN pending[c].base ELSE call[c].base
DefaultKept ==
  [][\A d, e \in Alias :
       Defaults(Contents(stored)) = {d} /\ Defaults(Contents(stored')) = {e} /\ d # e =>
         \/ stored'[d] = NoEntry
         \/ \E c \in Call : /\ Acting(c)
                            /\ \/ call[c].op.default /\ call[c].op.alias = e
                               \/ /\ kind(c) \in {"set", "bare"} /\ call[c].op.alias = d
                                  /\ Knew(c) = Absent \/ d \in Defaults(Knew(c))]_vars

(* A change that is reported done is in the store or in a sidecar.          *)
Has(c, s) == LET a == call[c].op.alias
             IN CASE kind(c) = "set" ->
                       /\ s[a] # NoEntry
                       /\ \/ s[a].creds = call[c].login
                          \/ s[a].creds.type = "oauth" /\ s[a].creds.expires_at >= call[c].login.expires_at
                  [] kind(c) = "default" -> Defaults(s) = {a} \/ a \notin Keys(s)
                  [] kind(c) = "delete" -> a \notin Keys(s)
                  [] OTHER -> TRUE
Acknowledged ==
  \A c \in Call :
    pc[c] = "release" /\ call[c].then = "done" =>
      \/ Has(c, Contents(stored))
      \/ pending[c] # Absent /\ Has(c, pending[c].incoming)

(* Every call that has begun ends: none waits for a lock that it holds.     *)
Finishes == \A c \in Call : Live(c) ~> ~Live(c)
=============================================================================
