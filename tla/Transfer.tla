------------------------------ MODULE Transfer ------------------------------
(***************************************************************************)
(* Credential transfer (CredentialVault.ts, transfer.ts), beside the other *)
(* calls of the vault: readCredentialSnapshot, applyCredentialChanges with *)
(* the credentials of an earlier snapshot as the expected ones, and        *)
(* importCredentialSnapshot.  A transfer recovers nothing: it is refused   *)
(* while a sidecar waits.  It writes once, and then reads again.           *)
(***************************************************************************)
EXTENDS Vault

(* A request is a store: of an apply its credentials alone matter.  That no *)
(* alias is named twice (copyChanges) is so by its type.  As a bound, it    *)
(* names the alias of the call's operation or none at all.                  *)
Valid(s) == Cardinality(Defaults(s)) <= 1
Request(c, creds) ==
  LET flags == IF kind(c) \in {"import", "overwrite"} THEN BOOLEAN ELSE {FALSE}
  IN IF kind(c) = "snapshot" THEN {EmptyStore}
     ELSE {s \in [Alias -> {NoEntry} \cup [creds : {creds}, isDefault : flags]] :
             Valid(s) /\ (s = EmptyStore \/ call[c].op.alias \in Keys(s))}

(* The caller's credentials, of a new grant. *)
TransferBegin(c) ==
  /\ pc[c] = "idle" /\ kind(c) \in Transfers
  /\ \E life \in Lifetimes :
       LET creds == [type |-> "oauth", secret |-> issued + 1, expires_at |-> now + life]
       IN \E request \in Request(c, creds) : call' = [call EXCEPT ![c].incoming = request]
  /\ issued' = issued + 1
  /\ valid' = valid \cup {issued'}
  /\ Goto(c, "queue")
  /\ UNCHANGED <<disk, holder, now, lost, memory>>

Enter(c) ==
  /\ pc[c] = "queue"
  /\ \/ /\ holder = Nobody
        /\ holder' = c
        /\ Goto(c, "check")
        /\ UNCHANGED call
     \/ /\ Fault(c, "timeout")
        /\ End(c, "failed")
        /\ UNCHANGED holder
  /\ UNCHANGED <<disk, now, server, memory>>

\* Mutant of Check: sidecars are left for later.
CheckNothing(c) ==
  /\ pc[c] = "check"
  /\ Goto(c, "compare")
  /\ UNCHANGED <<disk, holder, now, server, memory, call>>

(* withTransferTransaction *)
Check(c) ==
  /\ pc[c] = "check"
  /\ IF Pending = {} THEN Goto(c, "compare") /\ UNCHANGED call ELSE Leave(c, "failed")
  /\ UNCHANGED <<disk, holder, now, server, memory>>

-----------------------------------------------------------------------------
(* An apply has its snapshot when it enters for the second time. *)
HasSnapshot(c) == call[c].opbase # Absent

\* Mutant of Conflicts: an alias that was expected to be absent is not compared.
ConflictsOfKnown(c, s) ==
  {a \in Keys(call[c].incoming) \cap Keys(call[c].opbase) : ~SameCreds(s[a], call[c].opbase[a])}

Conflicts(c, s) == {a \in Keys(call[c].incoming) : ~SameCreds(s[a], call[c].opbase[a])}

Changed(s, request) ==
  [a \in Alias |-> IF a \notin Keys(request) THEN s[a]
                   ELSE [creds |-> request[a].creds, isDefault |-> a \in Defaults(s)]]

Selected(s, source, over) == {a \in Keys(source) : over \/ a \notin Keys(s)}

(* The first import adopts a default: the one flagged, or any. *)
\* Mutant of Imports: the flags are those of the source.
ImportsFlags(s, source, over) ==
  {[a \in Alias |-> IF a \in Selected(s, source, over) THEN source[a] ELSE s[a]]}

Imports(s, source, over) ==
  LET preferred == IF Defaults(source) # {} THEN Defaults(source) ELSE Keys(source)
      Flag(a, adopted) == IF Keys(s) = {} THEN a = adopted ELSE a \in Defaults(s)
  IN {[a \in Alias |-> IF a \in Selected(s, source, over)
                       THEN [creds |-> source[a].creds, isDefault |-> Flag(a, adopted)]
                       ELSE s[a]] : adopted \in preferred}

(* readTransferStore, and what the call makes of the store. *)
Compare(c) ==
  LET s == Contents(stored)
      o == call[c].op
      PutIn(store) == /\ call' = [call EXCEPT ![c].base = store]
                      /\ Goto(c, "put")
  IN /\ pc[c] = "compare"
     /\ \/ /\ Fault(c, "read") \/ ~Valid(s)
           /\ Leave(c, "failed")
        \/ /\ Valid(s)
           /\ \/ /\ o.kind = "snapshot"
                 /\ Leave(c, "done")
              \/ /\ o.kind = "apply" /\ ~HasSnapshot(c)
                 /\ call' = [call EXCEPT ![c].opbase = s, ![c].then = "queue"]
                 /\ Goto(c, "release")
              \/ /\ o.kind = "apply" /\ HasSnapshot(c)
                 /\ IF Keys(call[c].incoming) = {} THEN Leave(c, "done")
                    ELSE IF Conflicts(c, s) # {} THEN Leave(c, "failed")
                    ELSE PutIn(Changed(s, call[c].incoming))
              \/ /\ o.kind \in {"import", "overwrite"}
                 /\ LET over == o.kind = "overwrite"
                    IN IF Selected(s, call[c].incoming, over) = {}
                       THEN Leave(c, "done")
                       ELSE \E store \in Imports(s, call[c].incoming, over) : PutIn(store)
     /\ UNCHANGED <<disk, holder, now, server, memory>>

(* writeTransferStore: one write, which may fail after it took effect. *)
Put(c) ==
  /\ pc[c] = "put"
  /\ \/ /\ stored' = call[c].base
        /\ Goto(c, "verify")
        /\ UNCHANGED call
     \/ /\ \/ Fault(c, "commit") /\ stored' = call[c].base
           \/ Fault(c, "write") /\ stored' = stored
        /\ Leave(c, "failed")
  /\ UNCHANGED <<pending, holder, now, server, memory>>

Verify(c) ==
  /\ pc[c] = "verify"
  /\ \/ /\ stored = call[c].base
        /\ lastRead' = [lastRead EXCEPT ![ProcOf(c)] = stored]
        /\ Remember(ProcOf(c), stored)
        /\ Leave(c, "done")
     \/ /\ Fault(c, "read") \/ stored # call[c].base
        /\ Leave(c, "failed")
        /\ UNCHANGED memory
  /\ UNCHANGED <<disk, holder, now, server>>

TransferProceed(c) == Proceed(c) \/ Enter(c) \/ Check(c) \/ Compare(c) \/ Put(c) \/ Verify(c)

TransferNext ==
  \/ \E c \in Call : TransferBegin(c) \/ Enter(c) \/ Check(c) \/ Compare(c) \/ Put(c) \/ Verify(c)
  \/ Next

TransferSpec ==
  /\ Init /\ [][TransferNext]_vars
  /\ \A c \in Call : WF_vars(TransferProceed(c))

-----------------------------------------------------------------------------
(* A transfer that reaches the store changes what it was asked to, all of   *)
(* it and nothing else, flags included; of credentials that are still those *)
(* its caller has seen, or of none; and with no update of an earlier        *)
(* transaction in a sidecar, which would undo it later.                     *)
Asked(c, s) ==
  {a \in Keys(call[c].incoming) : kind(c) # "import" \/ a \notin Keys(s)}
Exactly ==
  [][\A c \in Call : pc[c] = "put" /\ stored' # stored =>
       LET old == Contents(stored)
           new == Contents(stored')
       IN /\ \A d \in Pending : kind(d) \in Outside
          /\ \A a \in Alias :
               IF a \in Asked(c, old)
               THEN /\ new[a] # NoEntry /\ new[a].creds = call[c].incoming[a].creds
                    /\ kind(c) = "apply" => SameCreds(old[a], call[c].opbase[a])
                    /\ a \in Keys(old) => new[a].isDefault = old[a].isDefault
               ELSE new[a] = old[a]]_vars

(* There is never more than one default, or every later transfer would be   *)
(* refused: not by logins, imports into an empty store, or their recovery.  *)
AtMostOneDefault == Valid(Contents(stored))
=============================================================================
