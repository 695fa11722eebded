------------------------------ MODULE MCVault ------------------------------
(* Small instances of Vault: three calls, of which two may share a process *)
(* and two aliases, which may share a grant.                               *)
EXTENDS Vault

CONSTANTS A, B

OAuth(n, expiry, default) ==
  [creds |-> [type |-> "oauth", expires_at |-> expiry, secret |-> n], isDefault |-> default]
Basic(n, default) ==
  [creds |-> [type |-> "basic", expires_at |-> 0, secret |-> n], isDefault |-> default]
Pair(a, b) == [x \in Alias |-> IF x = A THEN a ELSE b]

MCThree == 1..3

DoOp(p, kinds, aliases, default, faults) ==
  [kind : kinds, alias : aliases, default : default, process : {p}, faults : {faults},
   type : IF kinds \cap {"set", "bare"} # {} THEN {"oauth", "basic"} ELSE {"oauth"}]

Setup(stores, first, second, third) ==
  [store : stores, plan : {<<x, y, z>> : x \in first, y \in second, z \in third}]

\* Both aliases hold OAuth credentials; each has its own grant or both share one.
MCGrants == {Pair(OAuth(1, 1, TRUE), OAuth(2, 1, FALSE)), Pair(OAuth(1, 1, TRUE), OAuth(1, 1, FALSE))}

\* One alias of each type, and no store at all.
MCMixed == {Pair(OAuth(1, 1, TRUE), Basic(2, FALSE)), Absent}

\* Two refreshes of either alias, and a refresh or the deletion of one.
MCRefreshes(first, second, third) ==
  Setup(MCGrants, DoOp(1, {"refresh"}, {A, B}, {FALSE}, first),
                  DoOp(2, {"refresh"}, {A, B}, {FALSE}, second),
                  DoOp(3, {"refresh", "delete"}, {A}, {FALSE}, third))

MCFailing == MCRefreshes(FaultKinds, {"write", "lost"}, {})
MCSound == MCRefreshes({}, {}, {})

\* In one process a login, with or without the default, and a default or a
\* deletion; in another a deletion of all or a login.
MCEdits ==
  LET faults == {"read", "write", "sidecar", "discard", "crash"}
  IN Setup(MCMixed, DoOp(1, {"set"}, {A}, BOOLEAN, faults),
           DoOp(1, {"default"}, {B}, {TRUE}, faults) \cup DoOp(1, {"delete"}, {A, B}, {FALSE}, faults),
           DoOp(2, {"deleteAll"}, {A}, {FALSE}, faults) \cup DoOp(2, {"set"}, {B}, {TRUE}, faults))

\* Two calls outside of transactions and a refresh or deletion, a process each.
MCOutside ==
  LET faults == {"write", "timeout"}
  IN Setup(MCGrants, DoOp(1, {"bare"}, {A}, {TRUE}, faults),
                     DoOp(2, {"intent", "bare"}, {B}, {FALSE}, faults),
                     DoOp(3, {"refresh", "delete"}, {B}, {FALSE}, faults))

\* A change, in a transaction or not, with a reader in the same process, and
\* another process that changes the other alias.
MCSiblings ==
  Setup(MCMixed \ {Absent}, DoOp(1, {"set", "bare", "intent"}, {A}, {FALSE}, {"read", "write"}),
                            DoOp(1, {"read", "refresh"}, {B}, {FALSE}, {"read", "write"}),
                            DoOp(2, {"set", "delete"}, {B}, {FALSE}, {"write"}))

MCChanges == MCEdits \cup MCOutside \cup MCSiblings

\* A change, a refresh or a read, and a call outside of transactions.
MCMany ==
  LET faults == {"write", "lost"}
  IN Setup(MCGrants, DoOp(1, {"delete", "refresh", "read"}, {A}, {FALSE}, faults),
           DoOp(1, {"refresh"}, {A}, {FALSE}, faults),
           DoOp(2, {"default"}, {B}, {TRUE}, faults) \cup DoOp(2, {"intent"}, {B}, {FALSE}, faults))

\* A login that leaves the default alone, one that asks for it, and a reader.
MCLogins == Setup({Absent}, DoOp(1, {"bare"}, {A}, {FALSE}, {"write"}),
                            DoOp(2, {"bare"}, {B}, {TRUE}, {"write"}),
                            DoOp(3, {"read"}, {A}, {FALSE}, {}))

\* A removal that was handed no store at all, and a login meanwhile.
MCNothing == Setup({Absent}, DoOp(1, {"intent"}, {B}, {FALSE}, {}),
                             DoOp(2, {"set"}, {A}, {FALSE}, {}),
                             DoOp(3, {"read"}, {A}, {FALSE}, {}))
============================================================================
