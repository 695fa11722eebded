----------------------------- MODULE MCTransfer -----------------------------
(* Transfers beside a refresh, a login and each other, and the calls of    *)
(* MCMany, which change, refresh and read without any transfer.            *)
EXTENDS Transfer, MCVault

MCTransfers ==
  LET faults == {"write", "commit", "read"}
  IN Setup(MCGrants, DoOp(1, {"apply"}, {A}, {FALSE}, faults),
           DoOp(2, {"apply", "overwrite", "snapshot"}, {A}, {FALSE}, {"commit"}),
           DoOp(2, {"refresh"}, {A}, {FALSE}, {"write"}))

\* Into an empty store; with a login, in a transaction or outside of any.
MCFirst ==
  Setup({Absent}, DoOp(1, {"import"}, {A}, {FALSE}, {"commit"}),
        DoOp(1, {"apply", "import"}, {B}, {FALSE}, {"timeout"}),
        DoOp(2, {"set"}, {B}, {TRUE}, {"write"}))
  \cup
  Setup({Absent}, DoOp(1, {"import"}, {A}, {FALSE}, {}), DoOp(1, {"apply"}, {A}, {FALSE}, {}),
        DoOp(2, {"bare"}, {B}, {TRUE}, {"write"}))

MCTransferring == MCMany \cup MCTransfers \cup MCFirst
=============================================================================
