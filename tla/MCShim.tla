------------------------------- MODULE MCShim -------------------------------
(* Two copies of the SDK, of every kind that the code tells apart, and the *)
(* environments that lead to every choice of a backend.                    *)
EXTENDS Shim, TLC

K(v, r, c) == [version |-> v, reviewed |-> r, candidate |-> c]
MCKinds == {K("known", TRUE, TRUE), K("known", TRUE, FALSE), K("known", FALSE, FALSE),
            K("unknown", TRUE, FALSE), K("unreadable", TRUE, TRUE)}

E(env, file, allow, disabled, host) ==
  [settings |-> [env |-> env, file |-> file, allowEnv |-> FALSE, allowFile |-> allow,
                 disabled |-> disabled],
   host |-> host]
New == [socket |-> TRUE, systemd |-> "new", root |-> FALSE]
Old == [socket |-> FALSE, systemd |-> "old", root |-> TRUE]
Bare == [socket |-> FALSE, systemd |-> "new", root |-> FALSE]
MCEnvironments ==
  {E("none", "none", FALSE, FALSE, New), E("none", "none", FALSE, FALSE, Old),
   E("none", "none", TRUE, FALSE, Bare), E("auto", "file", FALSE, FALSE, New),
   E("none", "file", FALSE, FALSE, New), E("keyring", "none", TRUE, FALSE, New),
   E("none", "none", FALSE, TRUE, New)}

MCSymmetry == Permutations(Copy)
=============================================================================
