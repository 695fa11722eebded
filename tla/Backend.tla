------------------------------- MODULE Backend -------------------------------
(***************************************************************************)
(* Which store a process uses: config.ts, store/systemdSupport.ts and      *)
(* store/StoreFactory.ts, as operators.  What a setting may say is         *)
(* abstracted to what it names.                                            *)
(***************************************************************************)
Backends == {"systemd-creds", "file"}
Selections == Backends \cup {"keyring", "auto"}

(* store is what SN_CRED_STORE and the configuration file name, in this     *)
(* order; a name that is none of Selections is no better than none.         *)
Settings == [env : Selections \cup {"none"}, file : Selections \cup {"none"},
             allowEnv : BOOLEAN, allowFile : BOOLEAN, disabled : BOOLEAN]

Hosts == [socket : BOOLEAN, systemd : {"absent", "old", "new", "unparsed"}, root : BOOLEAN]

(* loadConfig *)
Store(s) == CASE s.env \in Selections -> s.env
              [] s.env \notin Selections /\ s.file \in Selections -> s.file
              [] OTHER -> "auto"
AllowPlaintext(s) == s.allowEnv \/ s.allowFile

(* detectSystemdUserCredsSupport: the socket answers alone; without it only *)
(* root can use a systemd-creds that is new enough.                         *)
Supported(h) == h.socket \/ (h.systemd \in {"new", "unparsed"} /\ h.root)

\* Mutant of createStore: automatic choice falls back to the plain file.
createStoreAnyway(s, h) ==
  CASE Store(s) \in Backends -> Store(s)
    [] Store(s) = "keyring" -> "refused"
    [] Store(s) = "auto" -> IF Supported(h) THEN "systemd-creds" ELSE "file"

createStore(s, h) ==
  CASE Store(s) \in Backends -> Store(s)
    [] Store(s) = "keyring" -> "refused"
    [] Store(s) = "auto" -> IF Supported(h) THEN "systemd-creds"
                            ELSE IF AllowPlaintext(s) THEN "file" ELSE "refused"

(* What a backend writes, and so what it can read. *)
Written(backend) == IF backend = "file" THEN "plain" ELSE "sealed"
ReadsAny(backend, blob) == TRUE   \* mutant of Reads: what cannot be read is taken for empty
Reads(backend, blob) == blob \in {"none", Written(backend)}

(* What the user has to say before a secret is stored in plain text. *)
AskedForPlain(s) ==
  \/ s.env = "file"
  \/ s.env = "none" /\ s.file = "file"
  \/ s.allowEnv \/ s.allowFile
=============================================================================
