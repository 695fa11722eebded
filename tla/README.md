# Formal model of sn-credstore

sn-credstore keeps the ServiceNow SDK's credentials (a map from alias to
credential) in one encrypted blob shared by many short-lived processes. This
directory holds TLA+ modules that model its concurrent and failure-prone core,
TLC configurations that check them on small instances, and TLAPS proofs for every
value of the constants. `PROJECT.json` lists the runs, the mapping from
definitions to source lines, the mutants, the hazards and the theorems.

## Inventory

Paths are relative to `src/src/` unless they say otherwise.

| component | state | operations | interacts with | hard behaviour | what makes it correct |
|---|---|---|---|---|---|
| `lock/FileLock.ts` | ticket directories and their number files, the lock file, the per-process maps `held` and `tickets` | `acquireLock`, `release`, exit handlers | `owner.ts`, `atomicFile.ts`; used by the vault | interleaved scans, crashes at every point, zombies, deadlines, stale files | one holder; a live owner is never robbed; first come first served; whoever waits gets in |
| `lock/owner.ts` | cached identity of this process | `currentOwner`, `ownerIsDead`, `namedOwnerIsDead` | FileLock | pid reuse, reboot, foreign machine or PID namespace, zombie | "dead" is only said of the dead |
| `vault/merge.ts` | none (pure) | `diffKeyStores`, `mergeKeyStores`, `normalizeDefaults`, `pickNewer` | the vault | three stores of different ages | only stated intent removes; the newer OAuth token survives; exactly one default |
| `vault/CredentialVault.ts` | `lastReadStore`, the current operation (async local), fingerprints of tokens it returned, sidecar files | `getPassword`, `setPassword`, `deletePassword`, `withTransaction`, `refreshCredentials`, `importCredentialSnapshot`, `applyCredentialChanges`, absorption of sidecars | lock, merge, store, the SDK, the OAuth server | token rotation with crashes and failed writes, stale bases, replay of sidecars, swallowed errors | a rotated refresh token is never stranded, no update is lost, no alias vanishes unasked |
| `vault/transfer.ts` | none (pure) | copying and comparing snapshots | the vault | | duplicates and several defaults are refused |
| `store/atomicFile.ts`, `store/FileStore.ts` | one file and its version | versioned read, compare-and-write, delete | vault | the check and the rename are two steps, read and stat are concurrent, crash between create and rename | a reader sees an old or a new blob, never a mixture |
| `store/SystemdCredsStore.ts`, `store/KeyringStore.ts` | encrypted file; OS keyring | read, write, delete | `systemd-creds`, keyring module | a child process or a keyring that hangs | fails closed |
| `store/StoreFactory.ts`, `store/systemdSupport.ts` | none | choice of a backend | config | probing | never a silent downgrade to plaintext |
| `config.ts` | none | loading and precedence of settings, `lockPathFor` | all | | one lock path per store |
| `api.ts` | none | list, set default, delete one, delete all | vault | | each is one transaction |
| `validate.ts`, `types.ts` | none | checks of credentials and blobs | vault | | malformed data is never written |
| `shim/patch.ts`, `locateSdkCli.ts`, `register.ts`, `preload.cjs` | which SDK modules are patched | patching on load, refusal of unreviewed SDK sources | SDK, vault | load order, captured references | every store mutation of the SDK runs in a transaction |
| `cli/` | none | migrate, import, use, delete, list, doctor, backend | all | migrate writes outside the lock | verified copy |
| `errors.ts`, `redact.ts`, `logger.ts` | none | messages | all | | no secrets in output |

`PROJECT.json` lists each of these as a component, with what is modelled of it.

## Modules

| module | models | state | actions |
|---|---|---|---|
| `Mutex` | what `withLock` promises | `phase` of each client | request, grant, withdraw (release, deadline, death) |
| `FileLock` | `lock/FileLock.ts` | see below | see below |
| `FileLockOrder` | `FileLock` with a history of who was in the queue when a call arrived | `ahead` | those of `FileLock` |
| `Merge` | `vault/merge.ts`, as operators | none | none |
| `MergeLaws` | one merge, and the same update merged again | the three stores and the results | `Apply`, `Absorb` |
| `Vault` | `vault/CredentialVault.ts` on top of `Merge`, with the lock as a holder | see below | see below |
| `Transfer` | snapshots, exact replacements and imports, on top of `Vault` | that of `Vault` | `TransferBegin`, `Enter`, `Check`, `Compare`, `Put`, `Verify` and those of `Vault` |
| `Owner` | `lock/owner.ts`, with the processes, places and boots it asks about | see below | see below |
| `Backend` | `config.ts`, `store/systemdSupport.ts`, `store/StoreFactory.ts`, as operators | none | none |
| `Shim` | `shim/patch.ts` and `shim/locateSdkCli.ts` on top of `Backend`, with `migrate` and `import` | see below | see below |
| `Register` | what a store backend promises for its one blob | current value, what a power failure may leave, what each client got | get, put, remove, settle, fail, power loss |
| `AtomicFile` | `store/atomicFile.ts`, `store/FileStore.ts`, `store/SystemdCredsStore.ts`, and the accesses of `cli/commands/migrate.ts` | see below | see below |
| `FileLockProofs`, `OwnerProofs`, `MergeProofs`, `AtomicFileProofs`, `ShimProofs`, `VaultProofs`, `TransferProofs` | theorems about the module each is named for | | |
| `RefreshProofs` | theorems about the refreshes of `Vault` | | |
| `MC...` | instances for TLC | | |

`PROJECT.json` maps every definition to the lines it models.

### FileLock

A call is one invocation of `acquireLock`, with its own nonce, hence its own
ticket directory. `dir` and `number` are the ticket directory and its number
file, `lock` the lock file (absent, empty, somebody else's, or a call's), `own`,
`listed` and `peers` the locals of the scan, `seen` the payload that was read
before the owner is judged. `pc` follows the awaits: `Enter` makes the ticket
without a number (the choosing flag), `Readdir` and `CheckPeer` are `peers()`,
`Count`/`Counted`/`Publish` choose and publish a number, `Examine` and `Win` are
a round of the queue, `Link` to `Reclaim` the lock file, `Unlock`, `UnlockUnread`,
`UnlockThrows` and `Leave` the release, `Fail` a deadline or an error. `Kill` ends
a process with all its calls, `Exit` runs the exit handlers first. A killed
process may stay a zombie until `Reap`: `ownerIsDead` does not take it for dead.
For the calls in `MayFail` a file operation may throw, the removal of the ticket
included: the code has forgotten the ticket by then (`FileLock.ts:166`, `171`), so
`LeaveThrows` leaves the ticket of a live process behind, which not even the exit
handlers remove and which blocks every other call until that process has ended.
Hence `LeavesNothing` is about calls that are done and about those none of whose
own operations fail, and `Served` assumes that none fails.

A ticket directory is removed in one step: half removed it looks like one whose
call is still choosing, which makes others wait for one more round and no more.

### Owner

`FileLock` takes the answer of `ownerIsDead` for granted; `Owner` is where it
comes from. A place is a PID namespace on a machine, with the host name, machine
id and namespace id that its processes read; `Hides` says what reading may fail
there, and `hidden` what a process could not read of itself. A pid is free again
when its process is reaped, or when the machine reboots. `Look` compares the
identities and asks for the pid, `ReadStart` reads the start time of whoever has
the pid by then; between the two anything may happen. A payload and a ticket's
name differ in one comparison (`OtherMachine`). Assumed are that places which
share a host name differ in something that both can always read, and that the
id of a machine is not copied together with its name: where either fails, the
code cannot know better and may take the living for dead.

### Merge and MergeLaws

A store maps every alias to an entry or `NoEntry`; an entry has a type, an
expiry, an opaque secret and the default flag. Where the code takes the first key
with some property, the order of an object's keys decides; the model returns the
set of the results for all orders.

### Vault

A call is one operation of the SDK or of `api.ts`: a read; a refresh
(`refreshCredentials`); a login stored in a transaction (`set`), a change of the
default, a deletion, a deletion of all; and, outside of any transaction, a login
(`bare`) and a removal in `withRemovalIntent` (`intent`). What the SDK computes
between `getPassword` and `setPassword` is `Stored` and `Edits`. Every process is
one vault instance with its `lastRead` (`lastReadStore`) and `observed`
(fingerprints). `Scan` to `Absorbed` are the recovery of pending sidecars, with
its own lock when it runs outside of a transaction; `Read`, `ReadFails`, `Unread`
the read, where the SDK may take a failed read for an empty store; `Reread`,
`Ask`, `Answered`, `Settle` the refresh; `Persist`, `Write`, `Sidecar` the write
with its three attempts and the sidecar, to which `WriteUnread`, a failed read,
leads at once; `Erase` deletes the file. The ServiceNow server accepts the secrets in
`valid` and may rotate one when it is used. `lost` holds the secrets whose
successor no one could store any more (the answer or the process was lost, or
every write failed); no client can do anything about these, so the properties
except them, and only them.

A write fails without effect (`write`) or after it (`commit`); so do reads,
sidecars and their removal, the lock times out, the server is unreachable or its
answer gets lost, and a process crashes, for the calls whose operation names the
fault. A mutation in place is kept as such: `normalizeDefaults` changes entries
of the caller's store (`Flagged`), which a later attempt and the sidecar see.
`Absent` is the missing file and the missing baseline alike, as `null` is in the
code. Sidecars are absorbed in the order of the times in their names, ties in
any order.

### Transfer

`Transfer` adds three kinds of call to `Vault`, which run beside all the others
and are recovered from, crash and fail with them. They take the lock without
recovering anything, are refused while a sidecar waits (`Check`), and write once
(`Put`), with no retry and no sidecar, before they read again (`Verify`). An
`apply` calls twice, first for the snapshot it will expect, and in between
others may change it. The adopted default of a first import is any of the
candidates, since the order of an object's keys decides.

### Backend and Shim

`Shim` is one process that uses the SDK after another. A copy of the SDK is of a
kind (version, reviewed sources, whether the eager sweep finds it); its
`keychain`, `OAuth` and `auth` modules may be linked by import statements before
the shim is installed, and are evaluated, required or captured by the program in
any order before and after. `patched`, `strict`, `armed` and `wrapped` are the
marks that the code leaves on prototypes and exports, `required` is
`transactionRequiredPaths`, `held` the copies of whose functions somebody kept
the originals. `Install` is `installKeyChainShim`, with `createStore` of the
process's settings and host; `Change`, `RemoveAll` and `Refresh` are the calls of
the SDK, whose `effect` is where they end up: the vault inside of a transaction
or `bare`, a refusal, a `stray` refresh, or the keyring. The blob is `sealed` or
`plain`, over restarts, `Migrate` and `Import`; `sidecar` says whether the update
of a failed write waits beside it, which is in clear text under every backend
(see Findings); `asked` says whether a setting or a command has named the plain
file. A function that somebody captured is one of `auth`'s (`Capture`). A captured
`OAuth.refreshAccessToken` is not modelled: the code wraps that export and refuses
nobody (`shim/patch.ts:176`), so a call of the original goes round the vault, and
`InTransaction` is about the refreshes of `getCredentials`, which go through the export.

Assumed are that keychain modules are only loaded by `require`, that static
imports are linked before anything runs, that no credential call precedes the
installation, and that a program ends if its installation throws. A
load that the hook refuses throws to the one who asked for the module.

### AtomicFile

A call is one use of the store: a read, an update under the lock (read, then
write with the version it read, the way `CredentialVault` does), a deletion under
the lock, and a migration, which reads, writes and verifies without the lock.
`Half` is one of the two operations that `readFileVersioned` runs side by side;
`Check` the comparison of versions; `Seal` the child process of the systemd
store; `Create`, `Fill`, `Sync`, `Name`, `SyncDir`, `Stat` are the steps of
`writeFileAtomic`; `Unlink` is the deletion. A version is an inode with its time
and size, so two files that exist together differ in it and a later file may
have that of one that is gone. The directory is `name` (what the path names now),
`firm` (what it names on the disk since the last sync) and `loose` (what it has
named since): after `PowerLoss` the path names `firm` or a member of `loose`, and
files that were not synced are torn. Calls with a fault may throw at any step or
die; the sync of the directory may fail silently, and the model lets it.

## Runs

| run | instance | shows |
|---|---|---|
| `lock_queue` | three calls in three processes, one of which may fail and one die, numbers up to 2, an empty or a foreign lock file at first | mutual exclusion, the file names its holder, only failing operations leave anything behind, a live owner is never robbed, refinement of `Mutex` |
| `lock_live` | two calls, both processes may die, every initial lock file (none, empty, somebody else's) | first come first served; everybody who queues is served; `Mutex` with its fairness |
| `merge_laws` | all triples of stores over two aliases and four credentials, and over three aliases with all flags | the laws of the merge, and that absorbing twice is absorbing once |
| `vault_refresh` | three processes: two refreshes and a refresh or deletion, one call with every fault, aliases with their own or a shared grant | rotation is durable, no token is presented twice, whatever the store holds is usable, recovery comes first |
| `vault_changes` | logins, defaults, deletions; calls outside of transactions against refreshes; one with a sibling in its process that reads or refreshes, against a login or a deletion; faults, crashes, lock timeouts | only the asker changes an alias, or a call that a sibling may have misled, the default moves only when asked, what is acknowledged is there |
| `vault_transfer` | a change, a refresh and a third call, two in one process; applies and imports against each other, a refresh or a login, with failed reads and writes; imports into an empty store, also against a login outside of transactions | every call ends; a transfer writes exactly what it was asked over what was expected; never two defaults |
| `owner` | three processes, one of which judges, two pids, two start times; a machine, a container of it with the same host name, another machine of that name; one reboot of each | only the dead are found dead, and the dead are found |
| `atomic_file` | two updates (one plain, one sealed), a deletion, a migration; one update and the migration may fail or die | whole blobs, durable writes, no lost update, refinement of `Register` |
| `shim` | two copies of five kinds, seven environments | no keyring, only transactions, no refusal without a cause, no store in plain text unasked, no blob taken for empty |
| `vault_short_life`, `vault_flags`, `vault_nothing` | the smallest instance of each | the findings below |

Bounds. Three calls are enough for the lock because each call compares itself
with one other at a time: two calls can collide, and the third overtakes, dies or
reclaims between them; in `lock_live` two are enough for one to wait and the other
to arrive, though a stream of newcomers is one newcomer there (`ServedInOrder` is
proved for any number); three calls and `MaxNumber = 2` also reach the refusal of
numbers that grew too large. Two aliases distinguish the alias that is changed
from one that is not, sharing a grant or not; three calls are two that conflict
and one that crashes or recovers. `MaxTime` lets tokens become due and sidecars get an age where
a property is about time and is 0 where it is not; the stored tokens expire at 1
and so are in the window of 1 from the start. Every passing vault run has
lifetimes longer than the window, which a real instance has too; `vault_short_life`
drops that. In `owner` a judge, the process it judges and a third that gets the
pid of the second between the judge's steps or before make all the cases, from the
same place or from another; with two pids the owner and a running judge can be in
one place. One process judges because the looks of two do not touch each other,
and which one it is makes no difference. The three places are the three ways to
be another place. The copies of the SDK do not share state, so that two are enough to load one
and miss the other; the environments lead to every choice of a store. The file needs two files that replace each other, one more that is
torn or removed between them, and a fault in one of the writers.

Deadlock is not checked where every call may come to its end (`merge_laws`, the
vault, the file, and the processes of `owner` and `shim`, which end); `Finishes`
says that no call of the vault waits for ever, and
`lock_queue` and `lock_live` do check for deadlock.

Fairness. `lock_live` assumes that a call which can take a step takes one (the
event loop runs, the holder's callback ends and calls `release`), that the parent
reaps a zombie, that a clock goes on, and that whoever owns a foreign lock file
removes it; it does not assume that a process dies or a deadline passes.
`vault_transfer` assumes only that a call which can take a step takes one; the server
answers or is reported unreachable, as the SDK's request does.

## Findings

Three runs end in a violation of what a text of the repository says.

1. `vault_short_life`: a token whose expiry is not later than the stored one is
   dropped by the merge, so a refresh can succeed with its rotated token nowhere,
   although a comment says that it is durable by then.
2. `vault_flags`: a write that fails has already changed the caller's default
   flags in place, and the sidecar takes the change for the caller's intent; a
   default set later does not survive the recovery, as the README says it does.
3. `vault_nothing`: `null` stands for an empty store and for no baseline; a
   removal that was handed an empty store removes what was added since.

These limits of the code shaped the properties. None of them is a run of its own.

- A write that fails three times puts the whole store into a `.pending-*` sidecar
  as clear JSON, whatever the backend (`vault/CredentialVault.ts:249`, `302-306`), as
  does a blob that does not parse into a `.corrupt.*` copy (`:78`). Under
  `systemd-creds` this is plain text on the disk that nobody asked for, although
  `store/StoreFactory.ts:4-7` says "NEVER silently downgrade from an encrypted
  backend to plaintext" and the README (`src/README.md:245-247`) "no silent
  downgrade". The files are `0600` and the next recovery removes a sidecar.
  `PlainIfAsked` and `StorePlainOnlyIfAsked` are therefore about the store alone.
- `lastReadStore` is shared by the calls of a process that are in no transaction.
  A login `bare` reads {A, B}, another process deletes B, a sibling of the login reads
  {A}, and the login then writes {A, B} over the base {A} (`CredentialVault.ts:280`):
  B comes back, although `src/README.md:282` says that the base is the one "that was
  handed out". The shim refuses changes outside of transactions wherever it can
  (`InTransaction`), so this takes a caller that avoids it. `OnlyTheAsker` excepts
  exactly a call outside of transactions with a sibling in its process (`Misled`);
  without the exception `vault_changes` is violated by such a trace.
- A ticket whose removal fails stays with a live process and blocks all others
  (`lock/FileLock.ts:166-167`, `171-172`; see FileLock above).

A change of the default flag counts as a change of the whole entry
(`vault/merge.ts:42`), so a login outside of transactions that takes the default
from an alias may bring that alias back after another process deleted it; in the
instances of `OnlyTheAsker` no call outside of transactions takes the default from
an alias that another deletes. The version check of the stores and the rename are
two steps, so the version does not detect a writer without the lock, which
`migrate` is; `NoLostUpdate` is about updates under the lock and excepts what a
migration overwrites.

## Proofs

Everything below holds for every value of the constants that meets the
assumptions of the module.

`FileLockProofs`: `IndInv` is the inductive invariant. Mutual exclusion is not
inductive: what carries it is `QueueInv`, the bakery's argument that a peer which
a scan has dealt with is `Behind` the scanning call, and stays there, whether it
has not started, is counting (and has the call still to count or a larger number
already), or is queued with a later number. `TicketInv` says when a ticket shows
its number, `PathInv` what a contender that judges the lock file may find at the
path by the time it unlinks it; with exclusion it gives `HolderOwnsFile` and
`NeverStolen`. A ticket that was left behind is one of a call that is over, which no
longer competes. `LeavesNothing` and the refinement of `Mutex` follow. First come
first served (`ServedInOrder`) is about the history that `FileLockOrder` adds: whoever
was queued when a call arrived has a smaller number than the call's, or the call
has not counted yet and will count it.

`OwnerProofs`: `IndInv` adds to `DeadIsGone` that a process which the system knows
began in the current boot of its machine, that no two such processes of a place
share a pid, and that a judge who goes on to the start time is in the owner's
place. From the assumptions on places, an identity that is not foreign is of the
same place, or of an earlier boot of the same machine (`SamePlace`,
`EarlierBoot`); who is there with the pid and another start time is not the
owner, who must be gone. The other direction, that the gone are found dead
(`DeadAreFound`), needs that a judge keeps in mind what it compared.

`MergeProofs`: `LawInv` ties the result to the three stores; each law is then a
statement about `Replay` and `Normalize`, whose facts are lemmas. Proved are
the clobber guard, that other aliases keep their credentials, that changes are
applied, that an expiry never goes back, that there is one default, that it goes
where an update moved it (`DefaultFollowsIntent`), and that an update absorbed a
second time changes nothing more (`AbsorbingTwice`).

`AtomicFileProofs`: `FileInv` says that a file has no name before its content is
on the disk and that a writer past the sync of the directory is not among the
names that a power failure could take back; `UpdateInv` that, under the lock, the
path still names what an update has read, or what a migration has put there. The
version does not occur in the argument: it is the lock that keeps updates from
getting lost. Type correctness, `Whole`, `Durable`, `NoLostUpdate` and the
refinement of `Register` follow.

`ShimProofs`: `Rewired` says of an installed shim that every evaluated keychain is
patched, that every module is wrapped or still armed once it is in the cache, and
that a copy whose `auth` is wrapped is marked, which each way of loading
preserves; the keyring and the vault without a transaction are then out of reach
(`Routed`). `PlainInv` says of a plain blob, and of a process whose backend is
the plain file, that plain text was asked for (`StorePlainOnlyIfAsked`); the choice
of the backend is the lemma `FileIsAsked`. That only a captured function is refused (`OnlyHeldRefused`) is about
the causes of each step; that only a migration changes the kind of the blob
(`NeverOverwritten`) is `Reads`, the check of `readStore`.

`VaultProofs`: `VaultInv` says where each kind of operation may be and with what in
its locals (`LocalInv`), that the lock is held by exactly the call that works
under it (`LockInv`), and which sidecars may wait at each step of a recovery
(`RecoverInv`): those that the call has listed and not yet absorbed, and those of
calls outside of transactions. `RecoveryFirst` follows: a transaction edits a store
that includes every update before it. On top of it:

- `RotationIsDurable`. `RefreshInv` follows the renewed token from the server's
  answer to the store or the sidecar: up to the write the token that it replaces
  is still in the store under some alias that was asked for, or a failed attempt
  has already put it there; the merge then keeps the renewed one, which expires
  later. The hypothesis that every lifetime exceeds the refresh window is
  necessary: `vault_short_life` drops it and loses a token.
- `AcknowledgedIsKept`, without any hypothesis. `AckInv` says what a login, a
  deletion or a default bears at each step until it is reported done. It needs that
  a secret which the server has just issued is in no store, sidecar or memory until
  its own call writes it (`SecretInv`, with `Unseen` and `Within`); otherwise a
  merge might find the login already there with a later expiry.

`RefreshProofs`: `OneRefreshOnly` and `UsableAlways`, that no token is presented
twice and that the store holds none that the server has replaced, save while the
successor is on its way. At every moment either no renewal is on its way and
every token of the store is good (`Pure`), or there is exactly one (`Renewal`),
in a call under the lock or in the one sidecar, and the store is as it was before
it or as it will be after; any other change on its way is an `Edit`, of which every
token is good. A merge keeps this since what it returns is made of the two
stores it merges (`MergeMixes`, `MergeRenews`). `Transactional` states three
hypotheses, all of them necessary, as TLC shows when one of them is dropped:

- lifetimes exceed the window, as above;
- every change is made in a transaction, which is what the shim is for (`InTransaction`
  there). A login outside of one that takes the default from an alias
  can bring that alias back, with a token from before its last refresh, after
  another process deleted it (see Findings);
- of the stores to start from, entries with the same token have the same
  credentials. `refreshCredentials` replaces the credentials that equal the ones it
  asked for (`CredentialVault.ts:218`), expiry included: an entry with the same
  token and another expiry would keep a token that has been exchanged. No operation
  brings such a store about.

`TransferProofs`: the invariant of `Vault` holds with transfers beside the other
calls (`TransferInvariant`). `PutInv` says that what is about to be put is what
the transfer makes of the store that is there now, which the lock and the
comparison under it give (`TransferExactly`); `OneDefaultOnly` says that there are
never two defaults, if the stores to start from have at most one.

The assumptions on the constants of `Vault` are that there are finitely many
aliases, that stores to start from hold secrets which the server accepts, and that
the values for "nothing" are none of the others.

Only model-checked:

- all liveness and fairness (`Finishes`, and that everybody who queues is
  served), which the prover does not reach;
- `OnlyTheAsker` and `DefaultKept`, which hold in the instances and not in general:
  findings 2 and 3 and the default flag under Findings are exceptions, which these
  instances leave out on purpose.

## Not modelled

- System calls still in flight when a process ends: a step is complete or has
  not begun. A rename in the thread pool of a process that exits on a signal
  could land after the next holder's.
- Ticket directories of another version of the queue, and old clients that take
  the lock file without a ticket (a file of theirs at the start is modelled).
- Blobs and sidecars that do not parse, refusals by `validate.ts`, the limit of
  4096 fingerprints, the filter by instance URL: they decide over the content of
  strings, and a refused blob is never written.
- In the shim: `uninstall`, which nothing in the package calls, and sources that
  pass the review and yet lack a function, which the hashes exclude.
- The diagnosis of a failed `systemd-creds`, the loading of the keyring's native
  module, the command line, logging, redaction and the development scripts: input,
  output and wording. The keyring's timer (`KeyringStore.ts:89`) cannot fire
  while the synchronous call it bounds runs, as its comment says.

Written: the lock and its owners, the merge, the vault's transactions and
transfers, the file, the choice of the backend and the shim. Proved: every
invariant that a run checks. What is left is proof:

1. `OnlyTheAsker` and `DefaultKept` for changes in transactions whose first write
   succeeds or whose sidecar is absorbed with the flags as the caller left them,
   the exact hypotheses to be found with TLC;
2. what the transfers leave of `OneRefresh` and `Usable`: an import may bring in a
   token of another machine that has been exchanged there;
3. that the vault with `FileLock` in the place of its `holder`, and `AtomicFile` in the
   place of its store, behaves as `Vault` says.
