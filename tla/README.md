# Verification of seavault

Seavault keeps an encrypted vault in a directory that a file-sync client
(Nextcloud, Syncthing, rclone, ...) replicates between devices. There is no
server of its own: every guarantee about concurrent edits, deletions, garbage
collection and key rotation has to come from files that arrive late, out of
order, twice or not at all, and from processes that stop between two writes. On top
of that core, one process serves the open vault to a browser and to WebDAV clients,
several commands create, move and register vaults, and certificates are replaced
under a running listener. The modules here are translated from the Go code in
`internal/` and `cmd/`; every definition is mapped to its lines in `PROJECT.json`.

## 1. Inventory

| component | state | operations | interacts with | modules |
|---|---|---|---|---|
| rate limiter, `internal/authlimit` | buckets per {surface, peer, account}: failures, reservations, lock, times | `Attempt`, `Fail`, `Success`, `Release`, `SelfState`, `ClearPeer`, `ClearAccount`, eviction | request handlers of `localdav` and `webui`, one goroutine each | AuthLimit |
| reconciliation, `vault/manifest.go` | none (pure) | `reconcilePathCandidates`, `candidateCompare`, `loadManifestIndex` | every load and every compaction | Reconcile, ManifestWalk |
| vault core, `vault/vault.go`, `cache.go`, `compact.go` | manifest files, index cache, generation high-water mark, vector clocks | put, remove, reload, compact | the sync client, other processes on the device | VaultSync |
| garbage collection, `vault/gc.go` | chunk files, synced intents, device-local first-seen records | `gcConfirm` in two phases, dry run | puts that deduplicate, the sync client | GarbageCollect |
| config, `vault/configmac.go`, `anchor.go`, `rotation.go`, `seal.go` | `vault.json`, device-local freshness anchor, the config in memory | open, ratchet, change password, prepare/redeem/revoke recovery, seal, unseal | the sync client, restored backups, other processes | ConfigFreshness |
| rename, directories, export, readers, `vault` | records and markers of several paths; plaintext destination; chunk cache | mkdir, remove tree, import of trees, restore, export, ranged reads | vault core, WebDAV, GUI | DavTree |
| WebDAV server, `localdav` | tree mutex, stream budget, presence cache | GET, PUT, DELETE, MKCOL, COPY, MOVE | vault, rate limiter | DavTree |
| web UI server, `webui` | sessions and papers; the open vault, its pending recovery, DAV token and presence cache, import jobs; browser streams and timers | JSON API, `/dav/`, launch link | everything | WebSession, WebVault, GuiLifecycle |
| single-instance lock, `bundlelaunch`, `cmdGUI` | the lock file, the bound port | launch, relaunch, exit | the web UI server | GuiLifecycle |
| TLS: `tlsconfig`, `setup/tlswizard.go`, `tls` commands, settings page | certificate pairs, `appconfig.json`, the pair a listener holds | resolve, validate, poll and swap, generate the floor, wizard, set/remove, save | both servers, an external issuing tool | TLSServing |
| vault folders: `vaultmove`, `setup`, `profile`, `remotes`, `init` | folders, temporary siblings, `profiles.json`, remote profiles, keychain entries | create, set up, move, register, unregister | several processes and spellings of one folder | VaultPlaces, VaultHome |
| index fingerprint, `vault/cache.go` | baseline fingerprint of the manifest directory | `ReloadIfChanged` | long-running servers | none |
| device id, other stores, `appdir`, `appconfig` | JSON files | load, save | all commands | in part |
| transports, binaries, keychain, passphrase, paths | external programs | run, download, verify | commands | none |
| cryptography, chunker, word lists | none | pure transformations | vault core | none |

What is hard here, and hard to reach with tests:

* the steps of request handlers between critical sections: what a handler read
  under a mutex is a copy when it goes on;
* manifests, deletions, touches and configs that arrive in any order and late,
  and sync clients that rename what they cannot merge;
* a put that works on a snapshot while its disk changes, a download that spans a replacement;
* compactions, collections, rotations, moves and setups that stop between two writes;
* two files (certificate and key) that are replaced one after the other while a
  poller reads them one after the other;
* timers that fire late, after what they were set for has changed;
* devices that decide by their own clocks and their own records;
* reservations that are never returned, fences, windows, budgets and maps at their limits.

`PROJECT.json` lists these at their lines, under `hazards`, with the property
that would show each going wrong. What makes each component correct:

* limiter: never more verifications per lock cycle than the threshold; locks end
  by time; reservations are returned; the map is bounded;
* reconciliation: one outcome for one set of copies, no causal inversion, no
  edit dropped;
* vault core: an edit nobody replaced or deleted is shown somewhere; compaction
  hides no edit, whatever interrupts it, ends with the index it began with and reaches a fixed point;
* garbage collection: a file nobody removed keeps its chunk; garbage goes;
* config: one password opens, the last one set; an open never goes back;
* tree and readers: no download, restore or export mixes two versions; COPY and MOVE
  lose nothing they carry;
* sessions: what has ended stays ended, whatever a request in flight still writes;
  single-use papers are honoured once;
* open vault: a request acts on the vault it was made for; an entry is written only for
  a phrase that was typed back; every request is answered;
* GUI process: no shutdown under a page in use, a shutdown when nobody is left;
* TLS: what is served is one pair that matches; no valid certificate is replaced by a
  worse one; renewals are taken up;
* vault folders: a complete vault never disappears without consent; setup publishes all or nothing.

## 2. Modules

### AuthLimit (`internal/authlimit/authlimit.go`)

`st` is the bucket map, `keys` the keys that have an entry, `att[h]` the
`Attempt` of handler `h`: which of its keys (peer, pair, account) it has reserved
and what it is doing. Each action is one critical section: `CheckGranted` and
`CheckDenied` reserve one key or roll the attempt back, `Fail`, `Success` and
`Release` resolve one key at a time; `Begin` and `Verify` run outside the mutex.
`refresh` composes the three expiries of `refreshLocked`. Instants are kept as ages and
remaining times, capped at `Window`, so the clock runs for ever in a finite state
space. `HandlersLeak` admits handlers that end without resolving, `OperatorClears`
admits the two operator actions. `Tick` assumes that no verification takes a
whole `Window` (milliseconds against minutes, authlimit.go:238-239).

### Reconcile, ManifestWalk (`vault/manifest.go`)

`Reconcile` holds the pure part: the clock order, `candidateCompare`, the stable
sort (as insertion, `Place`), the pruning of dominated copies, winner, conflicts
and removals. `ManifestWalk` is the directory walk that feeds it, one manifest at
a time, so the run visits every list of up to three copies in every order.

### VaultSync (`vault/vault.go`, `cache.go`, `compact.go`) extends Reconcile

One virtual path and its conflict paths, on several devices. `disk[d]`, `server`
and `base[d]` are the files of a device, of the sync server and of the last
agreement; `cache[d]` and `maxGen[d]` the fields of `Vault`; `op[d]` the operation under
way. A put or a remove takes its snapshot of whatever index the device has (`BeginPut`, `BeginRemove`) and
commits in a later step, onto whatever the canonical file holds by then. A delivery changes the files only; the
index follows when `ReloadIndex` runs or `ReloadIfChanged` polls (`Reload`). Compaction is step by step: plan,
materialise each conflict, remove each source, remove the superseded files, end; with
`CompactFaults` each write or removal may fail and the process may stop. It holds `v.mu`, which keeps other
local operations out and not the sync client. The sync client (external) uploads, downloads, keeps an edit over a
deletion and makes conflict copies at any time, also between the steps of a write or a compaction.

Three variables are history. `sup` has the records that a write replaced or deleted after it was shown them; `blind` those that a
write or a compaction overran unseen, at the three steps `Unseen` and `RemoveFile` name; `left[d]` is
the disk as the compaction running on `d` knows it, so that `disk[d] = left[d]` says that only it touched the files.

What is left out: a device is one process that does one operation at a time, so two puts of one device, or a compaction during
a put of the same device, do not overlap. While a compaction runs, only its own device and its sync client act
(`Undisturbed`): they touch the files of that device and the server, and commute with what other devices do, except that a
manifest cannot travel to another device and an answer to it come back within one compaction.

### ConfigFreshness (`vault/configmac.go`, `anchor.go`, `rotation.go`, `seal.go`, open paths of `vault.go`)

`file[d]` is `vault.json`, `anchor[d]` the device's anchor, `proc[s]` the vault a process
holds open. `OpenVault` reads the config and the anchor and applies `checkConfigIntegrity` and `checkFreshness` (`Verdict`). The
anchor is a file without a lock: `clearAnchor`, the load (`LoadAnchor`) and the save (`SaveAnchor`) of
`recordAnchor` are steps of their own, on an open and after a rewrite, and the process may end (`Close`) between any
two. `rewriteConfig` publishes the config first. `Deliver` replaces the file by any config
ever written: a sync client or a backup. A tag is modelled by the values it covers,
a wrap by the password that opens it. `opened`, `changed`, `past` and `password` are history
for the properties; `overlapped` has the processes whose update of the anchor met another one's on the same device.

Left out: the MinReader/Version fences of older and newer readers, and an
app-data directory that cannot be written, which turns the gates off with a note.

### GarbageCollect (`vault/gc.go`, `storeChunk` of `vault.go`)

One chunk, two devices. `GCPhase1` cancels, reaps or writes the intent and notes it in
memory; `GCPhase2` saves the note, reads everything again and decides; the removal
of the chunk, of its intents and of the note are steps of their own, and
`GCCrash` may stop the run before each. A put is `Stat`, then `TouchChunk` or `WriteChunk`, then
`CommitPut`; the touch may fail, and its error is ignored (vault.go:958-960). The sync client brings chunk, intent and
manifests into agreement separately. Puts, removals and syncs come between any two steps: no lock covers a phase of
a collection. `missed` is history: a collection removed a chunk that was refreshed, written again or referred to after
the decision (`Overtaken`), or a put reused a chunk without refreshing it. Times are ages capped at `Fence`.
`FenceAssumption` states what the protocol relies on: a put and the delivery of its manifest together take
less than the fence (SECURITY.md names the device that is offline for longer as an accepted residual).

The refusal gate (it only stops a run) and the compaction that opens a run (see
VaultSync) are not in the module; phase 1 reads its index and acts in one step,
since what it writes on a stale index is an intent, which phase 2 examines again.

### DavTree (`localdav/server.go`, readers, imports and exports of `vault`)

The virtual tree of one open vault: `files` is the index, `disk` the chunk objects, `mu` and
`streams` the server's mutex and stream budget, `cached` and `presence` its caches, `req[c]` the
request of client `c` with everything the handler has copied so far. GET opens a snapshot, checks
presence, takes a stream slot and sends chunk by chunk, and a client resumes with Range and If-Range; COPY and
MOVE walk a snapshot of the tree, copying file by file and then removing the source;
imports commit file by file; restores write a temporary file and rename; exports
replace or skip what exists. A peer's edit and the loss and arrival of chunks come between any two
steps. `PerRequestServer` chooses between the stand-alone server, whose mutex all
requests share, and the GUI mount, which builds a `Server` for each request. `Mixes` bounds which
kinds of request meet in one behaviour. A commit of this process takes a generation above every one it has
issued or loaded; a peer's edit (`PeerPut`) comes with a generation of its own, newer, or, once both devices have seen a clock
that was ahead, one that this process knows already. Copies fail at any of their calls (`copyFails`).

`waived` and `twins` are history: the contents that a request or a peer asked to replace or remove (what a DELETE names, what a
PUT replaces, the destination of a COPY or MOVE, but never its own source), and the validators of peers' edits under
an old generation.

### WebSession (`webui/server.go`, sessions, login, reset, tickets)

`sess` is `authSessions`, `papers` the reset nonces and export tickets, `token` the CSRF token. A
request starts with `sessionOf` (the session is read under `s.mu` and a copy kept), then the
cookie refresh, the gate and the handler's own critical sections follow. The refresh looks the
session up again and writes one field of it; writing the copy back would revive a
session that has ended or undo a login. `born` and `used` are history.

### GuiLifecycle (`cmdGUI`, `webui` presence and timers, `bundlelaunch`)

`pc` follows an instance from binding the port over the lock file to serving and leaving; `second`
is a launch that could not bind and asks the first. `streams`, `quiet`, `timers` and `bundleT`
are the presence state; a timer that has decided to close (`closing`) and the closing of
`shutdownCh` are two steps, and so are the look of the bundle's grace timer (`BundleGraceFires`) and its shutdown after
the notification (`BundleGraceExit`). A removal of the lock file does not fail. Pages come, beat and go at any time; signals and crashes stop
an instance anywhere. Time is kept as capped ages.

### WebVault (`webui/server.go`, the open vault)

Every open makes a new handle with its own copy of `vault.json`; `req[s]` keeps the handle it read under
`s.mu`. Open, create, close, reset, move, redeem, prepare/commit/verify/revoke of recovery keys, `/dav/`
requests and import jobs are split where `s.mu` is released; `mu` is the request that holds it
across I/O. The recovery and password commands of the CLI run on the same folders. `era` names the
DAV token in force; `caches` remembers whose sweeps a presence cache holds.

### TLSServing (`tlsconfig`, `setup/tlswizard.go`, `tls` commands, settings page)

A file holds the number of the issuance that wrote it, so certificate and key match when
the numbers agree; the issuing tool and the self-signed generator write them in two steps. A starting listener,
the wizard and the settings page may each find the floor missing (`LookForFloor`) and write it, all at once if they are
different processes; `clash` remembers that two did.
`Resolve` is the precedence chain flags, config, legacy, floor. The listener validates and holds a pair;
`Reload` polls the two files and keeps the last good pair on any failure. The wizard, the `tls` commands and
the settings save all rewrite `appconfig.json`; the save reads it again before it writes
(`ui.form` is what the page was rendered from). Between these two a command may write the file, which `touched` remembers.

### VaultPlaces, VaultHome (`vaultmove`, `setup/execute.go`, `init`, `profile`, `remotes`)

A folder is absent, empty, foreign, or holds a vault, whole or half, with or without its
`vault.json`. Processes take one file-system call at a time, each of which may fail, and may
crash anywhere: move (checks, look at the destination, its removal, rename or copy into a temporary sibling,
publication, removal of the source, three store updates), setup by preset and by wizard (every step
of `Execute`, with its keychain, recovery card and registration), `init` in place, and the
profile and remote commands as load, change, save. Two spellings may name one folder: profiles
are compared by spelling, the file system by folder. `Alone` bounds the scheduling: moves
run one at a time, `init` alone, and the wizard not beside a move.

`VaultHome` is the abstract specification: each vault is complete in a set of folders, which
only grows by a copy, moves in one step, and loses its last member only where the user
agreed to clear it, or where a move had found the folder empty and was about to remove it when the vault arrived; two
vaults never share a folder. `VaultsKeepAHome` states that VaultPlaces
implements it, with the complete folders as `places`, the folders a prompt or a
`--replace` flag covers as `asked`, and those between the look and the removal of `prepareDestination` as `condemned`.

## 3. Runs

| run | question | instance | what holds |
|---|---|---|---|
| `auth` | can interleaved handlers exceed a threshold, or lift a lock? | 3 handlers, 1 peer, 1 account, thresholds 2, window 2, leaks | `AdmissionBound`, `LockEndsByTime` |
| `auth_clears` | do eviction and operator clears keep the books straight? | 2 handlers, 3 peers, 1 account, a map of one key | `TypeOK`, `NoPhantomReservation`, `MapBound` |
| `walk` | does reconciliation depend on order, drop or invert? | lists of <= 3 copies, 2 devices, clocks <= 2, all clocked or none | `OrderIndependent`, `NothingDropped`, `WinnerIsMaximal` |
| `sync` | is an edit lost, what does a compaction hide? | 2 devices, 3 writes, 3 manifest names of the path, content keys in every order, stale indexes, faults in compaction, the sync client beside it (1.1 million states, 3 1/2 minutes) | `TypeOK`, `NoLostEdit`, `CompactSettles`, `CompactEndsUnseen`, `CompactHidesNothing` |
| `config` | which passwords open, can an open go back? | 3 processes on 1 device, 2 config writes | `TypeOK`, `OnePassword`, `OpensAgree` |
| `gc` | is a chunk in use collected, does garbage stay? | 2 devices, 1 stored file and 1 new one, put on either device (they are alike), fence 2, lag 1, 1 crash (1.1 million states, 3 1/2 minutes) | `NoDanglingReference`, `GarbageGoes` |
| `tls` | is a mismatched or worse pair ever served, a renewal missed, an operator's setting lost? | 3 issuances, 1 clock step, 3 commands, 1 round of the wizard, no config yet or one with `gui.protocol` set to https by hand (2.2 million states) | `ServedPairMatches`, `FloorNeverRefused`, `NoLiveDowngrade`, `CLITLSKept`, `RenewalServed` |
| `session` | can a request in flight revive or clobber a session, or use a paper twice? | 2 requests at once, 5 in all, 2 sessions, 2 papers, clock to 2 (3.3 million states) | `GoneStaysGone`, `LoginSticks`, `PapersOnce` |
| `lifecycle` | does the server stop under a page, or never? | timeout 3, graces 2, 2 pages, 2 instances, 4 events (81,000 states) | `StaleLockOnlyAfterCrash`, `NoEarlyShutdown`, `AbandonedServerStops` |
| `webvault` | does a request act on the wrong vault? | 2 requests at once, 4 in all, 2 folders, 3 openings, 2 phrases, 1 token rotation, imports of 2 files (456,000 states) | `VerifiesItsTarget`, `DavTokenScope`, `PresenceOwn`, `ReadBackFirst`, `CancelStops`, `RequestsAnswered` |
| `places` | can a vault, a secret or a registration be lost half way? | 3 spellings of 2 folders, 2 names, 2 processes, 2 vaults, 2 commands, 1 crash (1.2 million states) | `SetupAllOrNothing`, `NoOrphanSecret`, `VaultsKeepAHome` |
| `dav` | does a reader see a mixture, does a COPY or MOVE lose a file? | 2 clients, 2 directories with 1 file name, files of <= 2 chunks, 1 stream, a cache of 1 chunk, 3 contents, 2 requests, 1 loss, 4 mixes (3.7 million states) | `NoStitchedFile`, `NothingVanishes` |

Why the bounds are enough. Three handlers against a threshold of two is the smallest instance
in which one handler is denied while two hold the last slots; evictions need
more peers than the map holds, which is `auth_clears` (and the proof). A cycle of the
comparison needs three copies, and three writes on two devices give an edit, a
concurrent edit and a third write that knows one or both. `MCVaultSync` starts from two states: device 1 has created
the path, which stands for every first write; or both devices have created it and the folder of device 2 is being set up
anew, from which a third write reaches the case that is hardest for a compaction, three files of the path of which
a loser supersedes one. Three processes are needed for an open that comes after two updates of the anchor that overlap,
and two config writes for two parallel changes. The fence of 2 is the smallest that admits a lag of 1 (the proof covers every
fence), and
with a fence equal to `MaxPut + MaxLag` the assumption fails. Three issuances give a
pair in use, a renewal and a floor; a validity of one instant makes every
certificate expire within the clock. Every hazard of the two web modules is between two
requests, a session or handle replaced and its replacement, hence two of each, with enough
requests to create, use, end and use again. A timeout longer than the grace, as in the code,
lets a grace timer fire while a heartbeat still counts. Two folders with a second spelling of
one of them give every collision of a move's source, destination and registration. Files of two
chunks, a cache of one and one stream slot are the smallest in which a mixture, an
eviction and a refused stream can happen.

`MCAuthLimit` uses symmetry in handlers and peers, `WebSession` in its slots and `MCDavTree` in its clients,
and `MCConfigFreshness` in its processes, for safety only. `MCVaultSync` hides
`maxGen`: while no wall clock runs ahead (`Ahead` is empty) no generation is taken
from it. `CHECK_DEADLOCK FALSE` stands where the operations of a behaviour are bounded
and everything may be settled.

Every property of a passing run has a mutant: a changed definition (a dropped reservation, a missing touch,
a wrap left behind, an order reversed, a copy used instead of a fresh read) under
which the same run finds it violated.

### Fairness

* `GarbageCollect!FairSpec` (`gc`): some device runs the collector again and again, the sync client
  delivers chunk and intent, and time passes, each weakly fair: nothing in the code holds them up. No fairness is
  assumed of crashes, puts or removals.
* `TLSServing!Spec` (`tls`): the poller goroutine of a running listener polls again; its ticker
  runs until the listener stops. Nothing is assumed of the tool, the operator or the clock.
* `GuiLifecycle!LifeSpec` (`lifecycle`): time passes, timers that are due fire and the steps of
  a process that is shutting down go on: the runtime's timers and one goroutine that waits for
  nothing else. Nothing is assumed of pages, signals, crashes or launches.
* `WebVault!WebSpec` (`webvault`): a request under way continues. It waits only for `s.mu`, whose
  holders are themselves requests under way, which is what `RequestsAnswered` tests.
* `AuthLimit!FairSpec`: time passes, and a handler that runs goes on running. No run uses
  it; see the first observation.

## 4. Observations

Where the code does less than a comment or a document says, the property of the run says exactly what is left: it names the steps that
break the promise (`blind`, `overlapped`, `missed`, `clash`, `touched`, `condemned`, `twins`, `CameLate`, `OwnSource`) and shows that nothing
else does. The observations below list these steps, and the places where a definition without a run states what a comment says and does not hold
(`LeakHeals`, `AnchorMonotone`, `DivergenceCaught`, `RemovalRetried`, `CompactKeepsIndex`).

1. **A leaked reservation does not heal on a key in use**: `LeakHeals` fails under `AuthLimit!FairSpec` with
   `HandlersLeak`. Each denied `Check` renews `lastSeen`, and only an untouched bucket drops its
   reservations (authlimit.go:237, against the comment at 24-28).
2. **Reconciliation depends on listing order when clocked and clockless copies meet**: `OrderIndependent` fails
   in `ManifestWalk` with `Mixed`. The comparison has cycles, so devices may elect
   different winners (manifest.go:303-307, 440).
3. **A commit may overrun an edit its index did not show** (`Unseen`). The snapshot is taken before the upload and may be
   old then (vault.go:876-896), and the commit writes the canonical file whatever it holds (cache.go:235). An edit delivered in
   between, or a losing edit that occupies the canonical file while the winner is in a copy, is replaced
   without becoming a conflict copy, against README.md:735 of the repository.
4. **A device's next write supersedes its own losing edit**, with no race at all. Device 1's edit loses to device 2's and is shown as a
   conflict copy; device 1 then writes on the winner. The new clock has the winner's entries and, for device 1,
   max(seen, wall clock) + 1 (cache.go:168-173), which exceeds the losing edit's own entry: the conflict copy is now dominated and
   pruned although the write did not replace it, against README.md:735. The comment at cache.go:135-140 gives the reason for not joining the
   clocks of conflict copies ("silently drop it on the next reconcile"); the device's own entry has that effect on its own copy. A
   compaction before the write, which gives the copy a manifest of its own, avoids it.
5. **A divergence of the config is not always caught**: `DivergenceCaught` fails with two devices. Two rewrites
   here and one there leave no tie, the higher epoch opens and the other change is gone (rotation.go:22-24).
6. **The collector may remove a chunk that a put has just reused** (`missed`). Decision and removal are two steps and no lock
   covers both (gc.go:359-372); the touch of a reuse may fail and its error is dropped (vault.go:958-960). A put in between,
   or one whose touch failed, commits a manifest whose chunk goes, although "the chunk is still unreferenced" is a condition of the removal (gc.go:90-91). The design
   document knows of a related case with a slow sync (design-conflict-materialise.md:88-89).
7. **A failed removal of a loser is not retried**: `RemovalRetried` of
   `VaultSync` fails when compaction can fault (two writes are enough). Once the conflict manifest is written, a load defers to
   it and leaves the loser out of the plan (manifest.go:168), against the comment at compact.go:83-85; the design document
   (design-conflict-materialise.md:13-15) says what the code does. The file stays, hidden.
8. **A compaction that stops half way may bring a superseded copy back**: `CompactKeepsIndex` fails with three files of
   the path. The losers are written and removed first (compact.go:86-102) and the superseded files last (106-118). A file that only a
   loser supersedes is undominated once that loser's file is gone, so until its own removal it is shown as a conflict copy, or a tombstone
   takes the path ("dropped cleanly rather than resurrected", manifest.go:347). A stop or a failed
   removal in between leaves it so. No edit is hidden by it (`CompactHidesNothing`), and a run without an error ends well (`CompactEndsUnseen`).
9. **A compaction removes by name** (compact.go:97-118): a manifest that the sync client put under that name after the plan goes with
   it. The comment at cache.go:226-233 excludes this for commits of the same process, by `v.mu`; for the sync client the design document
   leaves it out of scope (design-conflict-materialise.md:15-16).
10. **Two processes may lower the anchor**: `AnchorMonotone` fails. `recordAnchor` loads and saves without a lock (anchor.go:138-164); the save of a process
   that loaded earlier puts its lower epoch back over the other's, against the comment at anchor.go:126-127, and a config
   behind the other's opens again.

Readers and writers of the tree:

* The GUI mount builds a `Server` for each `/dav/` request (webui/server.go:4102), so the tree mutex
  serialises nothing there: with `PerRequestServer` two crossing MOVEs lose the file and `NothingVanishes` fails.
* The presence check before a download covers the size of the snapshot, which may be smaller than
  the version that is read (localdav/server.go:591, 615-620, "never under-checks"); the body then ends early,
  without wrong bytes. A copied record may likewise carry the snapshot's size with newer bytes.
* A COPY or MOVE onto a directory that contains its source removes the destination first, and the source with
  it (localdav/server.go:918-930); the copy then fails (`OwnSource`).
* What reaches the source of a MOVE after its listing, by a PUT or from a peer, is removed with the source and
  not copied (localdav/server.go:937-938; `CameLate`).
* The validator of a download is generation and size (localdav/server.go:1331-1342). A generation is above those its own process has
  seen (cache.go:108-117); after a clock that ran ahead two devices may issue the same one, and a download resumed over a peer's edit of the
  same size then joins two versions (`twins`).
* An export that replaces removes the old file before it renames the new one.
* `ReloadIfChanged` takes its baseline after the reload (cache.go:347): a delivery in between stays
  invisible until another change.

Certificates:

* A settings save rereads the config and writes it without a lock (webui/server.go:3903-3956): a `tls` command in between is undone,
  against the comment at 3856-3863 (`touched`). The save also drops `auth.limits`.
* A renewal written between the resolution and the recording of the modification times is taken for
  seen, and a candidate that is not yet valid is refused and not looked at again until the
  files change (tlswizard.go:929 says "within 30 seconds").
* The wizard run again keeps a self-signed pair that has expired (tlswizard.go:923). Two processes generating it at
  once may leave the certificate of one with the key of the other (appconfig.go:381-443); every later start is then refused, and
  nothing rewrites a pair of which both files exist (`clash`).

GUI process and open vault:

* A page that opens between a timer's decision and the closing of the channel, or while the bundle's notification is
  shown (main.go:2292-2298), is shut down on. An
  instance that leaves late, or a second launch that is refused, removes the lock of a newer
  instance (main.go:2494-2502, 2521).
* The refusal to revoke the last key checks and acts in two steps (webui/server.go:2466-2470). A pending recovery
  survives a create or a move; a commit clears whatever is pending, and two commits of one phrase
  write two entries. A handle that was opened earlier writes its own copy of `vault.json` back.
* Opening over an open vault keeps the DAV token; uploads and imports go on after a close; the
  reopening at the end of a move replaces a vault opened in the meantime.

Vault folders:

* A move looks whether its destination is empty and removes it in two steps (vaultmove.go:178-198): a setup that renames a finished vault
  into place in between (execute.go:233) loses it (`condemned`).
* Repeating a failed copying move with replacement, after the source was removed in part, clears the
  only complete copy (vaultmove.go:111-123, 173-199, 218-220). Two moves to one destination, or of one
  source, are not kept apart, nor is an edit of the source during a copy; `Alone` leaves these out.
* The wizard removes leftovers after its prompt without looking again
  (interactive_conflicts.go:64-75), and `init` checks for `vault.json` and writes it in two steps.
* `profiles.json` is written in place and by whoever writes last; a profile under another spelling of a moved
  folder keeps the old path; a preset run again reports nothing to do although a keychain or remote
  step had failed (main.go:421-469).

## 5. Proofs

`AuthLimit_proof` proves, for every policy that `Policy.normalize` can produce
(`PolicyAssumption`), every finite set of handlers and any peers and accounts
(`NameAssumption`):

* `TypeCorrect`: `Spec => []TypeOK`, with clears and leaks. The strengthening `TypeInv` adds
  what the program counter of an attempt says of the keys it holds; without it a
  resolution could lower a count below zero or touch a key twice.
* `AdmissionBounded`: without operator clears, `Spec => []AdmissionBound`. `AdmissionBound`
  alone is not inductive: a `Check` counts reservations, not attempts. `IInv` is `TypeInv` with
  `AllCovered` (every attempt that holds a key is counted in the bucket's reservations, and
  failures and reservations together stay within the threshold) and `SeenByHolders` (a bucket was
  touched since each holder began), which is why `refresh` never takes a live
  reservation for a leaked one and why eviction, which spares reserved buckets,
  cannot drop it. One lemma, `BucketStep`, reduces every action to the bucket it touches.
* `LocksEndByTime`: without operator clears, `Spec => LockEndsByTime`, from the same invariant
  with `LockInv` (a locked bucket has as many failures as its threshold): by `AllCovered`
  nobody holds a locked bucket, so no `Success` reaches it.

`ClearPeer` and `ClearAccount` are excluded from the last two on purpose: they drop reservations
of attempts in flight, so a key may briefly admit more than its threshold. The next two hold with
clears and need handlers that resolve what they reserve (`~HandlersLeak`: both users of the package
defer `Release`):

* `ReservationsAreHeld`: `Spec => []NoPhantomReservation`. `BackedInv` is the converse of `AllCovered`,
  with `Unused` (a key without a bucket counts nothing): a `Success` or `Release` of an evicted
  or cleared bucket returns nothing, so there must be nothing to return. An attempt's three keys are
  different buckets (`KeyAtInjective`), so each step changes the count and the holders of one key only.
* `MapIsBounded`: `Spec => []MapBound`, for finitely many surfaces and accounts (the bound counts
  them). If nothing can be evicted every bucket is reserved, because among finitely many buckets one is the oldest
  (`SomeOldest`, by the well-foundedness of strict inclusion on finite sets); reserved buckets are held
  (`ReservationsAreHeld`), and the handlers hold at most two buckets each and the ceilings (`HeldIsBounded`). A
  denied `Check` creates no bucket then: a fresh bucket always grants.

`ConfigFreshness_proof` proves, for any devices and processes (each at home on a device) and any
bound on the writes (`ConfigAssumption`):

* `ConfigTypeCorrect`: `Spec => []TypeOK`.
* `OnePasswordOpens`: `Spec => []OnePassword`. The property speaks of written configs; a
  rewrite starts from the config in memory, which came from a file anybody may have
  replaced. So the invariant adds `Known` (every config read or held was once written) and
  `AllSound` (each wrap is of the password set last, and there is one where the version
  looks for it), which every rewrite keeps (`RewrapFacts`, `SealFacts`, `UnsealFacts`, ...).
* `OpensNeverGoBack`: `Spec => OpensAgree`. The gate sees the anchor and not the past, so the
  invariant adds `Anchored`: the anchor, and what any process has loaded of it and may save back, is at or
  above every config recorded on its device without overlap, and has the tag of those opened at its own epoch;
  `Alone`: a process whose update met no other has loaded the anchor as it still is; and
  `Staged`: two updates at once are both marked. `RecordHolds` shows that
  `recordAnchor` keeps `Anchored`, and an accepted rollback starts it afresh.

`GarbageCollect_proof`, for any files, fence, lag, put time and number of crashes with
`FenceAssumption` (a put and the delivery of its manifest take less than the fence; `"chunk"` is no file
name, since the model keeps the two kinds of synced items apart by name):

* `NeededChunkStays`: `Spec => []NoDanglingReference`, for every interleaving of the steps of collections, puts, removals and the
  sync client. The property alone is not inductive: a device decides from its own manifests. `GCInv` relates the two devices through their
  last agreement: no copy is older than the common one, and one is missing only if that was past the fence (`NoOlderThanCommon`);
  the younger of two different copies is as young as their time out of sync (`YoungerIsNews`); a put about to
  commit has touched or written the chunk since it began (`PutIsFresh`); a manifest still on its way bounds the age
  of the chunk where it was put (`LagBoundsAge`), which is below the fence, so no collection takes that copy; and
  where the chunk of a kept file is gone, the other copy survives the next sync (`SurvivesSync`). The parts about copies hold
  until `missed`: a removal that is not overtaken finds the chunk as old as when it was decided. `AgesBounded` (`[]TypeOK`) is
  proved on the way.

`VaultPlaces_proof`, for any spellings, folders and processes with `PlacesAssumption` (resolving a
spelling twice changes nothing; at least one vault number, since the first vault is number 1):

* `VaultsAreNotLost`: `PlacesSpec => VaultsKeepAHome`, the refinement of VaultHome step by step: each file-system
  call of a move, a setup, an `init` or a removal is one VaultHome step or leaves the
  complete vaults alone; the look of `prepareDestination` condemns a folder in which no vault is, and its removal is an `Overrun` if one has come. `PlacesInv` says what each process relies on (`Claim`): the temporary folder of a move
  equals its source, the source stays until the copy is published, an unplaced vault's number is nowhere else,
  and what `init` builds in place is its own. `OthersClaims` shows that the other processes leave all of this alone,
  because moves run one at a time (`Exclusive`) and the others only take free folders.
* `NoHalfSetup`: `PlacesSpec => []SetupAllOrNothing`, with the same statement for the temporary folders
  (`PieceInv`), from which publication takes what it publishes.
* `SecretsHaveOwners`: `PlacesSpec => []NoOrphanSecret`; a process about to store a password has added the
  profile, one about to confirm a card has committed the key (`SecretInv`).

`WebVault_proof`, for any folders and request slots and all bounds:

* `VerifyChecksWhatItSays`: `WebSpec => []VerifiesItsTarget`; the active handle is of the folder `s.vaultPath` names,
  and a handle being adopted is of the folder its request names (`TargetInv`).
* `OldURLsAreDead`: `WebSpec => []DavTokenScope`; a handle is stamped with its era when it is adopted, and until
  then the request that adopts it is alone with it (`ScopeInv`).
* `SweepsStayHome`: `WebSpec => []PresenceOwn`; two `/dav/` requests that share a presence cache
  share its handle (`CacheInv`).
* `PhrasesAreReadBack`: `WebSpec => []ReadBackFirst`. Every write of `vault.json` writes back a handle's
  own copy of it, so the invariant covers these copies and the phrases of commits under way (`KeyInv`).
* `CancelIsHeard`: `WebSpec => []CancelStops`; a job that has put a file after its cancel is over or back at
  the walk, which asks before the next file (`LastPut`).

`GuiProcess_proof` holds the theorems about GuiLifecycle, TLSServing and WebSession, for any number of instances,
issuances, commands and request slots, and all lifetimes:

* `LockLeftByCrashOnly`: `LifeSpec => []StaleLockOnlyAfterCrash`, which is inductive.
* `NoShutdownUnderAPage`: `LifeSpec => NoEarlyShutdown`, assuming `Grace <= Timeout` (8 s at webui/server.go:610
  and 738, 10 s at main.go:2461 and server.go:535). The timers look at the stream count and at the last
  sign of life; `PresenceInv` says that the count is the number of open pages and that the last sign of
  life is no older than the last page.
* `ServesMatchingPair`, `FloorAlwaysStarts`, `ReloadNeverDowngrades`: `Spec => []ServedPairMatches`,
  `[]FloorNeverRefused`, `NoLiveDowngrade`. `FloorInv`: as long as no two processes generated the floor at once, whoever is between its two
  writes is alone, no key is there yet and the certificate is its own (`SoleMaker`); and a config that names the floor
  as the legacy pair was saved when both files were there.
* `SettingsKeepTLS`: `Spec => CLITLSKept`. As long as nobody wrote the config since the look of `handleAppConfig`, the handler's copy
  is the config itself where that has a tls section, and has none where it has none (`SettingsInv`).
* `GoneForever` and `LoginLasts`: `SessionSpec => GoneStaysGone` and `SessionSpec => LoginSticks`, from
  `SessInv` (only minted ids have a session). Each step takes sessions away, adds a newly minted one, or
  writes fields of one that is still there.
* `PapersHonouredOnce`: `SessionSpec => PapersOnce`; a paper still in the table is unused and was minted
  under the present token (`PaperInv`).

`DavTree_proof`, for any names in the two levels of the tree, any clients and any length of file, with
`TreeAssumption` (the directory marker's name is reserved, as `normalizeVirtualPath` and the handlers enforce; the
vault is opened on finitely many files):

* `TypeCorrect`: `DavSpec => [](TypeInv /\ VersionInv)`. A request carries a snapshot of the index
  from step to step, so `TypeInv` says of each kind of request what it may rely on: a COPY or MOVE keeps to the guards
  it was let in by (`Apart`), a restore works through names of its snapshot and has written chunks of one record only.
* `NeverStitched`: `DavSpec => []NoStitchedFile`. The property is about what clients have; what makes it true is the
  validator. `VersionInv` says that one content belongs to each generation, over everything that carries one: the index, the snapshots,
  the open readers and the clients' partial downloads, except where path and validator are those of a peer's edit under an old
  generation (`twins`). This process only issues generations above all it has seen.
* `NothingLost`: `DavSpec => NothingVanishes` when `~PerRequestServer`, that is, for the Server of
  `seavault webdav`, whose mutex DELETE, COPY and MOVE share. `MoveInv` says that what a MOVE has listed it has
  copied, is about to copy, or has had replaced by somebody (`Listed`), that its copies are outside its own source, and that when it comes to the removal
  all it listed is copied (`AllCopied`); and that only one request is between the two. With a Server per
  request (the mount of the GUI) two moves may cross (section 4).

`Manifest_proof` holds the theorems about ManifestWalk and VaultSync. For any devices, stamps, content keys and number of copies:

* `EveryEditKept`: `WalkSpec => []NothingDropped`, for copies with and without clocks.
* `WinnerFound`, `OneOutcome`: `WalkSpec => []WinnerIsMaximal` and `WalkSpec => []OrderIndependent` when `~Mixed`, that is, when
  all copies of a path have a clock or none has. With both kinds the comparison has cycles and TLC finds an order
  that changes the winner (section 4).

The state is a list and its invariant is simple (`WalkInv`: two copies are of one write or of two); the work is in
the operators. `FilterFacts` and `SortFacts` say what the filter loops and the stable sort return for a list of any length: the
same elements, each as often, and a maximum first whenever the comparison orders the elements. Both are recursive functions, and the induction
is over the prefixes of the list: the set of the prefixes for which the claim holds has no least exception
(`LeastOf`, `PrefixInduction`). `CompareOrders` shows that `candidateCompare` orders the copies of which none dominates
another, which is why the code prunes before it sorts; `MaximalDominator` that above a dominated copy there is
one that nothing dominates, so the pruning leaves somebody. `ReconcileFacts` then gives the verdict as sets, and
`OutcomeOfSet` that two lists of one set have one outcome: two possible winners are copies of one write.

About VaultSync, for any devices, records, copy names and settings of the environment (`VaultSyncAssumption`):

* `SyncTypeCorrect`: `Spec => []TypeOK`. `SyncInv` adds to the types that everything that stands for a record (a file, an
  entry of an index, the snapshot of a write, a planned conflict) is in the log already, that content keys are
  distinct, and that the log has room for every write under way (`Room`), without which a commit could overrun it.

The next three assume that every device has its id (`NoDeviceID` is empty: otherwise clocked and clockless copies meet). The sync client may
act at any time; the properties speak of compactions whose files only they touched (`disk[d] = left[d]`).
Interrupted runs, failed writes and failed removals are included, for any number of copies of the path.

* `CompactionSettles`: `Spec => []CompactSettles`.
* `CompactionUnseen`: `Spec => []CompactEndsUnseen`: a compaction that reports no error shows at its end the index it
  began with. Both rest on `CourseInv`. A compaction acts on a plan made earlier, so `OnCourse` says what the plan
  still stands for, in the files as the compaction knows them (`left`, which the sync client does not change): of the files that stay (`Kept`) one is
  elected and the others are losers whose conflict files exist; and these files
  together with the conflicts still to write are what the start showed. When nothing is left in the plan, the files that stay
  are all there are. `RecordsInv` (every record has a clock, and the body of a file tells its record) makes "redundant" mean "a tombstone or the same
  record", and `CopiesOrdered` makes the elected record unique.
* `CompactionHidesNothing`: `Spec => []CompactHidesNothing`, at every step. `ViewInv` follows each record that was shown at the start: it has its
  conflict file, or it is in one, or it stands undominated at the path in a file that the compaction will not remove before that conflict file is
  written. The shown record itself is never dominated by another copy, so a removal around it can only bring others back, not
  take it away.

`CopyIn`, `OnCourse` and `InView` take the log as an argument, so that a step that leaves the log alone carries them over.

The bounds of the runs (numbers of requests, crashes, writes) are constants of the specifications, so every
theorem above holds for all of their values.

Only model-checked:

* liveness (`GarbageGoes`, `RenewalServed`, `AbandonedServerStops`, `RequestsAnswered`): fairness is out of the prover's reach;
* `NoLostEdit` of VaultSync: it relates the files of all devices, of the server and of the sync clients' last agreements to the intentions
  behind every write; the invariant would have to say where the last copy of each edit is while it travels.

## 6. Plan and limits

Next, in this order:

1. A proof of `NoLostEdit`, from the lemmas of `Manifest_proof`.
2. `IndexReload`: the fingerprint, its baseline and the reload window of `ReloadIfChanged`, composed with
   the cache of VaultSync.
3. VaultSync with several processes on a device, with a clock that runs ahead and with devices without an id.
4. An abstract specification of the vault, a set of visible edits per path that only a
   user's own replacement shrinks, with VaultSync shown to implement it.

Not modelled:

* cryptography, chunking and word lists: data transformations without concurrent state;
* the wrappers of external programs (`rclonebin`, `rsyncbin`, transports) and of the operating system: what
  they do is decided outside; `rsyncingest` is not used by the program;
* command-line parsing, wording, HTML, log and status views, which keep no state;
* PROPFIND, HEAD, OPTIONS and LOCK, which change nothing (LOCK answers with a token it does not keep), and
  the dropping of operating-system junk files;
* the one-time migration of `EnsureContentLayout`, the first creation of the device id, the MinReader/Version
  fences, and the refusal gate of the collector.
