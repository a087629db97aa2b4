-------------------------------- MODULE VaultSync --------------------------------
(***************************************************************************)
(* One virtual path of a vault that several devices edit while a file-sync *)
(* client replicates the encrypted manifest files (internal/vault: put,    *)
(* remove, the index cache, compact; the sync client is external).         *)
(*                                                                         *)
(* A manifest record never changes once written, so the records are kept   *)
(* in `log' and a file holds the number of its record.  Path 0 is the path *)
(* the users edit; path i > 0 is conflictPath(path 0, record i), whose     *)
(* suffix is a hash of record i.  A file name is a pair <<path, copy>>:    *)
(* copy 0 is the canonical <id>.manifest, the others are the names a sync  *)
(* client gives to the versions it could not merge (of path 0; a conflict  *)
(* path is written once per record and needs none).                        *)
(***************************************************************************)
EXTENDS Reconcile

CONSTANTS
    MaxWrites,          \* puts and removes in a behaviour
    Copies,             \* sync-client copy names 1..Copies of a path
    Keys,               \* content-key ranks, at least MaxWrites of them
    NoDeviceID,         \* devices that could not load a device id
    Ahead,              \* devices whose wall clock runs ahead
    Lead,               \* by this much
    clockAgeCompactions,
    CompactFaults       \* may Compact be cut short, or a write or removal of it fail?

ASSUME VaultSyncAssumption ==
    /\ MaxWrites \in Nat /\ Copies \in Nat /\ Lead \in Nat
    /\ Keys \subseteq Nat
    /\ NoDeviceID \subseteq Devices /\ Ahead \subseteq Devices
    /\ clockAgeCompactions \in Nat \ {0}
    /\ CompactFaults \in BOOLEAN

VARIABLES
    log,     \* every record written, in order
    disk,    \* disk[d][name]: the file, or None
    server,  \* server[name]: what the sync server holds
    base,    \* base[d][name]: what d's sync client last saw in both places
    cache,   \* cache[d]: Vault.cached, an index or Nil
    maxGen,  \* maxGen[d]: Vault.maxGen
    op,      \* op[d]: the put, remove or compact under way on d
    left,    \* history: left[d] is d's disk as the compaction running there knows it
    sup,     \* history: the records replaced or deleted by a write that was shown them
    blind    \* history: those a write or a compaction replaced without having seen them

vars == <<log, disk, server, base, cache, maxGen, op, left, sup, blind>>
syncVars == <<server, base>>
history == <<left, sup, blind>>

Main == 0
Paths == 0 .. MaxWrites
Names(p) == IF p = Main THEN [c \in 1 .. Copies + 1 |-> <<p, c - 1>>] ELSE << <<p, 0>> >>
Name == UNION {SetOf(Names(p)) : p \in Paths}
None == 0
Files == [Name -> 0 .. MaxWrites]
NoFiles == [n \in Name |-> None]

\* An index: the record shown at each path, 0 for none.
Index == [Paths -> 0 .. MaxWrites]
Nil == <<>>

NoOp == [kind |-> "none"]

Live(i) == ~log[i].del

--------------------------------------------------------------------------------
(* loadManifestIndex: a pure function of the files.                        *)

Candidate(fs, n) ==
    LET r == log[fs[n]]
    IN  [src |-> n, id |-> fs[n], del |-> r.del, body |-> r.body, gen |-> r.gen,
         upd |-> r.upd, delGen |-> r.delGen, clock |-> r.clock, key |-> r.key]

\* byPath[p], in the order of the file names.
Group(fs, p) ==
    LET present == Filter(Names(p), {n \in SetOf(Names(p)) : fs[n] # None})
    IN  [i \in DOMAIN present |-> Candidate(fs, present[i])]

HasGroup(fs, p) == \E n \in SetOf(Names(p)) : fs[n] # None

\* reconcilePathCandidates for every path that has manifests.
Settled(fs) ==
    [p \in {q \in Paths : HasGroup(fs, q)} |-> reconcilePathCandidates(Group(fs, p))]

\* Mutant of Conflicts: a conflict path's own manifests are not deferred to.
ConflictsUnfiltered(settled) ==
    IF Main \in DOMAIN settled THEN settled[Main].conflicts ELSE <<>>

\* The losers of the path that are shown: not those whose conflict path has
\* manifests of its own, which are authoritative there.
Conflicts(settled) ==
    IF Main \in DOMAIN settled
    THEN LET losers == settled[Main].conflicts
         IN  Filter(losers, {c \in SetOf(losers) : c.id \notin DOMAIN settled})
    ELSE <<>>

\* The index: the winner of each path unless it is a tombstone, and the conflicts.
IndexOf(settled) ==
    [p \in Paths |->
        IF p \in DOMAIN settled
        THEN IF settled[p].winner.del THEN 0 ELSE settled[p].winner.id
        ELSE IF \E c \in SetOf(Conflicts(settled)) : c.id = p THEN p ELSE 0]

Load(fs) == IndexOf(Settled(fs))

Shown(fs) == SetOf(Load(fs)) \ {0}

Observed(fs) == {log[fs[n]].gen : n \in {m \in Name : fs[m] # None}}

MaxOf(S) == CHOOSE m \in S : \A n \in S : n <= m

\* cachedIndexLocked: load on first use, folding every generation into maxGen.
Cached(d, fresh) == IF cache[d] = Nil THEN fresh ELSE cache[d]

GenSeen(d) == IF cache[d] = Nil THEN MaxOf(Observed(disk[d]) \cup {maxGen[d]}) ELSE maxGen[d]

--------------------------------------------------------------------------------
(* The clock and the generation of a local write.                          *)

wallNano(d) == Len(log) + 1 + IF d \in Ahead THEN Lead ELSE 0

nextGeneration(d) == MaxOf({wallNano(d), maxGen[d] + 1})

\* The record the write supersedes: its clock and ages, nothing if there is none.
BaseClock(snap) == IF snap = 0 THEN NoClock ELSE log[snap].clock
BaseAge(snap) == IF snap = 0 THEN NoClock ELSE log[snap].age

\* advanceClock: join and bump this device's entry.
advanceClock(d, snap) ==
    IF d \in NoDeviceID THEN NoClock
    ELSE [BaseClock(snap) EXCEPT ![d] = MaxOf({@, wallNano(d)}) + 1]

\* nextRecordClock: advanceClock, then a foreign entry carried through
\* clockAgeCompactions local writes is dropped.
AgedOut(d, snap) ==
    {e \in Devices \ {d} : BaseClock(snap)[e] > 0 /\ BaseAge(snap)[e] + 1 >= clockAgeCompactions}

nextRecordClock(d, snap) ==
    [e \in Devices |-> IF e \in AgedOut(d, snap) THEN 0 ELSE advanceClock(d, snap)[e]]

nextClockAge(d, snap) ==
    [e \in Devices |->
        IF d \in NoDeviceID \/ e = d \/ BaseClock(snap)[e] = 0 \/ e \in AgedOut(d, snap)
        THEN 0 ELSE BaseAge(snap)[e] + 1]

PutRecord(d, snap, key) ==
    [path |-> Main, del |-> FALSE, body |-> Len(log) + 1, gen |-> nextGeneration(d),
     upd |-> wallNano(d), delGen |-> 0, clock |-> nextRecordClock(d, snap),
     age |-> nextClockAge(d, snap), key |-> key]

Tombstone(d, p, snap, key) ==
    [path |-> p, del |-> TRUE, body |-> 0, gen |-> nextGeneration(d), upd |-> wallNano(d),
     delGen |-> log[snap].gen, clock |-> advanceClock(d, snap), age |-> NoClock, key |-> key]

--------------------------------------------------------------------------------
Init ==
    /\ log = <<>>
    /\ disk = [d \in Devices |-> NoFiles]
    /\ server = NoFiles
    /\ base = [d \in Devices |-> NoFiles]
    /\ cache = [d \in Devices |-> Nil]
    /\ maxGen = [d \in Devices |-> 0]
    /\ op = [d \in Devices |-> NoOp]
    /\ left = [d \in Devices |-> NoFiles]
    /\ sup = {} /\ blind = {}

Writing == {d \in Devices : op[d].kind \in {"put", "remove"}}

\* A compaction works on the files of its own device, and so does the sync client
\* beside it: they commute with the steps of other devices (but for a round trip
\* through the server within one compaction) and run first.
Undisturbed(d) == \A e \in Devices \ {d} : op[e].kind # "compact"

\* PutReader / RemovePath take a snapshot of the index, whatever its age, and store
\* the chunks next: no lock is held until the commit.
BeginWrite(d, kind, p, fresh) ==
    /\ Undisturbed(d)
    /\ op[d] = NoOp
    /\ Len(log) + Cardinality(Writing) < MaxWrites
    /\ kind = "remove" => Cached(d, fresh)[p] # 0
    /\ cache' = [cache EXCEPT ![d] = Cached(d, fresh)]
    /\ maxGen' = [maxGen EXCEPT ![d] = GenSeen(d)]
    /\ op' = [op EXCEPT ![d] = [kind |-> kind, path |-> p, snap |-> Cached(d, fresh)[p]]]
    /\ UNCHANGED <<log, disk, syncVars, history>>

BeginPut(d) == BeginWrite(d, "put", Main, Load(disk[d]))

BeginRemove(d, p) == BeginWrite(d, "remove", p, Load(disk[d]))

\* The records that committing rec for o on d replaces although o's index did not
\* show them at the path: the one the canonical file holds by now, and those of the
\* path that rec's clock dominates (the device's own edits, wherever they went).
Unseen(d, o, rec) ==
    LET there     == disk[d][<<o.path, 0>>]
        dominated == {j \in DOMAIN log : log[j].path = o.path
                                           /\ clockDominates(rec.clock, log[j].clock)}
    IN  ({there} \cup dominated) \ (sup \cup {o.snap, None})

\* Mutant of CommitWrite: the manifest of the edited path is written, whatever the
\* path of the operation.
CommitWriteToMain(d, rec) ==
    LET o == op[d]
        i == Len(log) + 1
    IN  /\ log' = Append(log, rec)
        /\ disk' = [disk EXCEPT ![d][<<Main, 0>>] = i]
        /\ op' = [op EXCEPT ![d] = NoOp]
        /\ sup' = sup \cup ({o.snap} \ {None})
        /\ blind' = blind \cup Unseen(d, o, rec)
        /\ UNCHANGED <<cache, maxGen, syncVars, left>>

\* commitFileManifest / commitTombstone: stamp the record, write the canonical
\* file whatever it holds, then put the record (or its absence) into the cache.
CommitWrite(d, rec) ==
    LET o == op[d]
        i == Len(log) + 1
    IN  /\ log' = Append(log, rec)
        /\ disk' = [disk EXCEPT ![d][<<o.path, 0>>] = i]
        /\ cache' = [cache EXCEPT ![d] = IF @ = Nil THEN Nil
                                         ELSE [@ EXCEPT ![o.path] = IF rec.del THEN 0 ELSE i]]
        /\ maxGen' = [maxGen EXCEPT ![d] = rec.gen]
        /\ op' = [op EXCEPT ![d] = NoOp]
        /\ sup' = sup \cup ({o.snap} \ {None})
        /\ blind' = blind \cup Unseen(d, o, rec)
        /\ UNCHANGED <<syncVars, left>>

FreshKeys == Keys \ {log[i].key : i \in DOMAIN log}

CommitPut(d) ==
    /\ Undisturbed(d)
    /\ op[d].kind = "put"
    /\ \E key \in FreshKeys : CommitWrite(d, PutRecord(d, op[d].snap, key))

CommitRemove(d) ==
    /\ Undisturbed(d)
    /\ op[d].kind = "remove"
    /\ \E key \in FreshKeys : CommitWrite(d, Tombstone(d, op[d].path, op[d].snap, key))

\* An upload that ends in an error before anything is committed.
AbandonWrite(d) ==
    /\ Undisturbed(d)
    /\ d \in Writing
    /\ op' = [op EXCEPT ![d] = NoOp]
    /\ UNCHANGED <<log, disk, syncVars, cache, maxGen, history>>

\* ReloadIndex, by hand or once ReloadIfChanged polls, on a vault in use (without a
\* cache the next use loads anyway).  Until then a delivery is not in the index.
Reload(d) ==
    /\ Undisturbed(d)
    /\ op[d].kind # "compact" /\ cache[d] # Nil
    /\ cache' = [cache EXCEPT ![d] = Load(disk[d])]
    /\ maxGen' = [maxGen EXCEPT ![d] = MaxOf(Observed(disk[d]) \cup {@})]
    /\ UNCHANGED <<log, disk, syncVars, op, history>>

--------------------------------------------------------------------------------
(* Compact: the plan is computed, then applied file by file, under v.mu.   *)
(* The lock keeps other local operations out, not the sync client.         *)

Plan(settled) ==
    [kind      |-> "compact",
     conflicts |-> Conflicts(settled),
     loser     |-> {},      \* the file just materialised elsewhere, to be removed
     removes   |-> [p \in DOMAIN settled |-> settled[p].removes],
     changed   |-> FALSE,   \* CompactReport.Materialised
     errors    |-> FALSE,
     shown     |-> IndexOf(settled)]  \* history: what a load showed at the start

Applied(plan) ==
    /\ plan.conflicts = <<>> /\ plan.loser = {}
    /\ \A p \in DOMAIN plan.removes : plan.removes[p] = <<>>

\* A run with nothing to do changes nothing and is left out.
CompactBegin(d) ==
    /\ Undisturbed(d)
    /\ op[d] = NoOp
    /\ op' = [op EXCEPT ![d] = Plan(Settled(disk[d]))]
    /\ ~Applied(op'[d])
    /\ maxGen' = [maxGen EXCEPT ![d] = MaxOf(Observed(disk[d]) \cup {@})]
    /\ left' = [left EXCEPT ![d] = disk[d]]
    /\ UNCHANGED <<log, disk, syncVars, cache, sup, blind>>

\* Mutant of CompactMaterialise: the loser goes though its conflict manifest failed.
CompactMaterialiseDrops(d) ==
    /\ Undisturbed(d)
    /\ op[d].kind = "compact" /\ op[d].loser = {} /\ op[d].conflicts # <<>>
    /\ LET c    == Head(op[d].conflicts)
           rest == [op[d] EXCEPT !.conflicts = Tail(@), !.loser = {c.src}]
       IN  \/ /\ disk' = [disk EXCEPT ![d][<<c.id, 0>>] = c.id]
              /\ left' = [left EXCEPT ![d][<<c.id, 0>>] = c.id]
              /\ op' = [op EXCEPT ![d] = [rest EXCEPT !.changed = TRUE]]
           \/ /\ CompactFaults
              /\ op' = [op EXCEPT ![d] = [rest EXCEPT !.errors = TRUE]]
              /\ UNCHANGED <<disk, left>>
    /\ UNCHANGED <<log, syncVars, cache, maxGen, sup, blind>>

\* Write the conflict manifest of one loser; its source is to be removed next.  If
\* the write fails the loser stays and the run goes on.
CompactMaterialise(d) ==
    /\ Undisturbed(d)
    /\ op[d].kind = "compact" /\ op[d].loser = {} /\ op[d].conflicts # <<>>
    /\ LET c    == Head(op[d].conflicts)
           rest == [op[d] EXCEPT !.conflicts = Tail(@)]
       IN  \/ /\ disk' = [disk EXCEPT ![d][<<c.id, 0>>] = c.id]
              /\ left' = [left EXCEPT ![d][<<c.id, 0>>] = c.id]
              /\ op' = [op EXCEPT ![d] = [rest EXCEPT !.loser = {c.src}, !.changed = TRUE]]
           \/ /\ CompactFaults
              /\ op' = [op EXCEPT ![d] = [rest EXCEPT !.errors = TRUE]]
              /\ UNCHANGED <<disk, left>>
    /\ UNCHANGED <<log, syncVars, cache, maxGen, sup, blind>>

\* Mutant of RemoveFile: a canonical <id>.manifest is never removed.
RemoveFileButCanonical(d, n, rest) ==
    /\ disk' = [disk EXCEPT ![d][n] = IF n[2] = 0 THEN @ ELSE None]
    /\ left' = [left EXCEPT ![d][n] = IF n[2] = 0 THEN @ ELSE None]
    /\ op' = [op EXCEPT ![d] = rest]
    /\ UNCHANGED <<log, syncVars, cache, maxGen, sup, blind>>

\* The next file to go: the source of the loser just written, and, once every
\* conflict is written, the removal lists of the paths (in any order of paths).  It
\* goes by its name, whatever the sync client put there since the plan.
RemoveFile(d, n, rest) ==
    /\ \/ /\ disk' = [disk EXCEPT ![d][n] = None]
          /\ left' = [left EXCEPT ![d][n] = None]
          /\ blind' = blind \cup ({disk[d][n]} \ {left[d][n], None})
          /\ op' = [op EXCEPT ![d] = [rest EXCEPT !.changed = TRUE]]
       \/ /\ CompactFaults
          /\ op' = [op EXCEPT ![d] = [rest EXCEPT !.errors = TRUE]]
          /\ UNCHANGED <<disk, left, blind>>
    /\ UNCHANGED <<log, syncVars, cache, maxGen, sup>>

CompactRemoveLoser(d) ==
    /\ Undisturbed(d)
    /\ op[d].kind = "compact"
    /\ \E n \in op[d].loser : RemoveFile(d, n, [op[d] EXCEPT !.loser = {}])

CompactRemove(d, p) ==
    /\ Undisturbed(d)
    /\ op[d].kind = "compact" /\ op[d].loser = {} /\ op[d].conflicts = <<>>
    /\ p \in DOMAIN op[d].removes /\ op[d].removes[p] # <<>>
    /\ RemoveFile(d, Head(op[d].removes[p]).src, [op[d] EXCEPT !.removes[p] = Tail(@)])

CompactEnd(d) ==
    /\ Undisturbed(d)
    /\ op[d].kind = "compact" /\ Applied(op[d])
    /\ op' = [op EXCEPT ![d] = NoOp]
    /\ cache' = [cache EXCEPT ![d] = IF op[d].changed THEN Nil ELSE @]
    /\ left' = [left EXCEPT ![d] = NoFiles]
    /\ UNCHANGED <<log, disk, syncVars, maxGen, sup, blind>>

\* The process stops in the middle; the next one starts with no cache.
CompactCrash(d) ==
    /\ Undisturbed(d)
    /\ CompactFaults
    /\ op[d].kind = "compact"
    /\ op' = [op EXCEPT ![d] = NoOp]
    /\ cache' = [cache EXCEPT ![d] = Nil]
    /\ maxGen' = [maxGen EXCEPT ![d] = 0]
    /\ left' = [left EXCEPT ![d] = NoFiles]
    /\ UNCHANGED <<log, disk, syncVars, sup, blind>>

--------------------------------------------------------------------------------
(* The sync client (external): per file name, it carries a change made on  *)
(* one side to the other.  Changed on both sides, the local version moves  *)
(* to a copy name of its own; an edit wins over a deletion.                *)

Upload(d, n) ==
    /\ Undisturbed(d)
    /\ disk[d][n] # base[d][n] /\ server[n] = base[d][n]
    /\ server' = [server EXCEPT ![n] = disk[d][n]]
    /\ base' = [base EXCEPT ![d][n] = disk[d][n]]
    /\ UNCHANGED <<log, disk, cache, maxGen, op, history>>

Download(d, n) ==
    /\ Undisturbed(d)
    /\ server[n] # base[d][n]
    /\ disk[d][n] \in {base[d][n], server[n], None}
    /\ disk' = [disk EXCEPT ![d][n] = server[n]]
    /\ base' = [base EXCEPT ![d][n] = server[n]]
    /\ UNCHANGED <<log, server, cache, maxGen, op, history>>

KeepEdited(d, n) ==
    /\ Undisturbed(d)
    /\ server[n] = None /\ base[d][n] # None /\ disk[d][n] \notin {base[d][n], None}
    /\ base' = [base EXCEPT ![d][n] = None]
    /\ UNCHANGED <<log, disk, server, cache, maxGen, op, history>>

FreeName(d, m) == disk[d][m] = None /\ base[d][m] = None /\ server[m] = None

ConflictCopy(d, n, m) ==
    /\ Undisturbed(d)
    /\ server[n] \notin {base[d][n], None}
    /\ disk[d][n] \notin {base[d][n], server[n], None}
    /\ m[1] = n[1] /\ m[2] > 0
    /\ FreeName(d, m) /\ \A c \in 1 .. m[2] - 1 : ~FreeName(d, <<m[1], c>>)
    /\ disk' = [disk EXCEPT ![d][m] = disk[d][n], ![d][n] = server[n]]
    /\ base' = [base EXCEPT ![d][n] = server[n]]
    /\ UNCHANGED <<log, server, cache, maxGen, op, history>>

Sync ==
    \E d \in Devices, n \in Name :
        \/ Upload(d, n)
        \/ Download(d, n)
        \/ KeepEdited(d, n)
        \/ \E m \in Name : ConflictCopy(d, n, m)

\* seavault compact (and the first step of a collection).
cmdCompact(d) == CompactBegin(d)

Local(d) ==
    \/ BeginPut(d)
    \/ \E p \in Paths : BeginRemove(d, p)
    \/ CommitPut(d)
    \/ CommitRemove(d)
    \/ AbandonWrite(d)
    \/ Reload(d)
    \/ cmdCompact(d)
    \/ CompactMaterialise(d)
    \/ CompactRemoveLoser(d)
    \/ \E p \in Paths : CompactRemove(d, p)
    \/ CompactEnd(d)
    \/ CompactCrash(d)

Next ==
    \/ Sync
    \/ \E d \in Devices : Local(d)

Spec == Init /\ [][Next]_vars
--------------------------------------------------------------------------------
\* A manifest file holds a record of its path, or the loser its path is named after.
HoldOwnRecords(fs) ==
    \A n \in Name : fs[n] # None => fs[n] = n[1] \/ log[fs[n]].path = n[1]

TypeOK ==
    /\ Len(log) <= MaxWrites
    /\ \A i \in DOMAIN log : log[i].clock \in Clock /\ log[i].gen \in Nat /\ log[i].key \in Keys
    /\ disk \in [Devices -> Files] /\ \A d \in Devices : HoldOwnRecords(disk[d])
    /\ server \in Files /\ HoldOwnRecords(server)
    /\ base \in [Devices -> Files]
    /\ \A d \in Devices : cache[d] = Nil \/ cache[d] \in Index
    /\ maxGen \in [Devices -> Nat]
    /\ \A d \in Devices : op[d].kind \in {"none", "put", "remove", "compact"}
    /\ left \in [Devices -> Files]
    /\ sup \subseteq DOMAIN log /\ blind \subseteq DOMAIN log

\* "Multi-device concurrent edits are preserved as conflict copies" (README.md:735),
\* as far as the code keeps it: an edit is shown, as the file or as a conflict copy, on
\* some device or to any device that fetches the server's files, until a write that
\* was shown it at the path replaces or deletes it, or one of three steps overruns
\* it unseen (Unseen, RemoveFile): a commit onto a canonical file that holds another
\* record than its snapshot, a commit whose clock dominates it, a compaction that
\* removes a file delivered since its plan.  Nothing else loses an edit: no
\* reconciliation, ageing, delivery in any order, crash or failed step.
NoLostEdit ==
    LET shown == UNION {Shown(fs) : fs \in {server} \cup {disk[d] : d \in Devices}}
    IN  \A i \in DOMAIN log : Live(i) /\ i \notin sup \cup blind => i \in shown

\* "It is idempotent: a second run recomputes the plan from the now-settled disk state
\* and finds nothing to do" (compact.go:47-48), of a run that reports no error and
\* whose files nobody else touched, whatever faults earlier runs left behind.
CompactSettles ==
    \A d \in Devices :
        op[d].kind = "compact" /\ Applied(op[d]) /\ ~op[d].errors /\ disk[d] = left[d]
            => Applied(Plan(Settled(disk[d])))

\* "A loser-removal failure after a successful write still counts the conflict as
\* materialised ... and the next Compact retries the (idempotent) removal"
\* (compact.go:83-85): when a run ends with an error, the next plan has every loser
\* whose conflict manifest was written.  It does not hold: README, observation 7.
RemovalRetried ==
    \A d \in Devices :
        op[d].kind = "compact" /\ Applied(op[d]) /\ op[d].errors =>
            LET settled == Settled(disk[d])
                next    == Plan(settled)
            IN  Main \in DOMAIN settled =>
                    \A c \in SetOf(settled[Main].conflicts) :
                        disk[d][<<c.id, 0>>] = c.id =>
                            c \in SetOf(next.conflicts) \cup SetOf(next.removes[Main])

\* A compaction that reports no error, and whose files nobody else touched, ends with
\* the index it began with: each record is shown at the path it was shown at
\* (compact.go:61-120), with any number of files of the path and whatever runs that
\* were cut short left behind.
CompactEndsUnseen ==
    \A d \in Devices :
        op[d].kind = "compact" /\ Applied(op[d]) /\ ~op[d].errors /\ disk[d] = left[d]
            => Load(disk[d]) = op[d].shown

\* "On a write failure the loser is kept, so no edit is lost" (compact.go:82-83): at
\* every step of a compaction, so wherever it fails or the device stops, each edit
\* that was shown at its start is shown somewhere, or its conflict path has a
\* manifest of its own, which decides there.
CompactHidesNothing ==
    \A d \in Devices :
        op[d].kind = "compact" /\ disk[d] = left[d] =>
            \A i \in SetOf(op[d].shown) \ {0} : i \in Shown(disk[d]) \/ disk[d][<<i, 0>>] # None

\* A compaction is invisible at every step of it.  It does not hold with three files
\* of the path: one that only a loser supersedes comes back when that loser's file
\* is removed first (README, observation 8).
CompactKeepsIndex ==
    \A d \in Devices :
        op[d].kind = "compact" /\ disk[d] = left[d] => Load(disk[d]) = op[d].shown
================================================================================
