-------------------------------- MODULE DavTree --------------------------------
(* The virtual tree of one open vault as its readers and writers see it: the   *)
(* WebDAV handlers of internal/localdav (GET, PUT, DELETE, MKCOL, COPY, MOVE), *)
(* the random-access reader with its presence and chunk caches, and the        *)
(* imports, restores and exports of internal/vault.  A handler is a sequence   *)
(* of steps with the points between them where another request, or the sync    *)
(* client, can get in.                                                         *)
(* Abstractions: a path is a sequence of names below content/; a content is an *)
(* identity with a number of chunks, a chunk the pair of content and position; *)
(* a file's bytes are its chunks.  Requests the handlers refuse before they    *)
(* touch the vault, and PROPFIND, HEAD, LOCK and OPTIONS, change nothing and   *)
(* are left out.  All requests work on one index: an edit of a peer or of      *)
(* another process enters when the index is reloaded, in one step (stale       *)
(* indexes and manifest reconciliation are VaultSync and ManifestWalk).        *)
EXTENDS Naturals, FiniteSets, Sequences, SequencesExt, TLC

CONSTANTS
    None,           \* no record, no holder, no file
    Clients,        \* requests in flight (HTTP clients and vault callers)
    Names, Leaf,    \* the names of the top level, and the one below each
    InitialTrees,   \* the files, by path, the vault may hold at first
    MaxLen,         \* chunks of the longest file
    MaxStreams,     \* Server.MaxStreams
    CacheMax,       \* chunks the chunk cache holds
    PerRequestServer, \* TRUE for the GUI mount, which builds a Server per request
    Mixes,          \* bound: the kinds of request that one behaviour mixes
    MaxContents, MaxRequests, MaxLosses     \* bounds

ASSUME DavAssumption ==
    /\ MaxLen \in Nat \ {0} /\ MaxStreams \in Nat \ {0} /\ CacheMax \in Nat \ {0}
    /\ PerRequestServer \in BOOLEAN
    /\ MaxContents \in Nat /\ MaxRequests \in Nat /\ MaxLosses \in Nat
    /\ None \notin Clients

VARIABLES
    files,      \* the index: path -> record, or None
    generation, \* the last generation nextGeneration returned
    disk,       \* the chunk objects present
    cached,     \* the chunk cache
    presence,   \* the fresh entries of the presence cache
    mu,         \* who holds Server.mu
    streams,    \* who holds a streaming slot
    req,        \* the request each client is in
    got,        \* what each client has downloaded of a file so far
    out,        \* restored files, by the path they were restored from
    archive,    \* the exported ZIP
    contents, requests, losses, mix,  \* counters and choices for the bounds
    waived,     \* contents that a request or a peer asked to replace or remove
    twins       \* the paths and validators of peers' edits under an old generation

vars == <<files, generation, disk, cached, presence, mu, streams, req, got, out,
          archive, contents, requests, losses, mix, waived, twins>>
tree == <<files, generation, waived, twins>>
caches == <<cached, presence>>
outputs == <<out, archive>>
bounds == <<contents, requests, losses, mix>>

Idle == [pc |-> "idle"]
--------------------------------------------------------------------------------
(* Paths, records and chunks. *)

Marker == ".seavault-dir"
Paths == {<<n>> : n \in Names} \cup {<<n, Leaf>> : n \in Names}
MarkerOf(p) == Append(p, Marker)
Tree == Paths \cup {MarkerOf(<<n>>) : n \in Names}
IsMarker(p) == Last(p) = Marker

Empty == [id |-> 0, len |-> 0]
Chunks(k) == {<<k.id, i>> : i \in 1..k.len}

MarkerRecord == [gen |-> 0, content |-> Empty, size |-> 0]

Content == [id : Nat, len : 0..MaxLen]
Record == [gen : Nat, content : Content, size : Nat]

(* What a client has of a file: its validator and the chunks received. *)
PartMaps == UNION {[S -> Content] : S \in SUBSET (1..MaxLen)}
Downloads == [path : Paths, etag : Nat \X Nat \X Nat, parts : PartMaps]

(* The marker's name is reserved: no path a request may name contains it.  The *)
(* vault is opened on a finite number of files, and every record has one of    *)
(* the generations handed out so far.                                          *)
ASSUME TreeAssumption ==
    /\ None \notin Record /\ None \notin Downloads
    /\ Marker \notin Names \cup {Leaf}
    /\ IsFiniteSet(UNION {DOMAIN S : S \in InitialTrees})
    /\ \A S \in InitialTrees : /\ DOMAIN S \subseteq Paths
                               /\ \A p \in DOMAIN S : S[p] \in 1..Cardinality(DOMAIN S)

(* f with v at x, unless f has a value there. *)
Extend(f, x, v) == [y \in DOMAIN f \cup {x} |-> IF y \in DOMAIN f THEN f[y] ELSE v]

Beneath == [p \in Tree |-> {q \in Tree : IsStrictPrefix(p, q)}]

(* directoryExists: a marker, or anything below. *)
DirectoryExists(fs, p) == \E q \in Beneath[p] : fs[q] # None
IsFile(fs, p) == fs[p] # None /\ ~IsMarker(p)

(* The validator of a response: the generation and byte length of a record. *)
Etag(p, gen, size) == <<Len(p), gen, size>>
(* (fault: the validator of the snapshot taken before the reader was opened) *)
etagForSnapshot(r) == Etag(r.path, r.rec.gen, r.rec.size)
etagForReader(r) == Etag(r.path, r.reader.gen, r.reader.content.len)

Begin(c) == requests' = requests + 1 /\ UNCHANGED <<contents, losses, mix>>
Become(c, r) == req' = [req EXCEPT ![c] = r]

(* s.mu: one Server serialises DELETE, MKCOL, COPY and MOVE; the GUI mount's   *)
(* Servers each have their own.                                                *)
Lock(c) == IF PerRequestServer THEN UNCHANGED mu ELSE mu = None /\ mu' = c
Unlock(c) == mu' = IF mu = c THEN None ELSE mu
Answer(c) == Become(c, Idle) /\ Unlock(c)

(* commitFileManifest of a record with a new generation: nextGeneration is     *)
(* above every generation this process has issued or loaded.                   *)
Commit(p, k, size) ==
    /\ generation' = generation + 1
    /\ UNCHANGED twins
    /\ files' = [files EXCEPT ![p] = [gen |-> generation + 1, content |-> k, size |-> size]]

(* The content an index entry holds, when a step may take it away. *)
ContentAt(p) == IF IsFile(files, p) THEN {files[p].content} ELSE {}

(* The vault found at opening: files in some of the directories, with all of   *)
(* their chunks.                                                               *)
Found(S) == [p \in Tree |->
    IF p \in DOMAIN S THEN [gen |-> S[p], content |-> [id |-> S[p], len |-> MaxLen], size |-> MaxLen]
    ELSE IF IsMarker(p) THEN IF \E q \in DOMAIN S : Front(p) = Front(q) THEN MarkerRecord ELSE None
    ELSE None]

DavInit ==
    /\ \E S \in InitialTrees :
          /\ files = Found(S)
          /\ generation = Cardinality(DOMAIN S)
          /\ disk = UNION {Chunks(Found(S)[p].content) : p \in DOMAIN S}
    /\ cached = {} /\ presence = {} /\ waived = {} /\ twins = {}
    /\ mu = None /\ streams = {}
    /\ req = [c \in Clients |-> Idle]
    /\ got = [c \in Clients |-> None]
    /\ out = [p \in Paths |-> None]
    /\ archive = None
    /\ contents = Cardinality(UNION {DOMAIN S : S \in InitialTrees})
    /\ requests = 0 /\ losses = 0
    /\ mix \in Mixes
--------------------------------------------------------------------------------
(* PUT, and imports of local files and directories. *)

(* The upload begins: its body arrives while other requests run. *)
handlePut(c, p, n) ==
    /\ contents < MaxContents
    /\ requests' = requests + 1 /\ contents' = contents + 1
    /\ Become(c, [pc |-> "put", path |-> p, content |-> [id |-> contents + 1, len |-> n]])
    /\ UNCHANGED <<tree, disk, caches, mu, streams, got, outputs, losses, mix>>

(* The whole body was read: its chunks are stored, then the record. *)
PutReader(c) ==
    LET r == req[c] IN
    /\ r.pc = "put"
    /\ disk' = disk \cup Chunks(r.content)
    /\ Commit(r.path, r.content, r.content.len)
    /\ waived' = waived \cup ContentAt(r.path)
    /\ Become(c, Idle)
    /\ UNCHANGED <<caches, mu, streams, got, outputs, bounds>>

(* The body stalls past the inactivity deadline, or the client goes away:      *)
(* chunks may have been stored, no record is written.                          *)
deadlineReader(c) ==
    /\ req[c].pc = "put"
    /\ \E n \in 0..req[c].content.len :
          disk' = disk \cup {<<req[c].content.id, i>> : i \in 1..n}
    /\ Become(c, Idle)
    /\ UNCHANGED <<tree, caches, mu, streams, got, outputs, bounds>>

(* An import stores every file's chunks first and then commits the records one *)
(* by one.                                                                     *)
Import(c, written, n) ==
    LET k == [id |-> contents + 1, len |-> n] IN
    /\ contents < MaxContents
    /\ requests' = requests + 1 /\ contents' = contents + 1
    /\ written # {}
    /\ disk' = disk \cup Chunks(k)
    /\ Become(c, [pc |-> "import", todo |-> written, content |-> k])
    /\ UNCHANGED <<tree, caches, mu, streams, got, outputs, losses, mix>>

Below(p) == Beneath[p] \cap Paths
PutPathReport(c, p, n) == Import(c, {p}, n) \/ Import(c, Below(p), n)
PutDirectoryContents(c, p, n) == Import(c, Below(p), n)

(* seavault put: by rsync, through a staged copy of the source outside the     *)
(* vault that may fail, or directly; both end in PutPathReport.                *)
putViaRsync(c, p, n) == PutPathReport(c, p, n)
PutPath(c, p, n) == putViaRsync(c, p, n) \/ PutPathReport(c, p, n)
cmdPut(c, p, n) == PutPath(c, p, n)

commitFileManifest(c) ==
    LET r == req[c] IN
    /\ r.pc = "import"
    /\ \E p \in r.todo :
          /\ Commit(p, r.content, r.content.len)
          /\ waived' = waived \cup (ContentAt(p) \ {r.content})
          /\ Become(c, IF r.todo = {p} THEN Idle ELSE [r EXCEPT !.todo = @ \ {p}])
    /\ UNCHANGED <<disk, caches, mu, streams, got, outputs, bounds>>
--------------------------------------------------------------------------------
(* Removal: the targets are found in one snapshot, then tombstoned one by one. *)

RemoveTargets(p) ==
    IF files[p] # None THEN {p}
    ELSE {q \in Beneath[p] : files[q] # None}

RemovePath(c, p) ==
    /\ Begin(c)
    /\ RemoveTargets(p) # {}
    /\ Become(c, [pc |-> "remove", why |-> "delete", todo |-> RemoveTargets(p), then |-> Idle])
    /\ UNCHANGED <<tree, disk, caches, streams, got, outputs>>

(* A DELETE waits for s.mu; seavault remove and the web UI's remove do not. *)
handleDelete(c, p) == RemovePath(c, p) /\ Lock(c)
cmdRemove(c, p) == RemovePath(c, p) /\ UNCHANGED mu

(* What a removal takes away because the requester asked for it: what a DELETE *)
(* names, and the destination of a COPY or MOVE, but never a part of its own   *)
(* source.                                                                     *)
Consented(r, p) ==
    IF r.why = "delete" \/ (r.why = "cleared" /\ ~IsPrefix(r.then.src, p)) THEN ContentAt(p)
    ELSE {}

commitTombstone(c) ==
    LET r == req[c] IN
    /\ r.pc = "remove"
    /\ \E p \in r.todo :
          /\ files' = [files EXCEPT ![p] = None]
          /\ waived' = waived \cup Consented(r, p)
          /\ IF r.todo # {p} THEN Become(c, [r EXCEPT !.todo = @ \ {p}]) /\ UNCHANGED mu
             ELSE IF r.then = Idle THEN Answer(c)
             ELSE Become(c, r.then) /\ UNCHANGED mu
    /\ UNCHANGED <<generation, twins, disk, caches, streams, got, outputs, bounds>>

(* A tombstone cannot be written: the request fails with the rest in place. *)
RemoveFails(c) ==
    /\ req[c].pc = "remove"
    /\ Answer(c)
    /\ UNCHANGED <<tree, disk, caches, streams, got, outputs, bounds>>
--------------------------------------------------------------------------------
(* Directories. *)

EnsureDirectory(p) ==
    files' = IF MarkerOf(p) \in Tree /\ files[MarkerOf(p)] = None
             THEN [files EXCEPT ![MarkerOf(p)] = MarkerRecord] ELSE files

(* MKCOL directly under content/ (deeper ones also need their parent). *)
handleMkcol(c, p) ==
    /\ Begin(c)
    /\ PerRequestServer \/ mu = None
    /\ ~DirectoryExists(files, p)
    /\ EnsureDirectory(p)
    /\ UNCHANGED <<generation, twins, waived, disk, caches, mu, streams, req, got, outputs>>
--------------------------------------------------------------------------------
(* COPY and MOVE: under s.mu, but PUT, GET and PROPFIND do not take it. *)

DstOf(r, p) == r.dst \o SubSeq(p, Len(r.src) + 1, Len(p))

(* Refused requests change nothing: a MOVE into itself, a missing source, an   *)
(* existing destination with Overwrite F.  A file over a file is replaced in   *)
(* place by the copy; any other destination is removed first.  A COPY of a     *)
(* collection with Depth 0 makes the collection only.  The last guard bounds   *)
(* the depth of the tree.                                                      *)
handleCopyMove(c, src, dst, move, overwrite, depth0) ==
    LET srcFile == IsFile(files, src)
        srcDir == ~srcFile /\ DirectoryExists(files, src)
        dstFile == IsFile(files, dst)
        dstDir == DirectoryExists(files, dst)
        only == depth0 /\ srcDir
        clear == IF only THEN dstFile
                 ELSE (srcFile /\ dstDir) \/ (srcDir /\ (dstFile \/ dstDir))
        copy == [pc |-> IF only THEN "mkcol" ELSE "copyPath",
                 src |-> src, dst |-> dst, move |-> move] IN
    /\ Begin(c) /\ Lock(c)
    /\ ~(move /\ (IsPrefix(src, dst) \/ depth0))
    /\ srcFile \/ srcDir
    /\ ~overwrite => ~dstFile /\ ~dstDir
    /\ \A p \in Tree : IsPrefix(src, p) => dst \o SubSeq(p, Len(src) + 1, Len(p)) \in Tree
    /\ Become(c, IF clear THEN [pc |-> "remove", why |-> "cleared",
                                todo |-> RemoveTargets(dst), then |-> copy]
                 ELSE copy)
    /\ UNCHANGED <<tree, disk, caches, streams, got, outputs>>

copyCollection(c) ==
    /\ req[c].pc = "mkcol"
    /\ EnsureDirectory(req[c].dst)
    /\ Answer(c)
    /\ UNCHANGED <<generation, twins, waived, disk, caches, streams, got, outputs, bounds>>

(* copyPath takes its own snapshot of the tree. *)
copyPath(c) ==
    LET r == req[c]
        copying(S) == [pc |-> "copy", src |-> r.src, dst |-> r.dst, move |-> r.move,
                       snap |-> [p \in S |-> files[p]], todo |-> S, copied |-> {}] IN
    /\ r.pc = "copyPath"
    /\ \/ /\ IsFile(files, r.src)
          /\ Become(c, copying({r.src})) /\ UNCHANGED <<files, mu>>
       \/ /\ ~IsFile(files, r.src) /\ DirectoryExists(files, r.src)
          /\ EnsureDirectory(r.dst)
          /\ Become(c, copying({p \in Beneath[r.src] : files[p] # None}))
          /\ UNCHANGED mu
       \/ /\ ~IsFile(files, r.src) /\ ~DirectoryExists(files, r.src)
          /\ Answer(c) /\ UNCHANGED files
    /\ UNCHANGED <<generation, twins, waived, disk, caches, streams, got, outputs, bounds>>

(* The copy of one entry.  A marker is re-created; of a file, WriteFileTo      *)
(* reads what the index holds now, which fails when it is gone or a chunk is   *)
(* not there.                                                                  *)
copyMarker(c) ==
    LET r == req[c] IN
    /\ r.pc = "copy"
    /\ \E p \in r.todo :
          /\ IsMarker(p)
          /\ EnsureDirectory(Front(DstOf(r, p)))
          /\ Become(c, [r EXCEPT !.todo = @ \ {p}])
    /\ UNCHANGED <<generation, twins, waived, disk, caches, mu, streams, got, outputs, bounds>>

WriteFileTo(c) ==
    LET r == req[c] IN
    /\ r.pc = "copy"
    /\ \E p \in r.todo :
          /\ IsFile(files, p) /\ Chunks(files[p].content) \subseteq disk
          /\ Become(c, [pc |-> "copyFile", src |-> r.src, dst |-> r.dst, move |-> r.move,
                        snap |-> r.snap, todo |-> r.todo \ {p}, copied |-> r.copied,
                        path |-> p, content |-> files[p].content])
    /\ UNCHANGED <<tree, disk, caches, mu, streams, got, outputs, bounds>>

(* (fault: a file that cannot be copied is skipped, and the MOVE goes on) *)
copySkips(c) ==
    LET r == req[c] IN
    /\ r.pc = "copy"
    /\ \E p \in r.todo :
          /\ ~IsMarker(p) /\ (IsFile(files, p) => ~(Chunks(files[p].content) \subseteq disk))
          /\ Become(c, [r EXCEPT !.todo = @ \ {p}])
    /\ UNCHANGED <<tree, disk, caches, mu, streams, got, outputs, bounds>>

(* The source cannot be read, or EnsureDirectory or PutReader fails at the     *)
(* destination, after storing some of the chunks: the request ends there.      *)
copyFails(c) ==
    LET r == req[c] IN
    /\ \/ r.pc \in {"mkcol", "copyPath"} /\ UNCHANGED disk
       \/ r.pc = "copy" /\ r.todo # {} /\ UNCHANGED disk
       \/ /\ r.pc = "copyFile"
          /\ \E n \in 0..r.content.len :
                disk' = disk \cup {<<r.content.id, i>> : i \in 1..n}
    /\ Answer(c)
    /\ UNCHANGED <<tree, caches, streams, got, outputs, bounds>>

(* PutReader at the destination, under the size the snapshot recorded. *)
copyFile(c) ==
    LET r == req[c] IN
    /\ r.pc = "copyFile"
    /\ disk' = disk \cup Chunks(r.content)
    /\ Commit(DstOf(r, r.path), r.content, r.snap[r.path].size)
    /\ waived' = waived \cup (ContentAt(DstOf(r, r.path)) \ {r.content})
    /\ Become(c, [pc |-> "copy", src |-> r.src, dst |-> r.dst, move |-> r.move, snap |-> r.snap,
                  todo |-> r.todo, copied |-> r.copied \cup {<<r.path, r.content>>}])
    /\ UNCHANGED <<caches, mu, streams, got, outputs, bounds>>

(* Everything is copied: a MOVE removes its source, as it is now. *)
copyDone(c) ==
    LET r == req[c] IN
    /\ r.pc = "copy" /\ r.todo = {}
    /\ IF r.move /\ RemoveTargets(r.src) # {}
       THEN /\ Become(c, [pc |-> "remove", why |-> "moved", todo |-> RemoveTargets(r.src),
                          then |-> Idle, copied |-> r.copied, snap |-> r.snap])
            /\ UNCHANGED mu
       ELSE Answer(c)
    /\ UNCHANGED <<tree, disk, caches, streams, got, outputs, bounds>>
--------------------------------------------------------------------------------
(* GET: a snapshot of the record, a reader of its own, a slot, the body. *)

Fresh(r, pending) == [path |-> r.path, gen |-> r.rec.gen, pending |-> pending]
Store(r, pending) ==
    presence' = {e \in presence : ~(e.path = r.path /\ e.gen = r.rec.gen)} \cup {Fresh(r, pending)}

(* A whole file, one chunk of it, or, with If-Range, what is missing of a      *)
(* download this client began.                                                 *)
handleGet(c, p, want, resume) ==
    /\ Begin(c)
    /\ IsFile(files, p)
    /\ resume => got[c] # None /\ got[c].path = p /\ want = 1..MaxLen \ DOMAIN got[c].parts
    /\ want # {}
    /\ Become(c, [pc |-> "open", path |-> p, rec |-> files[p], want |-> want, resume |-> resume])
    /\ UNCHANGED <<tree, disk, caches, mu, streams, got, outputs>>

(* The bytes the presence check covers: the range asked for, or the whole file *)
(* when an If-Range or an unsatisfiable range makes the answer uncertain, both *)
(* measured against the snapshot's size.                                       *)
servedByteRange(r) ==
    LET whole == 1..r.rec.size IN
    IF r.resume \/ r.want \cap whole = {} THEN whole ELSE r.want \cap whole

(* openFileReader loads the index again; the verdict is looked up under the    *)
(* snapshot's generation.                                                      *)
openFileReader(c) ==
    LET r == req[c]
        open(pc) == Become(c, [pc |-> pc, path |-> r.path, rec |-> r.rec, want |-> r.want,
                               resume |-> r.resume, reader |-> files[r.path]]) IN
    /\ r.pc = "open"
    /\ \/ Fresh(r, TRUE) \in presence /\ Become(c, Idle)
       \/ Fresh(r, TRUE) \notin presence /\ ~IsFile(files, r.path) /\ Become(c, Idle)
       \/ Fresh(r, FALSE) \in presence /\ IsFile(files, r.path) /\ open("verify")
       \/ /\ {Fresh(r, TRUE), Fresh(r, FALSE)} \cap presence = {}
          /\ IsFile(files, r.path) /\ open("sweep")
    /\ UNCHANGED <<tree, disk, caches, mu, streams, got, outputs, bounds>>

OpenReaderAt(c) ==
    LET r == req[c]
        there == Chunks(r.reader.content) \subseteq disk IN
    /\ r.pc = "sweep"
    /\ Store(r, ~there)
    /\ Become(c, IF there THEN [r EXCEPT !.pc = "slot"] ELSE Idle)
    /\ UNCHANGED <<tree, disk, cached, mu, streams, got, outputs, bounds>>

VerifyChunkPresence(c) ==
    LET r == req[c]
        needed == {<<r.reader.content.id, i>> : i \in servedByteRange(r) \cap 1..r.reader.content.len}
        there == needed \subseteq (disk \cup cached) IN
    /\ r.pc = "verify"
    /\ IF there THEN Become(c, [r EXCEPT !.pc = "slot"]) /\ UNCHANGED presence
       ELSE Become(c, Idle) /\ Store(r, TRUE)
    /\ UNCHANGED <<tree, disk, cached, mu, streams, got, outputs, bounds>>

acquireStream == Cardinality(streams) < MaxStreams

(* http.ServeContent under a streaming slot: the range if it can be satisfied  *)
(* and an If-Range matches the response's validator, else the whole file.      *)
(* The client keeps a download it resumes, and starts over on a whole file.    *)
ServeContent(c) ==
    LET r == req[c]
        tag == etagForReader(r)
        all == 1..r.reader.content.len
        keeps == r.resume /\ got[c].etag = tag
        parts == IF r.resume /\ ~keeps THEN all ELSE r.want \cap all IN
    /\ r.pc = "slot"
    /\ acquireStream
    /\ IF parts = {} THEN Become(c, Idle) /\ UNCHANGED <<streams, got>>
       ELSE /\ Become(c, [r EXCEPT !.pc = "body", !.want = parts])
            /\ streams' = streams \cup {c}
            /\ got' = IF keeps THEN got
                      ELSE [got EXCEPT ![c] = [path |-> r.path, etag |-> tag, parts |-> <<>>]]
    /\ UNCHANGED <<tree, disk, caches, mu, outputs, bounds>>

Evict(S, ch) ==
    IF Cardinality(S \cup {ch}) <= CacheMax THEN {S \cup {ch}}
    ELSE {(S \ {old}) \cup {ch} : old \in S}

(* The next chunk of the body, from the cache or from disk. *)
chunkAtLocked(c) ==
    LET r == req[c]
        i == CHOOSE j \in r.want : \A k \in r.want : j <= k
        ch == <<r.reader.content.id, i>> IN
    /\ r.pc = "body"
    /\ \/ ch \in cached /\ UNCHANGED cached
       \/ ch \notin cached /\ ch \in disk /\ cached' \in Evict(cached, ch)
    /\ got' = [got EXCEPT ![c].parts = Extend(@, i, r.reader.content)]
    /\ IF r.want = {i} THEN Become(c, Idle) /\ streams' = streams \ {c}
       ELSE Become(c, [r EXCEPT !.want = @ \ {i}]) /\ UNCHANGED streams
    /\ UNCHANGED <<tree, disk, presence, mu, outputs, bounds>>

(* The body ends early: a chunk is gone, the client stalls or disconnects. *)
releaseStream(c) ==
    /\ req[c].pc \in {"slot", "body"}
    /\ streams' = streams \ {c}
    /\ Become(c, Idle)
    /\ UNCHANGED <<tree, disk, caches, mu, got, outputs, bounds>>

(* A verdict is fresh for presenceTTL. *)
presenceTTL ==
    /\ \E e \in presence : presence' = presence \ {e}
    /\ UNCHANGED <<tree, disk, cached, mu, streams, req, got, outputs, bounds>>
--------------------------------------------------------------------------------
(* Restores and exports: one snapshot of the index, each file written chunk by *)
(* chunk to a temporary name and then renamed.                                 *)

Matches(p) == IF IsFile(files, p) THEN {p} ELSE {q \in Below(p) : IsFile(files, q)}

Restoring(how, p, replace) ==
    [pc |-> "restore", how |-> how, snap |-> [q \in Matches(p) |-> files[q]],
     todo |-> Matches(p), replace |-> replace, built |-> <<>>]

GetPath(c, p) ==
    /\ Begin(c)
    /\ Matches(p) # {}
    /\ Become(c, Restoring("get", p, TRUE))
    /\ UNCHANGED <<tree, disk, caches, mu, streams, got, outputs>>

(* With the replace policy the old ZIP is removed before the new one is made. *)
ExportPath(c, p, zip, replace) ==
    /\ Begin(c)
    /\ Matches(p) # {}
    /\ zip /\ archive # None => replace
    /\ archive' = IF zip THEN None ELSE archive
    /\ Become(c, Restoring(IF zip THEN "zip" ELSE "export", p, replace))
    /\ UNCHANGED <<tree, disk, caches, mu, streams, got, out>>

cmdGet(c, p) == GetPath(c, p)
cmdExport(c, p, zip, replace) == ExportPath(c, p, zip, replace)

(* One file is taken up; an export that may not replace skips what exists. *)
checkOverwrite(c) ==
    LET r == req[c] IN
    /\ r.pc = "restore"
    /\ \E p \in r.todo :
          Become(c, IF r.how = "export" /\ ~r.replace /\ out[p] # None
                    THEN [r EXCEPT !.todo = @ \ {p}]
                    ELSE [pc |-> "file", how |-> r.how, snap |-> r.snap, todo |-> r.todo \ {p},
                          replace |-> r.replace, built |-> r.built, path |-> p, tmp |-> {}])
    /\ UNCHANGED <<tree, disk, caches, mu, streams, got, outputs, bounds>>

Unfinished(r) == Chunks(r.snap[r.path].content) \ r.tmp
AfterFile(r) == [pc |-> "restore", how |-> r.how, snap |-> r.snap, todo |-> r.todo,
                 replace |-> r.replace, built |-> r.built]

(* A chunk that is not there ends a restore and a ZIP; an export records the   *)
(* error and goes on with the next file.                                       *)
loadChunk(c) ==
    LET r == req[c] IN
    /\ r.pc = "file" /\ Unfinished(r) # {}
    /\ LET ch == CHOOSE x \in Unfinished(r) : \A y \in Unfinished(r) : x[2] <= y[2] IN
       Become(c, IF ch \in disk THEN [r EXCEPT !.tmp = @ \cup {ch}]
                 ELSE IF r.how = "export" THEN AfterFile(r) ELSE Idle)
    /\ UNCHANGED <<tree, disk, caches, mu, streams, got, outputs, bounds>>

(* The temporary file is complete: it is renamed into place, which can fail (an *)
(* export with the replace policy has removed the old file by then).            *)
restoreFile(c) ==
    LET r == req[c]
        file == [content |-> r.snap[r.path].content, parts |-> r.tmp] IN
    /\ r.pc = "file" /\ Unfinished(r) = {} /\ r.how # "zip"
    /\ \/ out' = [out EXCEPT ![r.path] = file] /\ Become(c, AfterFile(r))
       \/ /\ out' = IF r.how = "export" /\ r.replace THEN [out EXCEPT ![r.path] = None] ELSE out
          /\ Become(c, IF r.how = "export" THEN AfterFile(r) ELSE Idle)
    /\ UNCHANGED <<tree, disk, caches, mu, streams, got, archive, bounds>>

writeZip(c) ==
    LET r == req[c] IN
    /\ r.pc = "file" /\ Unfinished(r) = {} /\ r.how = "zip"
    /\ Become(c, [AfterFile(r) EXCEPT !.built =
                    Extend(@, r.path, [content |-> r.snap[r.path].content, parts |-> r.tmp])])
    /\ UNCHANGED <<tree, disk, caches, mu, streams, got, outputs, bounds>>

ExportDone(c) ==
    LET r == req[c] IN
    /\ r.pc = "restore" /\ r.todo = {}
    /\ archive' = IF r.how = "zip" THEN r.built ELSE archive
    /\ Become(c, Idle)
    /\ UNCHANGED <<tree, disk, caches, mu, streams, got, out, bounds>>
--------------------------------------------------------------------------------
(* The sync client (external): a chunk object vanishes or arrives, a peer's    *)
(* edit arrives before its chunks.                                             *)

ChunkGoes ==
    /\ losses < MaxLosses
    /\ \E ch \in disk : disk' = disk \ {ch}
    /\ losses' = losses + 1
    /\ UNCHANGED <<tree, caches, mu, streams, req, got, outputs, contents, requests, mix>>

Missing == UNION {Chunks(files[p].content) : p \in {q \in Tree : files[q] # None}} \ disk

ChunkArrives ==
    /\ \E ch \in Missing : disk' = disk \cup {ch}
    /\ UNCHANGED <<tree, caches, mu, streams, req, got, outputs, bounds>>

(* The peer's record wins with a generation of its own, at least that of the   *)
(* record it replaces: a newer one, or, when both devices had seen a clock that *)
(* was ahead, one that this process has seen or issued itself.                  *)
PeerPut(p, n) ==
    /\ IsFile(files, p)
    /\ contents < MaxContents
    /\ contents' = contents + 1
    /\ \E g \in files[p].gen..generation + 1 :
          /\ files' = [files EXCEPT ![p] = [gen |-> g, content |-> [id |-> contents + 1, len |-> n],
                                            size |-> n]]
          /\ IF g <= generation
             THEN twins' = twins \cup {<<p, Etag(p, g, n)>>} /\ UNCHANGED generation
             ELSE generation' = g /\ UNCHANGED twins
    /\ waived' = waived \cup ContentAt(p)
    /\ UNCHANGED <<disk, caches, mu, streams, req, got, outputs, requests, losses, mix>>
--------------------------------------------------------------------------------
Sync == ChunkGoes \/ ChunkArrives \/ \E p \in Paths, n \in 1..MaxLen : PeerPut(p, n)

Request(c) ==
    /\ req[c] = Idle /\ requests < MaxRequests
    /\ \E p \in Paths :
          \/ /\ "put" \in mix
             /\ \E n \in 1..MaxLen :
                   handlePut(c, p, n) \/ cmdPut(c, p, n) \/ PutDirectoryContents(c, p, n)
          \/ "delete" \in mix /\ (handleDelete(c, p) \/ cmdRemove(c, p))
          \/ "mkcol" \in mix /\ Len(p) = 1 /\ handleMkcol(c, p)
          \/ /\ "copy" \in mix
             /\ \E dst \in Paths, move, overwrite, depth0 \in BOOLEAN :
                   handleCopyMove(c, p, dst, move, overwrite, depth0)
          \/ /\ "get" \in mix
             /\ \E want \in {1..MaxLen} \cup {{i} : i \in 1..MaxLen}, resume \in BOOLEAN :
                   handleGet(c, p, want, resume)
          \/ /\ "restore" \in mix
             /\ cmdGet(c, p) \/ \E zip, replace \in BOOLEAN : cmdExport(c, p, zip, replace)

Step(c) ==
    \/ PutReader(c) \/ deadlineReader(c) \/ commitFileManifest(c)
    \/ commitTombstone(c) \/ RemoveFails(c)
    \/ copyCollection(c) \/ copyPath(c) \/ copyMarker(c) \/ WriteFileTo(c)
    \/ copyFails(c) \/ copyFile(c) \/ copyDone(c)
    \/ openFileReader(c) \/ OpenReaderAt(c) \/ VerifyChunkPresence(c)
    \/ ServeContent(c) \/ chunkAtLocked(c) \/ releaseStream(c)
    \/ checkOverwrite(c) \/ loadChunk(c) \/ restoreFile(c) \/ writeZip(c) \/ ExportDone(c)

DavNext == Sync \/ presenceTTL \/ \E c \in Clients : Request(c) \/ Step(c)

DavSpec == DavInit /\ [][DavNext]_vars
--------------------------------------------------------------------------------
(* Properties. *)

Whole(f) == f.parts = Chunks(f.content)

(* NoStitchedFile.  A download resumed with If-Range never joins bytes of two  *)
(* versions, whatever was written between the snapshot, the opening of the     *)
(* reader and the body (server.go:536-558), unless a peer's edit came to the   *)
(* path with the download's size and a generation this process knew already;   *)
(* and a restored file or a member of an exported ZIP is always one version,   *)
(* complete.                                                                   *)
NoStitchedFile ==
    /\ \A c \in Clients : got[c] # None =>
          \/ \A i, j \in DOMAIN got[c].parts : got[c].parts[i] = got[c].parts[j]
          \/ <<got[c].path, got[c].etag>> \in twins
    /\ \A p \in Paths : out[p] # None => Whole(out[p])
    /\ archive # None => \A p \in DOMAIN archive : Whole(archive[p])

Stored == {files[p].content : p \in {q \in Paths : IsFile(files, q)}}

(* The step of c that takes the content k from the path p. *)
Takes(c, p, k) ==
    /\ req[c].pc = "remove" /\ p \in req[c].todo
    /\ k \in ContentAt(p) /\ files'[p] = None

(* A MOVE finds in its source what its listing did not show and it did not copy. *)
CameLate(c, p, k) ==
    /\ Takes(c, p, k) /\ req[c].why = "moved"
    /\ <<p, k>> \notin req[c].copied
    /\ ~(p \in DOMAIN req[c].snap /\ req[c].snap[p].content = k)

(* A COPY or MOVE clears a destination that overlaps its source. *)
OwnSource(c, p, k) ==
    Takes(c, p, k) /\ req[c].why = "cleared" /\ IsPrefix(req[c].then.src, p)

(* NothingVanishes.  A content that was stored stays in the tree until a       *)
(* request or a peer replaces or removes it, in whatever order PUTs, other     *)
(* requests, missing chunks and failures fall between the steps of COPY and    *)
(* MOVE, which copy file by file and remove the source at the end              *)
(* (server.go:918-942).  Two kinds of content alone go unasked: what reached   *)
(* the source of a MOVE after its listing and was not copied, and the part of  *)
(* a source that lies under the destination the request overwrites.            *)
NothingVanishes ==
    [][\A k \in Stored \ (Stored' \cup waived') :
          \E c \in Clients, p \in Tree : CameLate(c, p, k) \/ OwnSource(c, p, k)]_vars
================================================================================
