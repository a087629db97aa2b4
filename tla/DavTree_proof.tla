----------------------------- MODULE DavTree_proof -----------------------------
(* Proofs about DavTree, for any tree, any number of clients and any length of *)
(* file: a download or a restored file is never stitched from two versions,    *)
(* and, under one mutex, COPY and MOVE lose no content.                        *)
EXTENDS DavTree, FiniteSetTheorems, NaturalsInduction, SequenceTheorems, TLAPS
--------------------------------------------------------------------------------
(* What a request carries from one step to the next.  Most of the argument is  *)
(* here: what holds of one request alone is not disturbed by the others.       *)

Snapshots == UNION {[S -> Record] : S \in SUBSET Tree}

(* A file on the local disk that is one version, complete. *)
WholeFiles == {[content |-> k, parts |-> Chunks(k)] : k \in Content}
Archives == UNION {[S -> WholeFiles] : S \in SUBSET Paths}

(* The guards of handleCopyMove on a source and a destination. *)
Fits(src, dst) ==
    \A p \in Tree : IsPrefix(src, p) => dst \o SubSeq(p, Len(src) + 1, Len(p)) \in Tree
Apart(r) == Fits(r.src, r.dst) /\ (r.move => ~IsPrefix(r.src, r.dst))
Area(src) == {p \in Tree : IsPrefix(src, p)}

Putting == [pc : {"put"}, path : Paths, content : Content]
Importing == [pc : {"import"}, todo : SUBSET Paths, content : Content]
Deleting == [pc : {"remove"}, why : {"delete"}, todo : SUBSET Tree, then : {Idle}]

MakingShape == [pc : {"mkcol", "copyPath"}, src : Paths, dst : Paths, move : BOOLEAN]
Making == {r \in MakingShape : Apart(r)}
Clearing == [pc : {"remove"}, why : {"cleared"}, todo : SUBSET Tree, then : Making]

CopyingShape == [pc : {"copy"}, src : Paths, dst : Paths, move : BOOLEAN, snap : Snapshots,
                 todo : SUBSET Tree, copied : SUBSET (Tree \X Content)]
Copying == {r \in CopyingShape : Apart(r) /\ r.todo \subseteq DOMAIN r.snap \cap Area(r.src)}

CopyingFileShape == [pc : {"copyFile"}, src : Paths, dst : Paths, move : BOOLEAN, snap : Snapshots,
                     todo : SUBSET Tree, copied : SUBSET (Tree \X Content),
                     path : Tree, content : Content]
CopyingFile == {r \in CopyingFileShape :
                  /\ Apart(r) /\ r.todo \subseteq DOMAIN r.snap \cap Area(r.src)
                  /\ r.path \in DOMAIN r.snap \cap Area(r.src) /\ ~IsMarker(r.path)}

Moving == [pc : {"remove"}, why : {"moved"}, todo : SUBSET Tree, then : {Idle},
           copied : SUBSET (Tree \X Content), snap : Snapshots]

Opening == [pc : {"open"}, path : Paths, rec : Record, want : SUBSET (1..MaxLen), resume : BOOLEAN]
ReadingShape == [pc : {"sweep", "verify", "slot", "body"}, path : Paths, rec : Record,
                 want : SUBSET (1..MaxLen), resume : BOOLEAN, reader : Record]
Reading == {r \in ReadingShape : r.pc = "body" => r.want # {}}

RestoringShape == [pc : {"restore"}, how : {"get", "zip", "export"}, snap : Snapshots,
                   todo : SUBSET Paths, replace : BOOLEAN, built : Archives]
RestoringSet == {r \in RestoringShape : r.todo \subseteq DOMAIN r.snap}
WritingShape == [pc : {"file"}, how : {"get", "zip", "export"}, snap : Snapshots,
                 todo : SUBSET Paths, replace : BOOLEAN, built : Archives,
                 path : Paths, tmp : SUBSET (Nat \X Nat)]
Writing == {r \in WritingShape :
              /\ r.todo \subseteq DOMAIN r.snap /\ r.path \in DOMAIN r.snap
              /\ r.tmp \subseteq Chunks(r.snap[r.path].content)}

(* Requests that read a file, that run under the mutex for COPY and MOVE, and  *)
(* the others.                                                                 *)
Readers == Opening \cup Reading
Exclusive == Making \cup Clearing \cup Copying \cup CopyingFile \cup Moving
Calm == {Idle} \cup Putting \cup Importing \cup Deleting \cup RestoringSet \cup Writing

Requests == Calm \cup Exclusive \cup Readers

TypeInv ==
    /\ generation \in Nat /\ contents \in Nat
    /\ files \in [Tree -> Record \cup {None}]
    /\ req \in [Clients -> Requests]
    /\ got \in [Clients -> Downloads \cup {None}]
    /\ out \in [Paths -> WholeFiles \cup {None}]
    /\ archive \in Archives \cup {None}
--------------------------------------------------------------------------------
(* Every record that is stored, read or downloaded is a version: the content   *)
(* that was committed under its generation, v[generation], or a peer's edit    *)
(* under a generation that was known, whose validator is among the twins.      *)

Twin(p, g, k) == <<p, Etag(p, g, k.len)>> \in twins
FileVersion(v, p, f) ==
    f # None => f.gen <= generation /\ (v[f.gen] = f.content \/ Twin(p, f.gen, f.content))
ReaderVersion(v, r) ==
    r \in Reading => /\ r.reader.gen <= generation
                     /\ \/ v[r.reader.gen] = r.reader.content
                        \/ <<r.path, etagForReader(r)>> \in twins
DownloadVersion(v, g) ==
    g \in Downloads => /\ g.etag[2] <= generation
                       /\ \/ <<g.path, g.etag>> \in twins
                          \/ \A i \in DOMAIN g.parts : g.parts[i] = v[g.etag[2]]

(* A client that resumes has something to resume, of the path it names; the    *)
(* body it receives is that of the version its download is labelled with.      *)
Labelled(r, g) ==
    /\ r \in Readers /\ r.resume => g \in Downloads /\ g.path = r.path
    /\ r \in Reading /\ r.pc = "body" =>
          g \in Downloads /\ g.path = r.path /\ g.etag = etagForReader(r)

Versions == {v \in [Nat -> Content] : v[0] = Empty}
Versioned(v) ==
    /\ \A p \in Tree : FileVersion(v, p, files[p])
    /\ \A c \in Clients : ReaderVersion(v, req[c]) /\ DownloadVersion(v, got[c])

VersionInv ==
    /\ \E v \in Versions : Versioned(v)
    /\ \A c \in Clients : Labelled(req[c], got[c])
--------------------------------------------------------------------------------
(* COPY and MOVE run one at a time: whoever copies or removes for a MOVE holds *)
(* the mutex.                                                                  *)
MutexInv == \A c \in Clients : req[c] \in Exclusive => mu = c

(* What a MOVE has copied is in the tree where its removal of the source will  *)
(* not reach, unless someone asked to replace or remove the copy since.        *)
Holds(q, k) == IsFile(files, q) /\ files[q].content = k
Carried(copied, away) ==
    \A pk \in copied : pk[2] \in waived \/ \E q \in Paths \ away : Holds(q, pk[2])

(* Whatever a MOVE has listed it has copied, or it is still to do and in its   *)
(* place, unless someone asked to replace or remove it since.                  *)
Accounted(r, p) ==
    r.snap[p].content \in waived \/ <<p, r.snap[p].content>> \in r.copied
Awaits(r, p) == p \in r.todo /\ Holds(p, r.snap[p].content)
InHand(r, p) == r \in CopyingFile /\ p = r.path /\ r.content = r.snap[p].content
Listed(r) ==
    \A p \in DOMAIN r.snap \cap Paths : Accounted(r, p) \/ Awaits(r, p) \/ InHand(r, p)
AllCopied(r) == \A p \in DOMAIN r.snap \cap Paths : Accounted(r, p)

CarriedBy(r) ==
    /\ r \in Copying \cup CopyingFile /\ r.move => Carried(r.copied, Area(r.src)) /\ Listed(r)
    /\ r \in Moving => Carried(r.copied, r.todo) /\ AllCopied(r)
CarryInv == \A c \in Clients : CarriedBy(req[c])
--------------------------------------------------------------------------------
(* Helpers. *)

LEMMA LeastElement ==
    ASSUME NEW S, S \subseteq Nat, S # {}
    PROVE  \E j \in S : \A k \in S : j <= k
<1>1. IsWellFoundedOn(OpToRel(<, Nat), Nat)
  BY NatLessThanWellFounded
<1>2. PICK j \in S : \A k \in S : ~(<<k, j>> \in OpToRel(<, Nat))
  BY <1>1, WFMin, Zenon
<1>3. \A k \in S : ~(k < j)
  BY <1>2 DEF OpToRel
<1>4. \A k \in S : j \in Nat /\ k \in Nat
  OBVIOUS
<1>5. \A k \in S : j <= k
  BY <1>3, <1>4
<1> QED
  BY <1>5

(* Which set a request is in shows in its pc. *)
LEMMA RequestKinds ==
    ASSUME NEW r \in Requests
    PROVE  /\ r.pc = "put" => r \in Putting
           /\ r.pc = "import" => r \in Importing
           /\ r.pc \in {"mkcol", "copyPath"} => r \in Making
           /\ r.pc = "remove" => r \in Deleting \cup Clearing \cup Moving
           /\ r.pc = "copy" => r \in Copying
           /\ r.pc = "copyFile" => r \in CopyingFile
           /\ r.pc = "open" => r \in Opening
           /\ r.pc \in {"sweep", "verify", "slot", "body"} => r \in Reading
           /\ r.pc = "restore" => r \in RestoringSet
           /\ r.pc = "file" => r \in Writing
<1>1. r \in Requests
  OBVIOUS
<1>2. /\ Making \subseteq MakingShape /\ Copying \subseteq CopyingShape
      /\ CopyingFile \subseteq CopyingFileShape /\ Reading \subseteq ReadingShape
      /\ RestoringSet \subseteq RestoringShape /\ Writing \subseteq WritingShape
  BY DEF Making, Copying, CopyingFile, Reading, RestoringSet, Writing
<1>3. /\ r = Idle => r.pc = "idle"
      /\ r \in Putting => r.pc = "put"
      /\ r \in Importing => r.pc = "import"
      /\ r \in Deleting \cup Clearing \cup Moving => r.pc = "remove"
      /\ r \in Making => r.pc \in {"mkcol", "copyPath"}
      /\ r \in Copying => r.pc = "copy"
      /\ r \in CopyingFile => r.pc = "copyFile"
      /\ r \in Opening => r.pc = "open"
      /\ r \in Reading => r.pc \in {"sweep", "verify", "slot", "body"}
      /\ r \in RestoringSet => r.pc = "restore"
      /\ r \in Writing => r.pc = "file"
  BY <1>2 DEF Idle, Putting, Importing, Deleting, Clearing, Moving, MakingShape, CopyingShape,
     CopyingFileShape, Opening, ReadingShape, RestoringShape, WritingShape
<1> QED
  BY <1>1, <1>3 DEF Requests, Calm, Exclusive, Readers

(* The three sorts of requests exclude one another. *)
LEMMA SortsDisjoint ==
    ASSUME NEW r
    PROVE  /\ r \in Calm => r \notin Exclusive /\ r \notin Readers
           /\ r \in Exclusive => r \notin Readers
<1>1. /\ Making \subseteq MakingShape /\ Copying \subseteq CopyingShape
      /\ CopyingFile \subseteq CopyingFileShape /\ Reading \subseteq ReadingShape
      /\ RestoringSet \subseteq RestoringShape /\ Writing \subseteq WritingShape
  BY DEF Making, Copying, CopyingFile, Reading, RestoringSet, Writing
<1>2. r \in Readers => r.pc \in {"open", "sweep", "verify", "slot", "body"}
  BY <1>1 DEF Readers, Opening, ReadingShape
<1>3. r \in Calm => \/ r.pc \in {"idle", "put", "import", "restore", "file"}
                    \/ r.pc = "remove" /\ r.why = "delete"
  BY <1>1 DEF Calm, Idle, Putting, Importing, Deleting, RestoringShape, WritingShape
<1>4. r \in Exclusive => \/ r.pc \in {"mkcol", "copyPath", "copy", "copyFile"}
                         \/ r.pc = "remove" /\ r.why \in {"cleared", "moved"}
  BY <1>1 DEF Exclusive, MakingShape, Clearing, CopyingShape, CopyingFileShape, Moving
<1> QED
  BY <1>2, <1>3, <1>4

LEMMA SnapshotFacts ==
    ASSUME NEW s \in Snapshots
    PROVE  DOMAIN s \subseteq Tree /\ \A p \in DOMAIN s : s[p] \in Record
BY DEF Snapshots

LEMMA MakeSnapshot ==
    ASSUME TypeInv, NEW S, S \subseteq Tree, \A p \in S : files[p] # None
    PROVE  [p \in S |-> files[p]] \in Snapshots
<1>1. \A p \in S : files[p] \in Record
  BY DEF TypeInv
<1> QED
  BY <1>1 DEF Snapshots

LEMMA PathsInTree == Paths \subseteq Tree
BY DEF Tree

LEMMA BeneathFacts ==
    ASSUME NEW p \in Tree
    PROVE  /\ Beneath[p] \subseteq Tree
           /\ \A q \in Beneath[p] : IsPrefix(p, q)
           /\ Below(p) \subseteq Paths
BY DEF Beneath, Below, IsStrictPrefix

(* A step that gives a client another request. *)
LEMMA BecomeTyped ==
    ASSUME TypeInv, NEW c \in Clients, NEW u \in Requests, Become(c, u)
    PROVE  /\ req' \in [Clients -> Requests]
           /\ req'[c] = u
           /\ \A d \in Clients : d # c => req'[d] = req[d]
BY DEF TypeInv, Become

LEMMA IdleIsARequest == Idle \in Requests /\ Idle \in Calm
BY DEF Requests, Calm

LEMMA CommitTyped ==
    ASSUME TypeInv, NEW p, NEW k \in Content, NEW size \in Nat, Commit(p, k, size)
    PROVE  generation' \in Nat /\ files' \in [Tree -> Record \cup {None}]
<1>1. [gen |-> generation + 1, content |-> k, size |-> size] \in Record
  BY DEF TypeInv, Record
<1>2. generation \in Nat /\ files \in [Tree -> Record \cup {None}]
  BY DEF TypeInv
<1>3. generation' \in Nat
  BY <1>2 DEF Commit
<1> QED
  BY <1>1, <1>2, <1>3 DEF Commit

LEMMA EnsureTyped ==
    ASSUME TypeInv, NEW p, EnsureDirectory(p)
    PROVE  files' \in [Tree -> Record \cup {None}]
<1>1. MarkerRecord \in Record
  BY DavAssumption DEF MarkerRecord, Record, Content, Empty
<1> QED
  BY <1>1 DEF TypeInv, EnsureDirectory

LEMMA KindsAreRequests ==
    /\ Putting \subseteq Requests /\ Importing \subseteq Requests /\ Deleting \subseteq Requests
    /\ Making \subseteq Requests /\ Clearing \subseteq Requests /\ Copying \subseteq Requests
    /\ CopyingFile \subseteq Requests /\ Moving \subseteq Requests /\ Opening \subseteq Requests
    /\ Reading \subseteq Requests /\ RestoringSet \subseteq Requests /\ Writing \subseteq Requests
    /\ Calm \subseteq Requests /\ Putting \subseteq Calm /\ Importing \subseteq Calm
    /\ Deleting \subseteq Calm /\ RestoringSet \subseteq Calm /\ Writing \subseteq Calm
BY DEF Requests, Calm, Exclusive, Readers
--------------------------------------------------------------------------------
(* Every action keeps the shape of the requests and of the state. *)

LEMMA handlePutTyped ==
    ASSUME TypeInv, NEW c \in Clients, NEW p \in Paths, NEW n \in 1..MaxLen, handlePut(c, p, n)
    PROVE  TypeInv' /\ req'[c] \in Calm
<1> DEFINE u == [pc |-> "put", path |-> p, content |-> [id |-> contents + 1, len |-> n]]
<1>1. u \in Calm
  BY DavAssumption, KindsAreRequests DEF Putting, Content, TypeInv
<1>2. Become(c, u) /\ contents' = contents + 1 /\ UNCHANGED <<files, generation, twins, got, out, archive>>
  BY DEF handlePut, tree, outputs
<1> HIDE DEF u
<1>3. req' \in [Clients -> Requests] /\ req'[c] \in Calm
  BY <1>1, <1>2, KindsAreRequests, BecomeTyped
<1> QED
  BY <1>2, <1>3 DEF TypeInv

LEMMA PutReaderTyped ==
    ASSUME TypeInv, NEW c \in Clients, PutReader(c)
    PROVE  /\ TypeInv' /\ req'[c] \in Calm
           /\ req[c].content \in Content /\ req[c].content.len \in Nat
<1>1. req[c] \in Putting
  BY RequestKinds DEF PutReader, TypeInv
<1>2. Become(c, Idle) /\ Commit(req[c].path, req[c].content, req[c].content.len)
  BY DEF PutReader
<1>3. req[c].content \in Content /\ req[c].content.len \in Nat
  BY <1>1 DEF Putting, Content
<1>4. generation' \in Nat /\ files' \in [Tree -> Record \cup {None}]
  BY <1>2, <1>3, CommitTyped
<1>5. req' \in [Clients -> Requests] /\ req'[c] \in Calm
  BY <1>2, IdleIsARequest, BecomeTyped
<1> QED
  BY <1>3, <1>4, <1>5 DEF TypeInv, PutReader, outputs, bounds

LEMMA deadlineReaderTyped ==
    ASSUME TypeInv, NEW c \in Clients, deadlineReader(c)
    PROVE  TypeInv' /\ req'[c] \in Calm
<1>1. req' \in [Clients -> Requests] /\ req'[c] \in Calm
  BY IdleIsARequest, BecomeTyped DEF deadlineReader
<1> QED
  BY <1>1 DEF TypeInv, deadlineReader, tree, outputs, bounds

LEMMA ImportTyped ==
    ASSUME TypeInv, NEW c \in Clients, NEW written, written \subseteq Paths, NEW n \in 1..MaxLen,
           Import(c, written, n)
    PROVE  TypeInv' /\ req'[c] \in Calm
<1> DEFINE u == [pc |-> "import", todo |-> written, content |-> [id |-> contents + 1, len |-> n]]
<1>1. u \in Calm
  BY DavAssumption, KindsAreRequests DEF Importing, Content, TypeInv
<1>2. Become(c, u) /\ contents' = contents + 1 /\ UNCHANGED <<files, generation, twins, got, out, archive>>
  BY DEF Import, tree, outputs
<1> HIDE DEF u
<1>3. req' \in [Clients -> Requests] /\ req'[c] \in Calm
  BY <1>1, <1>2, KindsAreRequests, BecomeTyped
<1> QED
  BY <1>2, <1>3 DEF TypeInv

LEMMA PutPathTyped ==
    ASSUME TypeInv, NEW c \in Clients, NEW p \in Paths, NEW n \in 1..MaxLen,
           cmdPut(c, p, n) \/ PutDirectoryContents(c, p, n)
    PROVE  TypeInv' /\ req'[c] \in Calm
<1>1. {p} \subseteq Paths /\ Below(p) \subseteq Paths
  BY BeneathFacts, PathsInTree
<1>2. Import(c, {p}, n) \/ Import(c, Below(p), n)
  BY DEF cmdPut, PutPath, putViaRsync, PutPathReport, PutDirectoryContents
<1> QED
  BY <1>1, <1>2, ImportTyped

LEMMA commitFileManifestTyped ==
    ASSUME TypeInv, NEW c \in Clients, commitFileManifest(c)
    PROVE  /\ TypeInv' /\ req'[c] \in Calm
           /\ req[c].content \in Content /\ req[c].content.len \in Nat
<1>1. req[c] \in Importing
  BY RequestKinds DEF commitFileManifest, TypeInv
<1> DEFINE u(p) == IF req[c].todo = {p} THEN Idle ELSE [req[c] EXCEPT !.todo = @ \ {p}]
<1>2. PICK p \in req[c].todo : Commit(p, req[c].content, req[c].content.len) /\ Become(c, u(p))
  BY DEF commitFileManifest
<1>3. req[c].content \in Content /\ req[c].content.len \in Nat
  BY <1>1 DEF Importing, Content
<1>4. u(p) \in Calm
  <2>1. [req[c] EXCEPT !.todo = @ \ {p}] \in Importing
    BY <1>1 DEF Importing
  <2> QED
    BY <2>1, KindsAreRequests, IdleIsARequest
<1> HIDE DEF u
<1>5. req' \in [Clients -> Requests] /\ req'[c] \in Calm
  BY <1>2, <1>4, KindsAreRequests, BecomeTyped
<1>6. generation' \in Nat /\ files' \in [Tree -> Record \cup {None}]
  BY <1>2, <1>3, CommitTyped
<1> QED
  BY <1>3, <1>5, <1>6 DEF TypeInv, commitFileManifest, outputs, bounds

LEMMA TargetsInTree ==
    ASSUME NEW p \in Paths
    PROVE  /\ RemoveTargets(p) \subseteq Tree
           /\ \A q \in RemoveTargets(p) : q = p \/ IsPrefix(p, q)
BY PathsInTree, BeneathFacts DEF RemoveTargets

LEMMA RemoveTyped ==
    ASSUME TypeInv, NEW c \in Clients, NEW p \in Paths, RemovePath(c, p)
    PROVE  TypeInv' /\ req'[c] \in Calm
<1> DEFINE u == [pc |-> "remove", why |-> "delete", todo |-> RemoveTargets(p), then |-> Idle]
<1>1. u \in Calm
  BY TargetsInTree, KindsAreRequests DEF Deleting
<1>2. Become(c, u)
  BY DEF RemovePath
<1> HIDE DEF u
<1>3. req' \in [Clients -> Requests] /\ req'[c] \in Calm
  BY <1>1, <1>2, KindsAreRequests, BecomeTyped
<1> QED
  BY <1>3 DEF TypeInv, RemovePath, Begin, tree, outputs

LEMMA commitTombstoneTyped ==
    ASSUME TypeInv, NEW c \in Clients, commitTombstone(c)
    PROVE  /\ TypeInv'
           /\ req[c] \in Deleting \cup Clearing \cup Moving
           /\ \/ req'[c] \in Calm /\ (UNCHANGED mu \/ Unlock(c))
              \/ req[c] \in Clearing /\ req'[c] \in Clearing \cup Making /\ UNCHANGED mu
              \/ /\ req[c] \in Moving /\ req'[c] \in Moving /\ UNCHANGED mu
                 /\ req'[c].copied = req[c].copied /\ req'[c].todo \subseteq req[c].todo
                 /\ req'[c].snap = req[c].snap
<1> DEFINE r == req[c]
           u(p) == [r EXCEPT !.todo = @ \ {p}]
<1>1. r \in Deleting \cup Clearing \cup Moving
  BY RequestKinds DEF commitTombstone, TypeInv
<1>2. PICK p \in r.todo :
         /\ files' = [files EXCEPT ![p] = None]
         /\ \/ Become(c, u(p)) /\ UNCHANGED mu
            \/ Become(c, Idle) /\ Unlock(c)
            \/ Become(c, r.then) /\ r.then # Idle /\ UNCHANGED mu
  BY DEF commitTombstone, Answer
<1>3. files' \in [Tree -> Record \cup {None}]
  BY <1>2 DEF TypeInv
<1>4. req' \in [Clients -> Requests] => TypeInv'
  BY <1>3 DEF TypeInv, commitTombstone, outputs, bounds
<1>5. /\ r \in Deleting => u(p) \in Deleting
      /\ r \in Clearing => u(p) \in Clearing
      /\ r \in Moving => /\ u(p) \in Moving /\ u(p).copied = r.copied
                        /\ u(p).todo \subseteq r.todo /\ u(p).snap = r.snap
  <2>1. r \in Deleting => u(p) \in Deleting
    BY DEF Deleting
  <2>2. r \in Clearing => u(p) \in Clearing
    BY DEF Clearing
  <2>3. r \in Moving => /\ u(p) \in Moving /\ u(p).copied = r.copied
                       /\ u(p).todo \subseteq r.todo /\ u(p).snap = r.snap
    BY DEF Moving
  <2> QED
    BY <2>1, <2>2, <2>3
<1> HIDE DEF u
<1>6. CASE Become(c, u(p)) /\ UNCHANGED mu
  <2>1. u(p) \in Requests /\ (r \in Deleting => u(p) \in Calm)
    BY <1>1, <1>5, KindsAreRequests
  <2>2. req' \in [Clients -> Requests] /\ req'[c] = u(p)
    BY <1>6, <2>1, BecomeTyped
  <2> QED
    BY <1>1, <1>4, <1>5, <1>6, <2>1, <2>2
<1>7. CASE Become(c, Idle) /\ Unlock(c)
  <2>1. req' \in [Clients -> Requests] /\ req'[c] \in Calm
    BY <1>7, IdleIsARequest, BecomeTyped
  <2> QED
    BY <1>1, <1>4, <1>7, <2>1
<1>8. CASE Become(c, r.then) /\ r.then # Idle /\ UNCHANGED mu
  <2>1. r \in Clearing /\ r.then \in Making
    BY <1>1, <1>8 DEF Deleting, Clearing, Moving
  <2>2. req' \in [Clients -> Requests] /\ req'[c] \in Making
    BY <1>8, <2>1, KindsAreRequests, BecomeTyped
  <2> QED
    BY <1>1, <1>4, <1>8, <2>1, <2>2
<1> QED
  BY <1>2, <1>6, <1>7, <1>8

LEMMA RemoveFailsTyped ==
    ASSUME TypeInv, NEW c \in Clients, RemoveFails(c)
    PROVE  TypeInv' /\ req'[c] \in Calm
<1>1. req' \in [Clients -> Requests] /\ req'[c] \in Calm
  BY IdleIsARequest, BecomeTyped DEF RemoveFails, Answer
<1> QED
  BY <1>1 DEF TypeInv, RemoveFails, tree, outputs, bounds

LEMMA MkcolTyped ==
    ASSUME TypeInv, NEW c \in Clients, NEW p, handleMkcol(c, p)
    PROVE  TypeInv'
<1>1. files' \in [Tree -> Record \cup {None}]
  BY EnsureTyped DEF handleMkcol
<1> QED
  BY <1>1 DEF TypeInv, handleMkcol, Begin, outputs

LEMMA CopyMoveTyped ==
    ASSUME TypeInv, NEW c \in Clients, NEW src \in Paths, NEW dst \in Paths,
           NEW move \in BOOLEAN, NEW overwrite \in BOOLEAN, NEW depth0 \in BOOLEAN,
           handleCopyMove(c, src, dst, move, overwrite, depth0)
    PROVE  TypeInv' /\ req'[c] \in Making \cup Clearing
<1> DEFINE copy(pc) == [pc |-> pc, src |-> src, dst |-> dst, move |-> move]
           clear(pc) == [pc |-> "remove", why |-> "cleared", todo |-> RemoveTargets(dst),
                         then |-> copy(pc)]
<1>1. PICK pc \in {"mkcol", "copyPath"} : Become(c, copy(pc)) \/ Become(c, clear(pc))
  BY Zenon DEF handleCopyMove
<1>2. copy(pc) \in Making
  <2>1. copy(pc) \in MakingShape /\ copy(pc).src = src /\ copy(pc).dst = dst /\ copy(pc).move = move
    BY DEF MakingShape
  <2>2. Fits(src, dst) /\ (move => ~IsPrefix(src, dst))
    BY DEF handleCopyMove, Fits
  <2> HIDE DEF copy
  <2>3. Apart(copy(pc))
    BY <2>1, <2>2 DEF Apart
  <2> QED
    BY <2>1, <2>3 DEF Making
<1>3. clear(pc) \in Clearing
  <2> HIDE DEF copy
  <2> QED
    BY <1>2, TargetsInTree DEF Clearing
<1> HIDE DEF copy, clear
<1>4. PICK u \in Making \cup Clearing : Become(c, u)
  BY <1>1, <1>2, <1>3
<1>5. req' \in [Clients -> Requests] /\ req'[c] \in Making \cup Clearing
  BY <1>4, KindsAreRequests, BecomeTyped
<1> QED
  BY <1>5 DEF TypeInv, handleCopyMove, Begin, tree, outputs

LEMMA copyCollectionTyped ==
    ASSUME TypeInv, NEW c \in Clients, copyCollection(c)
    PROVE  TypeInv' /\ req'[c] \in Calm
<1>1. req' \in [Clients -> Requests] /\ req'[c] \in Calm
  BY IdleIsARequest, BecomeTyped DEF copyCollection, Answer
<1>2. files' \in [Tree -> Record \cup {None}]
  BY EnsureTyped DEF copyCollection
<1> QED
  BY <1>1, <1>2 DEF TypeInv, copyCollection, outputs, bounds

(* What copyPath makes of its snapshot. *)
CopyOf(r, S) ==
    [pc |-> "copy", src |-> r.src, dst |-> r.dst, move |-> r.move,
     snap |-> [p \in S |-> files[p]], todo |-> S, copied |-> {}]

(* The listing is the index as it is, with everything still to do. *)
Lists(u) ==
    /\ DOMAIN u.snap = u.todo
    /\ \A p \in u.todo : files[p] # None /\ u.snap[p] = files[p]

LEMMA copyPathTyped ==
    ASSUME TypeInv, NEW c \in Clients, copyPath(c)
    PROVE  /\ TypeInv'
           /\ req[c] \in Making
           /\ \/ req'[c] = Idle /\ Unlock(c)
              \/ /\ req'[c] \in Copying /\ req'[c].copied = {} /\ UNCHANGED mu
                 /\ Lists(req'[c])
<1>0. req[c] \in Making /\ req[c] \in MakingShape /\ Apart(req[c])
  BY RequestKinds DEF copyPath, TypeInv, Making
<1>1. req[c].src \in Paths /\ req[c].dst \in Paths /\ req[c].move \in BOOLEAN /\ req[c].src \in Tree
  BY <1>0, PathsInTree DEF MakingShape
<1>2. ASSUME NEW S, S \subseteq Area(req[c].src), \A p \in S : files[p] # None
      PROVE  /\ CopyOf(req[c], S) \in Copying /\ CopyOf(req[c], S).copied = {}
             /\ Lists(CopyOf(req[c], S))
  <2> DEFINE u == CopyOf(req[c], S)
  <2>1. [p \in S |-> files[p]] \in Snapshots
    BY <1>2, MakeSnapshot DEF Area
  <2>2. u \in CopyingShape
    BY <1>1, <1>2, <2>1 DEF CopyingShape, CopyOf, Area
  <2>3. /\ u.src = req[c].src /\ u.dst = req[c].dst /\ u.move = req[c].move
        /\ u.todo = S /\ DOMAIN u.snap = S /\ u.copied = {}
        /\ \A p \in S : u.snap[p] = files[p]
    BY DEF CopyOf
  <2> HIDE DEF u
  <2>4. Apart(u)
    BY <1>0, <2>3 DEF Apart
  <2>5. u \in Copying
    BY <1>2, <2>2, <2>3, <2>4 DEF Copying
  <2>6. Lists(u)
    BY <1>2, <2>3 DEF Lists
  <2> QED
    BY <2>3, <2>5, <2>6 DEF u
<1>3. {req[c].src} \subseteq Area(req[c].src)
  <2>1. Len(req[c].src) \in Nat
    BY <1>1 DEF Paths
  <2> QED
    BY <1>1, <2>1 DEF Area, IsPrefix
<1>4. {p \in Beneath[req[c].src] : files[p] # None} \subseteq Area(req[c].src)
  BY <1>1, BeneathFacts DEF Area
<1>5. files' \in [Tree -> Record \cup {None}]
  BY EnsureTyped DEF copyPath, TypeInv
<1>6. \/ Become(c, Idle) /\ Unlock(c)
      \/ /\ \E S : /\ S \subseteq Area(req[c].src) /\ \A p \in S : files[p] # None
                   /\ Become(c, CopyOf(req[c], S))
         /\ UNCHANGED mu
  BY <1>3, <1>4 DEF copyPath, Answer, IsFile, CopyOf
<1>7. /\ req' \in [Clients -> Requests]
      /\ \/ req'[c] = Idle /\ Unlock(c)
         \/ /\ req'[c] \in Copying /\ req'[c].copied = {} /\ UNCHANGED mu
            /\ Lists(req'[c])
  <2>1. CASE Become(c, Idle) /\ Unlock(c)
    <3>1. req' \in [Clients -> Requests] /\ req'[c] = Idle
      BY <2>1, IdleIsARequest, BecomeTyped
    <3> QED
      BY <2>1, <3>1
  <2>2. CASE UNCHANGED mu /\ \E S : /\ S \subseteq Area(req[c].src) /\ \A p \in S : files[p] # None
                                    /\ Become(c, CopyOf(req[c], S))
    <3>1. PICK u \in Copying : Become(c, u) /\ u.copied = {} /\ Lists(u)
      BY <1>2, <2>2
    <3> QED
      BY <2>2, <3>1, KindsAreRequests, BecomeTyped
  <2> QED
    BY <1>6, <2>1, <2>2
<1> QED
  BY <1>0, <1>5, <1>7 DEF TypeInv, copyPath, outputs, bounds

LEMMA copyMarkerTyped ==
    ASSUME TypeInv, NEW c \in Clients, copyMarker(c)
    PROVE  /\ TypeInv'
           /\ req[c] \in Copying /\ req'[c] \in Copying
           /\ req'[c].copied = req[c].copied /\ req'[c].src = req[c].src /\ req'[c].move = req[c].move
           /\ req'[c].snap = req[c].snap
           /\ \E p : IsMarker(p) /\ req'[c].todo = req[c].todo \ {p}
<1>1. req[c] \in Copying /\ req[c] \in CopyingShape
  BY RequestKinds DEF copyMarker, TypeInv, Copying
<1>2. PICK p \in req[c].todo :
         /\ EnsureDirectory(Front(DstOf(req[c], p))) /\ Become(c, [req[c] EXCEPT !.todo = @ \ {p}])
         /\ IsMarker(p)
  BY DEF copyMarker
<1> DEFINE u == [req[c] EXCEPT !.todo = @ \ {p}]
<1>3. /\ u \in CopyingShape
      /\ u.src = req[c].src /\ u.dst = req[c].dst /\ u.move = req[c].move
      /\ u.todo = req[c].todo \ {p} /\ u.snap = req[c].snap /\ u.copied = req[c].copied
  BY <1>1 DEF CopyingShape
<1>4. Become(c, u)
  BY <1>2
<1> HIDE DEF u
<1>5. u \in Copying
  BY <1>1, <1>3 DEF Copying, Apart
<1>6. req' \in [Clients -> Requests] /\ req'[c] = u
  BY <1>4, <1>5, KindsAreRequests, BecomeTyped
<1>7. files' \in [Tree -> Record \cup {None}]
  BY <1>2, EnsureTyped
<1>8. TypeInv'
  BY <1>6, <1>7 DEF TypeInv, copyMarker, outputs, bounds
<1> QED
  BY <1>1, <1>2, <1>3, <1>5, <1>6, <1>8

LEMMA WriteFileToTyped ==
    ASSUME TypeInv, NEW c \in Clients, WriteFileTo(c)
    PROVE  /\ TypeInv'
           /\ req[c] \in Copying /\ req'[c] \in CopyingFile
           /\ req'[c].copied = req[c].copied /\ req'[c].src = req[c].src /\ req'[c].move = req[c].move
           /\ req'[c].snap = req[c].snap /\ req'[c].todo = req[c].todo \ {req'[c].path}
           /\ req'[c].content = files[req'[c].path].content
<1>1. req[c] \in Copying /\ req[c] \in CopyingShape
  BY RequestKinds DEF WriteFileTo, TypeInv, Copying
<1> DEFINE r == req[c]
           u(p) == [pc |-> "copyFile", src |-> r.src, dst |-> r.dst, move |-> r.move,
                    snap |-> r.snap, todo |-> r.todo \ {p}, copied |-> r.copied,
                    path |-> p, content |-> files[p].content]
<1>2. PICK p \in r.todo : IsFile(files, p) /\ Become(c, u(p))
  BY DEF WriteFileTo
<1>3. p \in Tree /\ p \in DOMAIN r.snap \cap Area(r.src)
  BY <1>1, <1>2 DEF Copying, Area
<1>4. files[p].content \in Content /\ ~IsMarker(p)
  <2>1. files[p] \in Record
    BY <1>2, <1>3 DEF IsFile, TypeInv
  <2> QED
    BY <1>2, <2>1 DEF IsFile, Record
<1>5. /\ u(p) \in CopyingFileShape
      /\ u(p).src = r.src /\ u(p).dst = r.dst /\ u(p).move = r.move
      /\ u(p).todo = r.todo \ {p} /\ u(p).snap = r.snap /\ u(p).copied = r.copied /\ u(p).path = p
      /\ u(p).content = files[p].content
  BY <1>1, <1>3, <1>4 DEF CopyingShape, CopyingFileShape
<1> HIDE DEF u
<1>6. u(p) \in CopyingFile
  BY <1>1, <1>3, <1>4, <1>5 DEF Copying, CopyingFile, Apart
<1>7. req' \in [Clients -> Requests] /\ req'[c] = u(p)
  BY <1>2, <1>6, KindsAreRequests, BecomeTyped
<1>8. TypeInv'
  BY <1>7 DEF TypeInv, WriteFileTo, tree, outputs, bounds
<1> QED
  BY <1>1, <1>5, <1>6, <1>7, <1>8

LEMMA copyFailsTyped ==
    ASSUME TypeInv, NEW c \in Clients, copyFails(c)
    PROVE  TypeInv' /\ req'[c] \in Calm
<1>1. req' \in [Clients -> Requests] /\ req'[c] \in Calm
  BY IdleIsARequest, BecomeTyped DEF copyFails, Answer
<1> QED
  BY <1>1 DEF TypeInv, copyFails, tree, outputs, bounds

LEMMA copyFileTyped ==
    ASSUME TypeInv, NEW c \in Clients, copyFile(c)
    PROVE  /\ TypeInv'
           /\ req[c] \in CopyingFile /\ req'[c] \in Copying
           /\ req'[c].copied = req[c].copied \cup {<<req[c].path, req[c].content>>}
           /\ req'[c].src = req[c].src /\ req'[c].move = req[c].move
           /\ req'[c].snap = req[c].snap /\ req'[c].todo = req[c].todo
<1> DEFINE r == req[c]
           u == [pc |-> "copy", src |-> r.src, dst |-> r.dst, move |-> r.move, snap |-> r.snap,
                 todo |-> r.todo, copied |-> r.copied \cup {<<r.path, r.content>>}]
<1>1. r \in CopyingFile /\ r \in CopyingFileShape
  BY RequestKinds DEF copyFile, TypeInv, CopyingFile
<1>2. /\ u \in CopyingShape
      /\ u.src = r.src /\ u.dst = r.dst /\ u.move = r.move /\ u.todo = r.todo /\ u.snap = r.snap
      /\ u.copied = r.copied \cup {<<r.path, r.content>>}
  BY <1>1 DEF CopyingShape, CopyingFileShape
<1>3. Become(c, u) /\ Commit(DstOf(r, r.path), r.content, r.snap[r.path].size)
  BY DEF copyFile
<1> HIDE DEF u
<1>4. u \in Copying
  BY <1>1, <1>2 DEF Copying, CopyingFile, Apart
<1>5. r.content \in Content /\ r.snap[r.path].size \in Nat
  <2>1. r.snap \in Snapshots /\ r.path \in DOMAIN r.snap /\ r.content \in Content
    BY <1>1 DEF CopyingFile, CopyingFileShape
  <2>2. r.snap[r.path] \in Record
    BY <2>1, SnapshotFacts
  <2> QED
    BY <2>1, <2>2 DEF Record
<1>6. generation' \in Nat /\ files' \in [Tree -> Record \cup {None}]
  BY <1>3, <1>5, CommitTyped
<1>7. req' \in [Clients -> Requests] /\ req'[c] = u
  BY <1>3, <1>4, KindsAreRequests, BecomeTyped
<1>8. TypeInv'
  BY <1>6, <1>7 DEF TypeInv, copyFile, outputs, bounds
<1> QED
  BY <1>1, <1>2, <1>4, <1>7, <1>8

LEMMA copyDoneTyped ==
    ASSUME TypeInv, NEW c \in Clients, copyDone(c)
    PROVE  /\ TypeInv'
           /\ req[c] \in Copying
           /\ \/ req'[c] = Idle /\ Unlock(c)
              \/ /\ UNCHANGED mu /\ req[c].move
                 /\ req'[c] \in Moving /\ req'[c].copied = req[c].copied
                 /\ req'[c].todo = RemoveTargets(req[c].src)
                 /\ req'[c].snap = req[c].snap /\ req[c].todo = {}
<1> DEFINE r == req[c]
           u == [pc |-> "remove", why |-> "moved", todo |-> RemoveTargets(r.src),
                 then |-> Idle, copied |-> r.copied, snap |-> r.snap]
<1>1. r \in Copying /\ r \in CopyingShape
  BY RequestKinds DEF copyDone, TypeInv, Copying
<1>2. u \in Moving /\ u.copied = r.copied /\ u.todo = RemoveTargets(r.src) /\ u.snap = r.snap
  BY <1>1, TargetsInTree DEF Moving, CopyingShape
<1>3. \/ Become(c, u) /\ UNCHANGED mu /\ r.move /\ r.todo = {}
      \/ Become(c, Idle) /\ Unlock(c)
  BY DEF copyDone, Answer
<1> HIDE DEF u
<1>4. CASE Become(c, u) /\ UNCHANGED mu /\ r.move /\ r.todo = {}
  <2>1. req' \in [Clients -> Requests] /\ req'[c] = u
    BY <1>2, <1>4, KindsAreRequests, BecomeTyped
  <2>2. TypeInv'
    BY <2>1 DEF TypeInv, copyDone, tree, outputs, bounds
  <2> QED
    BY <1>1, <1>2, <1>4, <2>1, <2>2
<1>5. CASE Become(c, Idle) /\ Unlock(c)
  <2>1. req' \in [Clients -> Requests] /\ req'[c] = Idle
    BY <1>5, IdleIsARequest, BecomeTyped
  <2>2. TypeInv'
    BY <2>1 DEF TypeInv, copyDone, tree, outputs, bounds
  <2> QED
    BY <1>1, <1>5, <2>1, <2>2
<1> QED
  BY <1>3, <1>4, <1>5

LEMMA ReadingFacts ==
    ASSUME NEW r \in Reading
    PROVE  /\ r \in ReadingShape
           /\ r.path \in Paths /\ r.want \subseteq 1..MaxLen /\ r.want \subseteq Nat
           /\ r.resume \in BOOLEAN
           /\ r.reader \in Record /\ r.reader.gen \in Nat
           /\ r.reader.content \in Content
           /\ r.reader.content.len \in 0..MaxLen /\ r.reader.content.len \in Nat
<1>1. r \in ReadingShape
  BY DEF Reading
<1>2. r.reader \in Record
  BY <1>1 DEF ReadingShape
<1> QED
  BY <1>1, <1>2 DEF ReadingShape, Record, Content

(* A reader moves on to another stage of the same download. *)
LEMMA StageTyped ==
    ASSUME NEW r \in Reading
    PROVE  /\ [r EXCEPT !.pc = "slot"] \in Reading
           /\ [r EXCEPT !.pc = "slot"].reader = r.reader
           /\ [r EXCEPT !.pc = "slot"].resume = r.resume
           /\ [r EXCEPT !.pc = "slot"].path = r.path
           /\ [r EXCEPT !.pc = "slot"].pc = "slot"
<1> DEFINE u == [r EXCEPT !.pc = "slot"]
<1>1. /\ u \in ReadingShape /\ u.reader = r.reader /\ u.resume = r.resume /\ u.path = r.path
      /\ u.pc = "slot"
  BY ReadingFacts DEF ReadingShape
<1> HIDE DEF u
<1>2. u \in Reading
  BY <1>1 DEF Reading
<1> QED
  BY <1>1, <1>2 DEF u

LEMMA handleGetTyped ==
    ASSUME TypeInv, NEW c \in Clients, NEW p \in Paths,
           NEW want \in {1..MaxLen} \cup {{i} : i \in 1..MaxLen}, NEW resume \in BOOLEAN,
           handleGet(c, p, want, resume)
    PROVE  /\ TypeInv'
           /\ req'[c] \in Opening
           /\ req'[c].resume => got[c] # None /\ got[c].path = req'[c].path
           /\ UNCHANGED <<files, generation, twins, got>>
<1> DEFINE u == [pc |-> "open", path |-> p, rec |-> files[p], want |-> want, resume |-> resume]
<1>1. files[p] \in Record
  BY PathsInTree DEF handleGet, IsFile, TypeInv
<1>2. want \subseteq Nat
  BY DavAssumption
<1>3. u \in Opening /\ u.resume = resume /\ u.path = p
  BY <1>1, <1>2 DEF Opening
<1>4. Become(c, u) /\ (resume => got[c] # None /\ got[c].path = p)
  BY DEF handleGet
<1> HIDE DEF u
<1>5. req' \in [Clients -> Requests] /\ req'[c] = u
  BY <1>3, <1>4, KindsAreRequests, BecomeTyped
<1>6. UNCHANGED <<files, generation, twins, got>>
  BY DEF handleGet, tree
<1>7. TypeInv'
  BY <1>5 DEF TypeInv, handleGet, Begin, tree, outputs
<1> QED
  BY <1>3, <1>4, <1>5, <1>6, <1>7

LEMMA openFileReaderTyped ==
    ASSUME TypeInv, NEW c \in Clients, openFileReader(c)
    PROVE  /\ TypeInv'
           /\ req[c] \in Opening
           /\ \/ req'[c] = Idle
              \/ /\ req'[c] \in Reading /\ req'[c].pc # "body" /\ req'[c].resume = req[c].resume
                 /\ req'[c].path = req[c].path
                 /\ req[c].path \in Paths /\ files[req[c].path] # None
                 /\ req'[c].reader = files[req[c].path]
           /\ UNCHANGED <<files, generation, twins, got>>
<1> DEFINE r == req[c]
           u(pc) == [pc |-> pc, path |-> r.path, rec |-> r.rec, want |-> r.want,
                     resume |-> r.resume, reader |-> files[r.path]]
<1>1. r \in Opening
  BY RequestKinds DEF openFileReader, TypeInv
<1>2. \/ Become(c, Idle)
      \/ \E pc \in {"verify", "sweep"} : IsFile(files, r.path) /\ Become(c, u(pc))
  BY DEF openFileReader
<1>3. r.path \in Paths /\ r.path \in Tree
  BY <1>1, PathsInTree DEF Opening
<1>4. ASSUME NEW pc \in {"verify", "sweep"}, IsFile(files, r.path)
      PROVE  /\ u(pc) \in Reading /\ u(pc).pc # "body" /\ u(pc).resume = r.resume
             /\ u(pc).path = r.path /\ u(pc).reader = files[r.path]
  <2>1. files[r.path] \in Record
    BY <1>3, <1>4 DEF IsFile, TypeInv
  <2>2. /\ u(pc) \in ReadingShape /\ u(pc).pc # "body" /\ u(pc).resume = r.resume
        /\ u(pc).path = r.path /\ u(pc).reader = files[r.path]
    BY <1>1, <2>1 DEF ReadingShape, Opening
  <2> HIDE DEF u
  <2> QED
    BY <2>2 DEF Reading
<1> HIDE DEF u
<1>5. UNCHANGED <<files, generation, twins, got>>
  BY DEF openFileReader, tree
<1>6. CASE Become(c, Idle)
  <2>1. req' \in [Clients -> Requests] /\ req'[c] = Idle
    BY <1>6, IdleIsARequest, BecomeTyped
  <2>2. TypeInv'
    BY <2>1 DEF TypeInv, openFileReader, tree, outputs, bounds
  <2> QED
    BY <1>1, <1>5, <2>1, <2>2
<1>7. ASSUME NEW pc \in {"verify", "sweep"}, IsFile(files, r.path), Become(c, u(pc))
      PROVE  /\ TypeInv' /\ req'[c] \in Reading /\ req'[c].pc # "body" /\ req'[c].resume = r.resume
             /\ req'[c].path = r.path /\ files[r.path] # None /\ req'[c].reader = files[r.path]
  <2>1. req' \in [Clients -> Requests] /\ req'[c] = u(pc)
    BY <1>4, <1>7, KindsAreRequests, BecomeTyped
  <2>2. TypeInv'
    BY <2>1 DEF TypeInv, openFileReader, tree, outputs, bounds
  <2> QED
    BY <1>4, <1>7, <2>1, <2>2 DEF IsFile
<1> QED
  BY <1>1, <1>2, <1>3, <1>5, <1>6, <1>7

LEMMA PresenceTyped ==
    ASSUME TypeInv, NEW c \in Clients, OpenReaderAt(c) \/ VerifyChunkPresence(c)
    PROVE  /\ TypeInv'
           /\ req[c] \in Reading
           /\ \/ req'[c] = Idle
              \/ /\ req'[c] \in Reading /\ req'[c].pc = "slot" /\ req'[c].resume = req[c].resume
                 /\ req'[c].path = req[c].path /\ req'[c].reader = req[c].reader
           /\ UNCHANGED <<files, generation, twins, got>>
<1>1. req[c] \in Reading
  BY RequestKinds DEF OpenReaderAt, VerifyChunkPresence, TypeInv
<1>2. Become(c, Idle) \/ Become(c, [req[c] EXCEPT !.pc = "slot"])
  BY DEF OpenReaderAt, VerifyChunkPresence
<1>3. UNCHANGED <<files, generation, twins, got, contents, out, archive>>
  BY DEF OpenReaderAt, VerifyChunkPresence, tree, outputs, bounds
<1>4. CASE Become(c, Idle)
  <2>1. req' \in [Clients -> Requests] /\ req'[c] = Idle
    BY <1>4, IdleIsARequest, BecomeTyped
  <2>2. TypeInv'
    BY <1>3, <2>1 DEF TypeInv
  <2> QED
    BY <1>1, <1>3, <2>1, <2>2
<1>5. CASE Become(c, [req[c] EXCEPT !.pc = "slot"])
  <2> DEFINE u == [req[c] EXCEPT !.pc = "slot"]
  <2>1. /\ u \in Reading /\ u.pc = "slot" /\ u.resume = req[c].resume /\ u.reader = req[c].reader
        /\ u.path = req[c].path
    BY <1>1, StageTyped
  <2>2. Become(c, u)
    BY <1>5
  <2> HIDE DEF u
  <2>3. req' \in [Clients -> Requests] /\ req'[c] = u
    BY <2>1, <2>2, KindsAreRequests, BecomeTyped
  <2>4. TypeInv'
    BY <1>3, <2>3 DEF TypeInv
  <2> QED
    BY <1>1, <1>3, <2>1, <2>3, <2>4
<1> QED
  BY <1>2, <1>4, <1>5

LEMMA NoParts == << >> \in PartMaps /\ DOMAIN << >> = {}
<1>1. << >> \in Seq(Content) /\ Len(<< >>) = 0
  BY EmptySeq
<1>2. << >> \in [1..0 -> Content]
  BY <1>1, LenProperties
<1> QED
  BY <1>2 DEF PartMaps

LEMMA ServeContentTyped ==
    ASSUME TypeInv, NEW c \in Clients, ServeContent(c)
    PROVE  /\ TypeInv'
           /\ req[c] \in Reading /\ req[c].pc = "slot"
           /\ \/ req'[c] = Idle /\ got' = got
              \/ /\ req'[c] \in Reading /\ req'[c].reader = req[c].reader
                 /\ req'[c].resume = req[c].resume /\ req'[c].path = req[c].path
                 /\ \/ got' = got /\ req[c].resume /\ got[c].etag = etagForReader(req[c])
                    \/ /\ got'[c] \in Downloads /\ got'[c].etag = etagForReader(req[c])
                       /\ got'[c].path = req[c].path /\ DOMAIN got'[c].parts = {}
                       /\ \A d \in Clients : d # c => got'[d] = got[d]
           /\ UNCHANGED <<files, generation, twins>>
<1> DEFINE r == req[c]
           all == 1..r.reader.content.len
           parts == IF r.resume /\ ~(r.resume /\ got[c].etag = etagForReader(r)) THEN all
                    ELSE r.want \cap all
           u == [r EXCEPT !.pc = "body", !.want = parts]
           g == [path |-> r.path, etag |-> etagForReader(r), parts |-> << >>]
<1>1. r \in Reading /\ r.pc = "slot"
  BY RequestKinds DEF ServeContent, TypeInv
<1>2. \/ Become(c, Idle) /\ got' = got
      \/ /\ Become(c, u) /\ parts # {}
         /\ \/ got' = got /\ r.resume /\ got[c].etag = etagForReader(r)
            \/ got' = [got EXCEPT ![c] = g]
  BY DEF ServeContent
<1>3. UNCHANGED <<files, generation, twins, contents, out, archive>>
  BY DEF ServeContent, tree, outputs, bounds
<1>4. parts \subseteq 1..MaxLen
  <2>1. r.reader.content.len \in 0..MaxLen /\ r.want \subseteq 1..MaxLen
    BY <1>1, ReadingFacts
  <2> QED
    BY <2>1, DavAssumption
<1>5. g \in Downloads /\ g.etag = etagForReader(r) /\ g.path = r.path /\ DOMAIN g.parts = {}
  <2>1. Len(r.path) \in Nat
    <3>1. r.path \in Paths
      BY <1>1, ReadingFacts
    <3> QED
      BY <3>1 DEF Paths
  <2>2. etagForReader(r) \in Nat \X Nat \X Nat
    <3>1. r.reader.gen \in Nat /\ r.reader.content.len \in Nat
      BY <1>1, ReadingFacts
    <3> QED
      BY <2>1, <3>1 DEF etagForReader, Etag
  <2>3. r.path \in Paths
    BY <1>1, ReadingFacts
  <2> QED
    BY <2>2, <2>3, NoParts DEF Downloads
<1>6. CASE Become(c, Idle) /\ got' = got
  <2>1. req' \in [Clients -> Requests] /\ req'[c] = Idle
    BY <1>6, IdleIsARequest, BecomeTyped
  <2>2. TypeInv'
    BY <1>3, <1>6, <2>1 DEF TypeInv
  <2> QED
    BY <1>1, <1>3, <1>6, <2>1, <2>2
<1>7. CASE /\ Become(c, u) /\ parts # {}
           /\ \/ got' = got /\ r.resume /\ got[c].etag = etagForReader(r)
              \/ got' = [got EXCEPT ![c] = g]
  <2>1. u \in Reading /\ u.reader = r.reader /\ u.resume = r.resume /\ u.path = r.path
    <3> HIDE DEF parts
    <3>1. /\ u \in ReadingShape /\ u.reader = r.reader /\ u.resume = r.resume
          /\ u.path = r.path /\ u.pc = "body" /\ u.want = parts
      BY <1>1, <1>4, ReadingFacts DEF ReadingShape
    <3> HIDE DEF u
    <3>2. parts # {}
      BY <1>7
    <3> QED
      BY <3>1, <3>2 DEF Reading
  <2> HIDE DEF u, g, parts
  <2>2. req' \in [Clients -> Requests] /\ req'[c] = u
    BY <1>7, <2>1, KindsAreRequests, BecomeTyped
  <2>3. got' \in [Clients -> Downloads \cup {None}]
    BY <1>5, <1>7 DEF TypeInv
  <2>4. TypeInv'
    BY <1>3, <2>2, <2>3 DEF TypeInv
  <2>5. \/ got' = got /\ r.resume /\ got[c].etag = etagForReader(r)
        \/ got'[c] = g /\ \A d \in Clients : d # c => got'[d] = got[d]
    BY <1>7 DEF TypeInv
  <2> QED
    BY <1>1, <1>3, <1>5, <2>1, <2>2, <2>4, <2>5
<1> QED
  BY <1>2, <1>6, <1>7

LEMMA chunkAtLockedTyped ==
    ASSUME TypeInv, NEW c \in Clients, Labelled(req[c], got[c]), chunkAtLocked(c)
    PROVE  /\ TypeInv'
           /\ req[c] \in Reading /\ req[c].pc = "body" /\ got[c] \in Downloads
           /\ \/ req'[c] = Idle
              \/ /\ req'[c] \in Reading /\ req'[c].reader = req[c].reader
                 /\ req'[c].resume = req[c].resume /\ req'[c].path = req[c].path
           /\ got'[c] \in Downloads /\ got'[c].etag = got[c].etag /\ got'[c].path = got[c].path
           /\ \A i \in DOMAIN got'[c].parts :
                 \/ i \in DOMAIN got[c].parts /\ got'[c].parts[i] = got[c].parts[i]
                 \/ got'[c].parts[i] = req[c].reader.content
           /\ \A d \in Clients : d # c => got'[d] = got[d]
           /\ UNCHANGED <<files, generation, twins>>
<1> DEFINE r == req[c]
           i == CHOOSE j \in r.want : \A k \in r.want : j <= k
           u == [r EXCEPT !.want = @ \ {i}]
           g == [got[c] EXCEPT !.parts = Extend(@, i, r.reader.content)]
<1>1. r \in Reading /\ r.pc = "body"
  BY RequestKinds DEF chunkAtLocked, TypeInv
<1>2. got[c] \in Downloads
  BY <1>1 DEF Labelled
<1>3. i \in r.want /\ i \in 1..MaxLen
  <2>1. r.want \subseteq Nat /\ r.want \subseteq 1..MaxLen
    BY <1>1, ReadingFacts
  <2>2. r.want # {}
    BY <1>1 DEF Reading
  <2>3. \E j \in r.want : \A k \in r.want : j <= k
    BY <2>1, <2>2, LeastElement
  <2>4. i \in r.want
    BY <2>3
  <2> QED
    BY <2>1, <2>4
<1>4. /\ got' = [got EXCEPT ![c] = g]
      /\ \/ Become(c, Idle)
         \/ Become(c, u) /\ r.want # {i}
  BY DEF chunkAtLocked
<1> HIDE DEF i
<1>5. UNCHANGED <<files, generation, twins, contents, out, archive>>
  BY DEF chunkAtLocked, tree, outputs, bounds
<1>6. /\ g \in Downloads /\ g.etag = got[c].etag /\ g.path = got[c].path
      /\ \A j \in DOMAIN g.parts : \/ j \in DOMAIN got[c].parts /\ g.parts[j] = got[c].parts[j]
                                   \/ g.parts[j] = r.reader.content
  <2> DEFINE old == got[c].parts
             new == Extend(old, i, r.reader.content)
  <2>1. old \in PartMaps
    BY <1>2 DEF Downloads
  <2>2. PICK S \in SUBSET (1..MaxLen) : old \in [S -> Content]
    BY <2>1 DEF PartMaps
  <2>3. r.reader.content \in Content
    BY <1>1, ReadingFacts
  <2>4. new \in [S \cup {i} -> Content]
    BY <2>2, <2>3 DEF Extend
  <2>5. new \in PartMaps
    BY <1>3, <2>4 DEF PartMaps
  <2>6. \A j \in DOMAIN new : \/ j \in DOMAIN old /\ new[j] = old[j]
                              \/ new[j] = r.reader.content
    BY DEF Extend
  <2>7. g = [got[c] EXCEPT !.parts = new]
    OBVIOUS
  <2> HIDE DEF new
  <2>8. g \in Downloads /\ g.etag = got[c].etag /\ g.path = got[c].path /\ g.parts = new
    BY <1>2, <2>5, <2>7 DEF Downloads
  <2> QED
    BY <2>6, <2>8
<1>7. r.want # {i} =>
         u \in Reading /\ u.reader = r.reader /\ u.resume = r.resume /\ u.path = r.path
  <2>1. /\ u \in ReadingShape /\ u.reader = r.reader /\ u.resume = r.resume
        /\ u.path = r.path /\ u.want = r.want \ {i}
    BY <1>1, ReadingFacts DEF ReadingShape
  <2> HIDE DEF u
  <2> QED
    BY <1>3, <2>1 DEF Reading
<1> HIDE DEF u, g
<1>8. /\ req' \in [Clients -> Requests]
      /\ \/ req'[c] = Idle
         \/ r.want # {i} /\ req'[c] = u
  <2>1. Become(c, Idle) => req' \in [Clients -> Requests] /\ req'[c] = Idle
    BY IdleIsARequest, BecomeTyped
  <2>2. Become(c, u) /\ r.want # {i} => req' \in [Clients -> Requests] /\ req'[c] = u
    BY <1>7, KindsAreRequests, BecomeTyped
  <2> QED
    BY <1>4, <2>1, <2>2
<1>9. got' \in [Clients -> Downloads \cup {None}] /\ got'[c] = g
      /\ \A d \in Clients : d # c => got'[d] = got[d]
  BY <1>4, <1>6 DEF TypeInv
<1>10. TypeInv'
  BY <1>5, <1>8, <1>9 DEF TypeInv
<1> QED
  BY <1>1, <1>2, <1>5, <1>6, <1>7, <1>8, <1>9, <1>10

LEMMA releaseStreamTyped ==
    ASSUME TypeInv, NEW c \in Clients, releaseStream(c)
    PROVE  TypeInv' /\ req'[c] = Idle /\ UNCHANGED <<files, generation, twins, got>>
<1>1. req' \in [Clients -> Requests] /\ req'[c] = Idle
  BY IdleIsARequest, BecomeTyped DEF releaseStream
<1>2. TypeInv'
  BY <1>1 DEF TypeInv, releaseStream, tree, outputs, bounds
<1> QED
  BY <1>1, <1>2 DEF releaseStream, tree

LEMMA ArchiveFacts ==
    /\ << >> \in Archives
    /\ \A a \in Archives : \A p \in Paths, f \in WholeFiles : Extend(a, p, f) \in Archives
    /\ \A a \in Archives : \A p \in DOMAIN a : a[p] \in WholeFiles
<1>1. << >> \in Seq(WholeFiles) /\ Len(<< >>) = 0
  BY EmptySeq
<1>2. << >> \in [{} -> WholeFiles]
  BY <1>1, LenProperties
<1>3. << >> \in Archives
  BY <1>2 DEF Archives
<1>4. ASSUME NEW a \in Archives, NEW p \in Paths, NEW f \in WholeFiles
      PROVE  Extend(a, p, f) \in Archives
  <2>1. PICK S \in SUBSET Paths : a \in [S -> WholeFiles]
    BY DEF Archives
  <2>2. Extend(a, p, f) \in [S \cup {p} -> WholeFiles]
    BY <2>1 DEF Extend
  <2> QED
    BY <2>2 DEF Archives
<1> QED
  BY <1>3, <1>4 DEF Archives

LEMMA MatchesFacts ==
    ASSUME NEW p \in Paths
    PROVE  /\ Matches(p) \subseteq Paths
           /\ \A q \in Matches(p) : files[q] # None
BY BeneathFacts, PathsInTree DEF Matches, IsFile

LEMMA RestoreTyped ==
    ASSUME TypeInv, NEW c \in Clients, NEW p \in Paths, NEW zip \in BOOLEAN, NEW replace \in BOOLEAN,
           cmdGet(c, p) \/ cmdExport(c, p, zip, replace)
    PROVE  TypeInv' /\ req'[c] \in Calm
<1>1. ASSUME NEW how \in {"get", "zip", "export"}, NEW rep \in BOOLEAN
      PROVE  Restoring(how, p, rep) \in RestoringSet
  <2> DEFINE u == Restoring(how, p, rep)
  <2>1. [q \in Matches(p) |-> files[q]] \in Snapshots
    BY MatchesFacts, PathsInTree, MakeSnapshot
  <2>2. u \in RestoringShape /\ u.todo = Matches(p) /\ DOMAIN u.snap = Matches(p)
    BY <2>1, MatchesFacts, ArchiveFacts DEF Restoring, RestoringShape
  <2> HIDE DEF u
  <2>3. u \in RestoringSet
    BY <2>2 DEF RestoringSet
  <2> QED
    BY <2>3 DEF u
<1>2. \E how \in {"get", "zip", "export"}, rep \in BOOLEAN : Become(c, Restoring(how, p, rep))
  BY DEF cmdGet, GetPath, cmdExport, ExportPath
<1>3. req' \in [Clients -> Requests] /\ req'[c] \in Calm
  BY <1>1, <1>2, KindsAreRequests, BecomeTyped
<1>4. archive' \in Archives \cup {None}
  BY DEF TypeInv, cmdGet, GetPath, cmdExport, ExportPath, outputs
<1>5. UNCHANGED <<files, generation, twins, contents, got, out>>
  BY DEF cmdGet, GetPath, cmdExport, ExportPath, Begin, tree, outputs
<1> QED
  BY <1>3, <1>4, <1>5 DEF TypeInv

LEMMA checkOverwriteTyped ==
    ASSUME TypeInv, NEW c \in Clients, checkOverwrite(c)
    PROVE  TypeInv' /\ req'[c] \in Calm
<1> DEFINE r == req[c]
           skip(p) == [r EXCEPT !.todo = @ \ {p}]
           take(p) == [pc |-> "file", how |-> r.how, snap |-> r.snap, todo |-> r.todo \ {p},
                       replace |-> r.replace, built |-> r.built, path |-> p, tmp |-> {}]
<1>1. r \in RestoringSet /\ r \in RestoringShape
  BY RequestKinds DEF checkOverwrite, TypeInv, RestoringSet
<1>2. PICK p \in r.todo : Become(c, skip(p)) \/ Become(c, take(p))
  BY DEF checkOverwrite
<1>3. r.todo \subseteq DOMAIN r.snap /\ p \in Paths
  BY <1>1 DEF RestoringSet, RestoringShape
<1>4. skip(p) \in RestoringSet
  <2>1. skip(p) \in RestoringShape /\ skip(p).todo = r.todo \ {p} /\ skip(p).snap = r.snap
    BY <1>1 DEF RestoringShape
  <2> HIDE DEF skip
  <2> QED
    BY <1>3, <2>1 DEF RestoringSet
<1>5. take(p) \in Writing
  <2>1. /\ take(p) \in WritingShape /\ take(p).todo = r.todo \ {p} /\ take(p).snap = r.snap
        /\ take(p).path = p /\ take(p).tmp = {}
    BY <1>1, <1>3 DEF RestoringShape, WritingShape
  <2> HIDE DEF take
  <2> QED
    BY <1>2, <1>3, <2>1 DEF Writing
<1> HIDE DEF skip, take
<1>6. req' \in [Clients -> Requests] /\ req'[c] \in Calm
  BY <1>2, <1>4, <1>5, KindsAreRequests, BecomeTyped
<1> QED
  BY <1>6 DEF TypeInv, checkOverwrite, tree, outputs, bounds

(* The request of a restore between two files. *)
LEMMA AfterFileTyped ==
    ASSUME NEW r \in Writing
    PROVE  /\ AfterFile(r) \in RestoringSet /\ AfterFile(r) \in RestoringShape
           /\ AfterFile(r).todo = r.todo /\ AfterFile(r).snap = r.snap /\ AfterFile(r).built = r.built
<1> DEFINE u == AfterFile(r)
<1>1. r \in WritingShape /\ r.todo \subseteq DOMAIN r.snap
  BY DEF Writing
<1>2. u \in RestoringShape /\ u.todo = r.todo /\ u.snap = r.snap /\ u.built = r.built
  BY <1>1 DEF WritingShape, RestoringShape, AfterFile
<1> HIDE DEF u
<1>3. u \in RestoringSet
  BY <1>1, <1>2 DEF RestoringSet
<1> QED
  BY <1>2, <1>3 DEF u

(* The content a restore is writing, and its chunks. *)
LEMMA WritingFacts ==
    ASSUME NEW r \in Writing
    PROVE  /\ r \in WritingShape /\ r.path \in Paths
           /\ r.snap[r.path].content \in Content
           /\ Chunks(r.snap[r.path].content) \subseteq Nat \X Nat
           /\ r.tmp \subseteq Chunks(r.snap[r.path].content)
<1>1. r \in WritingShape /\ r.path \in DOMAIN r.snap /\ r.tmp \subseteq Chunks(r.snap[r.path].content)
  BY DEF Writing
<1>2. r.path \in Paths /\ r.snap \in Snapshots
  BY <1>1 DEF WritingShape
<1>3. r.snap[r.path] \in Record
  BY <1>1, <1>2, SnapshotFacts
<1>4. r.snap[r.path].content \in Content
  BY <1>3 DEF Record
<1>5. ASSUME NEW k \in Content PROVE Chunks(k) \subseteq Nat \X Nat
  BY DEF Chunks, Content
<1> QED
  BY <1>1, <1>2, <1>4, <1>5

LEMMA loadChunkTyped ==
    ASSUME TypeInv, NEW c \in Clients, loadChunk(c)
    PROVE  TypeInv' /\ req'[c] \in Calm
<1> DEFINE r == req[c]
           todo == Unfinished(r)
           ch == CHOOSE x \in todo : \A y \in todo : x[2] <= y[2]
           u == [r EXCEPT !.tmp = @ \cup {ch}]
<1>1. r \in Writing
  BY RequestKinds DEF loadChunk, TypeInv
<1>2. todo # {} /\ (Become(c, u) \/ Become(c, AfterFile(r)) \/ Become(c, Idle))
  BY DEF loadChunk
<1>3. todo \subseteq Chunks(r.snap[r.path].content) /\ todo \subseteq Nat \X Nat
  BY <1>1, WritingFacts DEF Unfinished
<1> HIDE DEF todo
<1>4. ch \in todo
  <2> DEFINE at == {x[2] : x \in todo}
  <2>1. at \subseteq Nat /\ at # {}
    BY <1>2, <1>3
  <2> HIDE DEF at
  <2>2. PICK j \in at : \A k \in at : j <= k
    BY <2>1, LeastElement
  <2>3. \E x \in todo : \A y \in todo : x[2] <= y[2]
    BY <2>2 DEF at
  <2> QED
    BY <2>3
<1> HIDE DEF ch
<1>5. u \in Writing
  <2>1. /\ u \in WritingShape /\ u.todo = r.todo /\ u.snap = r.snap /\ u.path = r.path
        /\ u.tmp = r.tmp \cup {ch}
    BY <1>1, <1>3, <1>4, WritingFacts DEF WritingShape
  <2> HIDE DEF u
  <2>2. u.tmp \subseteq Chunks(u.snap[u.path].content)
    BY <1>1, <1>3, <1>4, <2>1, WritingFacts
  <2>3. u.todo \subseteq DOMAIN u.snap /\ u.path \in DOMAIN u.snap
    BY <1>1, <2>1 DEF Writing
  <2> QED
    BY <2>1, <2>2, <2>3 DEF Writing
<1> HIDE DEF u
<1>6. req' \in [Clients -> Requests] /\ req'[c] \in Calm
  BY <1>1, <1>2, <1>5, AfterFileTyped, IdleIsARequest, KindsAreRequests, BecomeTyped
<1> QED
  BY <1>6 DEF TypeInv, loadChunk, tree, outputs, bounds

(* The file a restore has finished is whole. *)
LEMMA FinishedIsWhole ==
    ASSUME NEW r \in Writing, Unfinished(r) = {}
    PROVE  [content |-> r.snap[r.path].content, parts |-> r.tmp] \in WholeFiles
<1>1. r.tmp = Chunks(r.snap[r.path].content)
  BY WritingFacts DEF Unfinished
<1>2. r.snap[r.path].content \in Content
  BY WritingFacts
<1> QED
  BY <1>1, <1>2 DEF WholeFiles

LEMMA restoreFileTyped ==
    ASSUME TypeInv, NEW c \in Clients, restoreFile(c)
    PROVE  TypeInv' /\ req'[c] \in Calm
<1> DEFINE r == req[c]
           f == [content |-> r.snap[r.path].content, parts |-> r.tmp]
<1>1. r \in Writing /\ Unfinished(r) = {}
  BY RequestKinds DEF restoreFile, TypeInv
<1>2. f \in WholeFiles
  BY <1>1, FinishedIsWhole
<1>3. out' \in {out, [out EXCEPT ![r.path] = f], [out EXCEPT ![r.path] = None]}
  BY DEF restoreFile
<1>4. Become(c, AfterFile(r)) \/ Become(c, Idle)
  BY DEF restoreFile
<1> HIDE DEF f
<1>5. out' \in [Paths -> WholeFiles \cup {None}]
  BY <1>2, <1>3 DEF TypeInv
<1>6. req' \in [Clients -> Requests] /\ req'[c] \in Calm
  BY <1>1, <1>4, AfterFileTyped, IdleIsARequest, KindsAreRequests, BecomeTyped
<1> QED
  BY <1>5, <1>6 DEF TypeInv, restoreFile, tree, bounds

LEMMA writeZipTyped ==
    ASSUME TypeInv, NEW c \in Clients, writeZip(c)
    PROVE  TypeInv' /\ req'[c] \in Calm
<1> DEFINE r == req[c]
           f == [content |-> r.snap[r.path].content, parts |-> r.tmp]
           a == AfterFile(r)
           u == [a EXCEPT !.built = Extend(@, r.path, f)]
<1>1. r \in Writing /\ Unfinished(r) = {}
  BY RequestKinds DEF writeZip, TypeInv
<1>2. f \in WholeFiles
  BY <1>1, FinishedIsWhole
<1>3. Become(c, u)
  BY DEF writeZip
<1> HIDE DEF f
<1>4. a \in RestoringSet /\ a \in RestoringShape
  BY <1>1, AfterFileTyped
<1> HIDE DEF a
<1>5. Extend(a.built, r.path, f) \in Archives
  <2>1. a.built \in Archives
    BY <1>4 DEF RestoringShape
  <2> QED
    BY <1>1, <1>2, <2>1, WritingFacts, ArchiveFacts
<1>6. u \in RestoringSet
  <2>1. u \in RestoringShape /\ u.todo = a.todo /\ u.snap = a.snap
    BY <1>4, <1>5 DEF RestoringShape
  <2> HIDE DEF u
  <2> QED
    BY <1>4, <2>1 DEF RestoringSet
<1> HIDE DEF u
<1>7. req' \in [Clients -> Requests] /\ req'[c] \in Calm
  BY <1>3, <1>6, KindsAreRequests, BecomeTyped
<1> QED
  BY <1>7 DEF TypeInv, writeZip, tree, outputs, bounds

LEMMA ExportDoneTyped ==
    ASSUME TypeInv, NEW c \in Clients, ExportDone(c)
    PROVE  TypeInv' /\ req'[c] \in Calm
<1>1. req[c] \in RestoringShape
  BY RequestKinds DEF ExportDone, TypeInv, RestoringSet
<1>2. archive' \in Archives \cup {None}
  BY <1>1 DEF ExportDone, TypeInv, RestoringShape
<1>3. req' \in [Clients -> Requests] /\ req'[c] \in Calm
  BY IdleIsARequest, BecomeTyped DEF ExportDone
<1> QED
  BY <1>2, <1>3 DEF TypeInv, ExportDone, tree, bounds

(* What a peer's edit puts into the index, and under which generation. *)
LEMMA PeerRecord ==
    ASSUME TypeInv, NEW p \in Paths, NEW n \in 1..MaxLen, PeerPut(p, n)
    PROVE  \E k \in Content : \E g \in Nat : \E new \in Record :
              /\ k.len = n /\ new.gen = g /\ new.content = k
              /\ files' = [files EXCEPT ![p] = new]
              /\ generation' \in Nat /\ g <= generation'
              /\ \/ /\ generation' = generation /\ twins' = twins \cup {<<p, Etag(p, g, n)>>}
                 \/ g = generation + 1 /\ generation' = g /\ twins' = twins
<1> DEFINE k == [id |-> contents + 1, len |-> n]
           new(g) == [gen |-> g, content |-> k, size |-> n]
<1>1. k \in Content /\ k.len = n /\ n \in Nat
  BY DavAssumption DEF Content, TypeInv
<1>2. files[p] \in Record /\ files[p].gen \in Nat /\ generation \in Nat
  <2>1. files[p] \in Record
    BY PathsInTree DEF PeerPut, IsFile, TypeInv
  <2> QED
    BY <2>1 DEF Record, TypeInv
<1>3. PICK g \in files[p].gen..generation + 1 :
         /\ files' = [files EXCEPT ![p] = new(g)]
         /\ IF g <= generation
            THEN twins' = twins \cup {<<p, Etag(p, g, n)>>} /\ UNCHANGED generation
            ELSE generation' = g /\ UNCHANGED twins
  BY DEF PeerPut
<1> HIDE DEF k
<1>4. g \in Nat /\ g <= generation + 1
  BY <1>2
<1>5. new(g) \in Record /\ new(g).gen = g /\ new(g).content = k
  BY <1>1, <1>4 DEF Record
<1> HIDE DEF new
<1>6. /\ generation' \in Nat /\ g <= generation'
      /\ \/ /\ generation' = generation /\ twins' = twins \cup {<<p, Etag(p, g, n)>>}
         \/ g = generation + 1 /\ generation' = g /\ twins' = twins
  BY <1>2, <1>3, <1>4
<1> QED
  BY <1>1, <1>3, <1>4, <1>5, <1>6

LEMMA SyncTyped ==
    ASSUME TypeInv, Sync
    PROVE  TypeInv'
<1>1. CASE ChunkGoes
  BY <1>1 DEF TypeInv, ChunkGoes, tree, outputs
<1>2. CASE ChunkArrives
  BY <1>2 DEF TypeInv, ChunkArrives, tree, outputs, bounds
<1>3. ASSUME NEW p \in Paths, NEW n \in 1..MaxLen, PeerPut(p, n)
      PROVE  TypeInv'
  <2>1. contents + 1 \in Nat /\ files \in [Tree -> Record \cup {None}]
    BY DEF TypeInv
  <2>2. generation' \in Nat /\ files' \in [Tree -> Record \cup {None}]
    BY <1>3, <2>1, PeerRecord
  <2> QED
    BY <1>3, <2>1, <2>2 DEF TypeInv, PeerPut, outputs
<1> QED
  BY <1>1, <1>2, <1>3 DEF Sync

LEMMA TypeInit == DavInit => TypeInv
<1> SUFFICES ASSUME DavInit PROVE TypeInv
  OBVIOUS
<1>1. PICK S \in InitialTrees : files = Found(S) /\ generation = Cardinality(DOMAIN S)
  BY DEF DavInit
<1>2. IsFiniteSet(DOMAIN S) /\ Cardinality(DOMAIN S) \in Nat
  <2>1. DOMAIN S \subseteq UNION {DOMAIN T : T \in InitialTrees}
    BY <1>1
  <2>2. IsFiniteSet(DOMAIN S)
    BY <2>1, TreeAssumption, FS_Subset
  <2> QED
    BY <2>2, FS_CardinalityType
<1>3. contents \in Nat
  BY TreeAssumption, FS_CardinalityType DEF DavInit
<1>4. files \in [Tree -> Record \cup {None}]
  <2>1. \A p \in DOMAIN S :
           [gen |-> S[p], content |-> [id |-> S[p], len |-> MaxLen], size |-> MaxLen] \in Record
    BY <1>2, TreeAssumption, DavAssumption DEF Record, Content
  <2>2. MarkerRecord \in Record
    BY DavAssumption DEF MarkerRecord, Record, Content, Empty
  <2>3. \A p \in Tree : Found(S)[p] \in Record \cup {None}
    BY <2>1, <2>2 DEF Found
  <2> QED
    BY <1>1, <2>3 DEF Found
<1> QED
  BY <1>1, <1>2, <1>3, <1>4, IdleIsARequest DEF DavInit, TypeInv
--------------------------------------------------------------------------------
(* Versions. *)

LEMMA QuietVersions ==
    ASSUME TypeInv, TypeInv', VersionInv, UNCHANGED <<generation, twins, got>>,
           \A p \in Tree : files'[p] \in {files[p], None, MarkerRecord},
           \A c \in Clients : req'[c] = req[c] \/ req'[c] \notin Readers
    PROVE  VersionInv'
<1>1. PICK v \in Versions : Versioned(v)
  BY DEF VersionInv
<1>2. \A p \in Tree : FileVersion(v, p, files[p])'
  <2>1. v[0] = Empty /\ generation \in Nat /\ MarkerRecord.gen = 0 /\ MarkerRecord.content = Empty
    BY DEF Versions, TypeInv, MarkerRecord
  <2> SUFFICES ASSUME NEW p \in Tree, files'[p] # None
               PROVE  /\ files'[p].gen <= generation
                      /\ \/ v[files'[p].gen] = files'[p].content
                         \/ Twin(p, files'[p].gen, files'[p].content)
    BY DEF FileVersion, Twin
  <2>2. CASE files'[p] = files[p]
    BY <1>1, <2>2 DEF Versioned, FileVersion
  <2>3. CASE files'[p] = MarkerRecord
    BY <2>1, <2>3
  <2> QED
    BY <2>2, <2>3
<1>3. \A c \in Clients : ReaderVersion(v, req[c])' /\ DownloadVersion(v, got[c])'
  BY <1>1 DEF Versioned, ReaderVersion, DownloadVersion, Readers, etagForReader
<1>4. \A c \in Clients : Labelled(req[c], got[c])'
  BY DEF VersionInv, Labelled, Readers, etagForReader
<1>5. Versioned(v)'
  BY <1>2, <1>3 DEF Versioned
<1> QED
  BY <1>1, <1>4, <1>5 DEF VersionInv

(* One new record: under a new generation, or a twin. *)
LEMMA EditVersions ==
    ASSUME TypeInv, TypeInv', VersionInv, NEW p, NEW new \in Record,
           files' = [files EXCEPT ![p] = new], twins \subseteq twins',
           \/ generation' = generation + 1 /\ new.gen = generation + 1
           \/ /\ generation' = generation /\ new.gen <= generation
              /\ <<p, Etag(p, new.gen, new.content.len)>> \in twins',
           UNCHANGED got,
           \A c \in Clients : req'[c] = req[c] \/ req'[c] \notin Readers
    PROVE  VersionInv'
<1>1. PICK v \in Versions : Versioned(v)
  BY DEF VersionInv
<1>2. /\ generation \in Nat /\ generation' \in Nat /\ v \in [Nat -> Content] /\ v[0] = Empty
      /\ new.gen \in Nat /\ new.content \in Content /\ generation <= generation'
      /\ new.gen <= generation'
  BY <1>1 DEF TypeInv, Versions, Record
<1>3. PICK w \in Versions :
         /\ \/ w[new.gen] = new.content
            \/ <<p, Etag(p, new.gen, new.content.len)>> \in twins'
         /\ \A g \in Nat : g <= generation => w[g] = v[g]
  <2>1. CASE new.gen = generation + 1
    <3> DEFINE x == [v EXCEPT ![generation + 1] = new.content]
    <3>1. /\ x \in Versions /\ x[new.gen] = new.content
          /\ \A g \in Nat : g <= generation => x[g] = v[g]
      BY <1>2, <2>1 DEF Versions
    <3> QED
      BY <3>1
  <2>2. CASE <<p, Etag(p, new.gen, new.content.len)>> \in twins'
    BY <2>2
  <2> QED
    BY <2>1, <2>2
<1>4. \A q \in Tree : FileVersion(w, q, files[q])'
  <2> SUFFICES ASSUME NEW q \in Tree, files'[q] # None
               PROVE  /\ files'[q].gen <= generation'
                      /\ \/ w[files'[q].gen] = files'[q].content
                         \/ <<q, Etag(q, files'[q].gen, files'[q].content.len)>> \in twins'
    BY DEF FileVersion, Twin, Etag
  <2>1. DOMAIN files = Tree /\ (files[q] # None => files[q] \in Record)
    BY DEF TypeInv
  <2>2. CASE q = p
    <3>1. files'[q] = new
      BY <2>1, <2>2
    <3> QED
      BY <1>2, <1>3, <2>2, <3>1
  <2>3. CASE q # p
    <3>1. files'[q] = files[q]
      BY <2>1, <2>3
    <3>2. /\ files[q].gen \in Nat /\ files[q].gen <= generation
          /\ v[files[q].gen] = files[q].content \/ Twin(q, files[q].gen, files[q].content)
      BY <1>1, <2>1, <3>1 DEF Versioned, FileVersion, Record
    <3> QED
      BY <1>2, <1>3, <3>1, <3>2 DEF Twin
  <2> QED
    BY <2>2, <2>3
<1>5. \A c \in Clients : ReaderVersion(w, req[c])'
  <2> SUFFICES ASSUME NEW c \in Clients, req'[c] \in Reading
               PROVE  /\ req'[c].reader.gen <= generation'
                      /\ \/ w[req'[c].reader.gen] = req'[c].reader.content
                         \/ <<req'[c].path, etagForReader(req'[c])>> \in twins'
    BY DEF ReaderVersion, etagForReader
  <2>1. req'[c] = req[c] /\ req[c] \in Reading
    BY DEF Readers
  <2>2. req[c].reader.gen \in Nat
    BY <2>1, ReadingFacts
  <2>3. /\ req[c].reader.gen <= generation
        /\ \/ v[req[c].reader.gen] = req[c].reader.content
           \/ <<req[c].path, etagForReader(req[c])>> \in twins
    BY <1>1, <2>1 DEF Versioned, ReaderVersion
  <2> QED
    BY <1>2, <1>3, <2>1, <2>2, <2>3
<1>6. \A c \in Clients : DownloadVersion(w, got[c])'
  <2> SUFFICES ASSUME NEW c \in Clients, got[c] \in Downloads
               PROVE  /\ got[c].etag[2] <= generation'
                      /\ \/ <<got[c].path, got[c].etag>> \in twins'
                         \/ \A i \in DOMAIN got[c].parts : got[c].parts[i] = w[got[c].etag[2]]
    BY DEF DownloadVersion
  <2>1. got[c].etag[2] \in Nat
    BY DEF Downloads
  <2>2. /\ got[c].etag[2] <= generation
        /\ \/ <<got[c].path, got[c].etag>> \in twins
           \/ \A i \in DOMAIN got[c].parts : got[c].parts[i] = v[got[c].etag[2]]
    BY <1>1 DEF Versioned, DownloadVersion
  <2> QED
    BY <1>2, <1>3, <2>1, <2>2
<1>7. \A c \in Clients : Labelled(req[c], got[c])'
  BY DEF VersionInv, Labelled, Readers, etagForReader
<1>8. Versioned(w)'
  BY <1>4, <1>5, <1>6 DEF Versioned
<1> QED
  BY <1>3, <1>7, <1>8 DEF VersionInv

LEMMA CommitVersions ==
    ASSUME TypeInv, TypeInv', VersionInv, NEW p, NEW k \in Content, NEW size \in Nat,
           Commit(p, k, size), UNCHANGED got,
           \A c \in Clients : req'[c] = req[c] \/ req'[c] \notin Readers
    PROVE  VersionInv'
<1> DEFINE new == [gen |-> generation + 1, content |-> k, size |-> size]
<1>1. new \in Record /\ new.gen = generation + 1
  BY DEF Record, TypeInv
<1>2. files' = [files EXCEPT ![p] = new] /\ twins' = twins /\ generation' = generation + 1
  BY DEF Commit
<1> HIDE DEF new
<1> QED
  BY <1>1, <1>2, EditVersions

(* A client's step changes no other client's request. *)
LEMMA OwnStep ==
    ASSUME TypeInv, NEW c \in Clients, NEW u, Become(c, u)
    PROVE  \A d \in Clients : d # c => req'[d] = req[d]
BY DEF TypeInv, Become

LEMMA ReaderStep ==
    ASSUME NEW c \in Clients, NEW v \in Versions, Versioned(v), VersionInv,
           UNCHANGED <<files, generation, twins>>,
           \A d \in Clients : d # c => req'[d] = req[d] /\ got'[d] = got[d],
           ReaderVersion(v, req'[c]), DownloadVersion(v, got'[c]), Labelled(req'[c], got'[c])
    PROVE  VersionInv'
<1>1. \A p \in Tree : FileVersion(v, p, files[p])'
  BY DEF Versioned, FileVersion, Twin
<1>2. \A d \in Clients : ReaderVersion(v, req[d])' /\ DownloadVersion(v, got[d])'
  <2> TAKE d \in Clients
  <2>1. CASE d = c
    BY <2>1 DEF ReaderVersion, DownloadVersion, etagForReader
  <2>2. CASE d # c
    BY <2>2 DEF Versioned, ReaderVersion, DownloadVersion, etagForReader
  <2> QED
    BY <2>1, <2>2
<1>3. \A d \in Clients : Labelled(req[d], got[d])'
  <2> TAKE d \in Clients
  <2>1. CASE d = c
    BY <2>1 DEF Labelled, etagForReader
  <2>2. CASE d # c
    BY <2>2 DEF VersionInv, Labelled, etagForReader
  <2> QED
    BY <2>1, <2>2
<1>4. Versioned(v)'
  BY <1>1, <1>2 DEF Versioned
<1> QED
  BY <1>3, <1>4 DEF VersionInv

LEMMA ReaderKinds ==
    /\ Opening \subseteq Readers /\ Reading \subseteq Readers
    /\ Idle \notin Readers /\ Opening \cap Reading = {}
<1>1. Opening \cap Reading = {}
  <2>1. Reading \subseteq ReadingShape
    BY DEF Reading
  <2> QED
    BY <2>1 DEF Opening, ReadingShape
<1>2. Idle \notin Readers
  BY IdleIsARequest, SortsDisjoint
<1> QED
  BY <1>1, <1>2 DEF Readers

LEMMA GetVersions ==
    ASSUME TypeInv, VersionInv, NEW c \in Clients, NEW p \in Paths,
           NEW want \in {1..MaxLen} \cup {{i} : i \in 1..MaxLen}, NEW resume \in BOOLEAN,
           handleGet(c, p, want, resume)
    PROVE  VersionInv'
<1>1. PICK v \in Versions : Versioned(v)
  BY DEF VersionInv
<1>2. /\ req'[c] \in Opening
      /\ req'[c].resume => got[c] # None /\ got[c].path = req'[c].path
      /\ UNCHANGED <<files, generation, twins, got>>
  BY handleGetTyped
<1>3. \A d \in Clients : d # c => req'[d] = req[d]
  BY OwnStep DEF handleGet
<1>4. ReaderVersion(v, req'[c]) /\ DownloadVersion(v, got'[c])
  BY <1>1, <1>2, ReaderKinds DEF Versioned, ReaderVersion
<1>5. Labelled(req'[c], got'[c])
  <2>1. got[c] # None => got[c] \in Downloads
    BY DEF TypeInv
  <2> QED
    BY <1>2, <2>1, ReaderKinds DEF Labelled
<1> QED
  BY <1>1, <1>2, <1>3, <1>4, <1>5, ReaderStep

LEMMA ReadVersions ==
    ASSUME TypeInv, VersionInv, NEW c \in Clients,
           openFileReader(c) \/ OpenReaderAt(c) \/ VerifyChunkPresence(c) \/ releaseStream(c)
    PROVE  TypeInv' /\ VersionInv'
<1>1. PICK v \in Versions : Versioned(v)
  BY DEF VersionInv
<1>2. \A d \in Clients : d # c => req'[d] = req[d]
  BY OwnStep DEF openFileReader, OpenReaderAt, VerifyChunkPresence, releaseStream
<1>3. TypeInv' /\ UNCHANGED <<files, generation, twins, got>>
  BY openFileReaderTyped, PresenceTyped, releaseStreamTyped
<1>4. \/ req'[c] = Idle
      \/ /\ req[c] \in Readers /\ req'[c] \in Reading /\ req'[c].pc # "body"
         /\ req'[c].resume = req[c].resume /\ req'[c].path = req[c].path
         /\ \/ req[c] \in Reading /\ req'[c].reader = req[c].reader
            \/ /\ req[c].path \in Tree /\ files[req[c].path] # None
               /\ req'[c].reader = files[req[c].path]
  BY openFileReaderTyped, PresenceTyped, releaseStreamTyped, ReaderKinds, PathsInTree
<1>5. DownloadVersion(v, got'[c])
  BY <1>1, <1>3 DEF Versioned
<1>6. CASE req'[c] = Idle
  <2>1. ReaderVersion(v, req'[c]) /\ Labelled(req'[c], got'[c])
    BY <1>6, ReaderKinds DEF ReaderVersion, Labelled
  <2> QED
    BY <1>1, <1>2, <1>3, <1>5, <2>1, ReaderStep
<1>7. CASE req'[c] # Idle
  <2>1. ReaderVersion(v, req'[c])
    BY <1>1, <1>4, <1>7 DEF Versioned, ReaderVersion, FileVersion, Twin, etagForReader
  <2>2. Labelled(req[c], got[c])
    BY DEF VersionInv
  <2>3. Labelled(req'[c], got'[c])
    BY <1>3, <1>4, <1>7, <2>2 DEF Labelled
  <2> QED
    BY <1>1, <1>2, <1>3, <1>5, <2>1, <2>3, ReaderStep
<1> QED
  BY <1>3, <1>6, <1>7

LEMMA ServeVersions ==
    ASSUME TypeInv, VersionInv, NEW c \in Clients, ServeContent(c)
    PROVE  VersionInv'
<1>1. PICK v \in Versions : Versioned(v)
  BY DEF VersionInv
<1>2. \A d \in Clients : d # c => req'[d] = req[d] /\ got'[d] = got[d]
  BY OwnStep, ServeContentTyped DEF ServeContent
<1>3. /\ req[c] \in Reading /\ UNCHANGED <<files, generation, twins>>
      /\ \/ req'[c] = Idle /\ got' = got
         \/ /\ req'[c] \in Reading /\ req'[c].reader = req[c].reader
            /\ req'[c].resume = req[c].resume /\ req'[c].path = req[c].path
            /\ \/ got' = got /\ req[c].resume /\ got[c].etag = etagForReader(req[c])
               \/ /\ got'[c] \in Downloads /\ got'[c].etag = etagForReader(req[c])
                  /\ got'[c].path = req[c].path /\ DOMAIN got'[c].parts = {}
  BY ServeContentTyped
<1>4. /\ etagForReader(req[c])[2] = req[c].reader.gen
      /\ req'[c].path = req[c].path /\ req'[c].reader = req[c].reader =>
            etagForReader(req'[c]) = etagForReader(req[c])
  BY DEF etagForReader, Etag
<1>5. /\ ReaderVersion(v, req[c]) /\ DownloadVersion(v, got[c]) /\ Labelled(req[c], got[c])
  BY <1>1 DEF Versioned, VersionInv
<1>6. CASE req'[c] = Idle /\ got' = got
  <2>1. ReaderVersion(v, req'[c]) /\ Labelled(req'[c], got'[c])
    BY <1>6, ReaderKinds DEF ReaderVersion, Labelled
  <2> QED
    BY <1>1, <1>2, <1>3, <1>5, <1>6, <2>1, ReaderStep
<1>7. CASE req'[c] # Idle
  <2>1. ReaderVersion(v, req'[c])
    BY <1>3, <1>4, <1>5, <1>7 DEF ReaderVersion
  <2>2. got'[c] \in Downloads /\ got'[c].path = req[c].path /\ got'[c].etag = etagForReader(req[c])
    BY <1>3, <1>5, <1>7, ReaderKinds DEF Labelled
  <2>3. DownloadVersion(v, got'[c])
    BY <1>3, <1>4, <1>5, <1>7 DEF DownloadVersion, ReaderVersion
  <2>4. Labelled(req'[c], got'[c])
    BY <1>3, <1>4, <1>7, <2>2 DEF Labelled
  <2> QED
    BY <1>1, <1>2, <1>3, <2>1, <2>3, <2>4, ReaderStep
<1> QED
  BY <1>3, <1>6, <1>7, ReaderKinds

LEMMA BodyVersions ==
    ASSUME TypeInv, VersionInv, NEW c \in Clients, chunkAtLocked(c)
    PROVE  TypeInv' /\ VersionInv'
<1>1. PICK v \in Versions : Versioned(v)
  BY DEF VersionInv
<1>2. /\ ReaderVersion(v, req[c]) /\ DownloadVersion(v, got[c]) /\ Labelled(req[c], got[c])
  BY <1>1 DEF Versioned, VersionInv
<1>3. /\ TypeInv' /\ req[c] \in Reading /\ req[c].pc = "body" /\ got[c] \in Downloads
      /\ \/ req'[c] = Idle
         \/ /\ req'[c] \in Reading /\ req'[c].reader = req[c].reader
            /\ req'[c].resume = req[c].resume /\ req'[c].path = req[c].path
      /\ got'[c] \in Downloads /\ got'[c].etag = got[c].etag /\ got'[c].path = got[c].path
      /\ \A i \in DOMAIN got'[c].parts :
            \/ i \in DOMAIN got[c].parts /\ got'[c].parts[i] = got[c].parts[i]
            \/ got'[c].parts[i] = req[c].reader.content
      /\ \A d \in Clients : d # c => got'[d] = got[d]
      /\ UNCHANGED <<files, generation, twins>>
  BY <1>2, chunkAtLockedTyped
<1>4. \A d \in Clients : d # c => req'[d] = req[d]
  BY OwnStep DEF chunkAtLocked
<1>5. /\ got[c].etag = etagForReader(req[c]) /\ got[c].path = req[c].path
      /\ got[c].etag[2] = req[c].reader.gen
      /\ req'[c].path = req[c].path /\ req'[c].reader = req[c].reader =>
            etagForReader(req'[c]) = etagForReader(req[c])
  BY <1>2, <1>3 DEF Labelled, etagForReader, Etag
<1>6. ReaderVersion(v, req'[c])
  BY <1>2, <1>3, <1>5, ReaderKinds DEF ReaderVersion
<1>7. DownloadVersion(v, got'[c])
  BY <1>2, <1>3, <1>5 DEF DownloadVersion, ReaderVersion
<1>8. Labelled(req'[c], got'[c])
  BY <1>3, <1>5, ReaderKinds DEF Labelled
<1>9. VersionInv'
  BY <1>1, <1>3, <1>4, <1>6, <1>7, <1>8, ReaderStep
<1> QED
  BY <1>3, <1>9

(* A step of one client that reads no file: either it commits one record, or   *)
(* it removes entries and adds markers.                                        *)
LEMMA QuietStep ==
    ASSUME TypeInv, TypeInv', VersionInv, NEW c \in Clients, req'[c] \notin Readers,
           \A d \in Clients : d # c => req'[d] = req[d], UNCHANGED got,
           \/ /\ UNCHANGED <<generation, twins>>
              /\ \A p \in Tree : files'[p] \in {files[p], None, MarkerRecord}
           \/ \E p : \E k \in Content, size \in Nat : Commit(p, k, size)
    PROVE  VersionInv'
<1>1. \A d \in Clients : req'[d] = req[d] \/ req'[d] \notin Readers
  OBVIOUS
<1>2. CASE /\ UNCHANGED <<generation, twins>>
           /\ \A p \in Tree : files'[p] \in {files[p], None, MarkerRecord}
  BY <1>1, <1>2, QuietVersions
<1>3. CASE \E p : \E k \in Content, size \in Nat : Commit(p, k, size)
  BY <1>1, <1>3, CommitVersions
<1> QED
  BY <1>2, <1>3

LEMMA EnsureEntries ==
    ASSUME TypeInv, NEW p, EnsureDirectory(p)
    PROVE  \A q \in Tree : \/ files'[q] = files[q]
                           \/ files[q] = None /\ files'[q] = MarkerRecord
BY DEF TypeInv, EnsureDirectory

LEMMA NotReaders ==
    ASSUME NEW r
    PROVE  r \in Calm \cup Exclusive => r \notin Readers
BY SortsDisjoint

LEMMA ExclusiveKinds ==
    /\ Making \subseteq Exclusive /\ Clearing \subseteq Exclusive /\ Copying \subseteq Exclusive
    /\ CopyingFile \subseteq Exclusive /\ Moving \subseteq Exclusive
BY DEF Exclusive

LEMMA RequestVersions ==
    ASSUME TypeInv, VersionInv, NEW c \in Clients, Request(c)
    PROVE  TypeInv' /\ VersionInv'
<1>1. PICK p \in Paths :
         \/ \E n \in 1..MaxLen :
               handlePut(c, p, n) \/ cmdPut(c, p, n) \/ PutDirectoryContents(c, p, n)
         \/ handleDelete(c, p) \/ cmdRemove(c, p)
         \/ handleMkcol(c, p)
         \/ \E dst \in Paths, move, overwrite, depth0 \in BOOLEAN :
               handleCopyMove(c, p, dst, move, overwrite, depth0)
         \/ \E want \in {1..MaxLen} \cup {{i} : i \in 1..MaxLen}, resume \in BOOLEAN :
               handleGet(c, p, want, resume)
         \/ cmdGet(c, p) \/ \E zip, replace \in BOOLEAN : cmdExport(c, p, zip, replace)
  BY DEF Request
<1>2. ASSUME NEW n \in 1..MaxLen,
             handlePut(c, p, n) \/ cmdPut(c, p, n) \/ PutDirectoryContents(c, p, n)
      PROVE  TypeInv' /\ VersionInv'
  <2>1. TypeInv' /\ req'[c] \in Calm
    BY <1>2, handlePutTyped, PutPathTyped
  <2>2. UNCHANGED <<files, generation, twins, got>>
    BY <1>2 DEF handlePut, cmdPut, PutPath, putViaRsync, PutPathReport, PutDirectoryContents,
       Import, tree
  <2>3. \A d \in Clients : d # c => req'[d] = req[d]
    BY <1>2, OwnStep DEF handlePut, cmdPut, PutPath, putViaRsync, PutPathReport,
       PutDirectoryContents, Import
  <2> QED
    BY <2>1, <2>2, <2>3, NotReaders, QuietStep
<1>3. ASSUME handleDelete(c, p) \/ cmdRemove(c, p)
      PROVE  TypeInv' /\ VersionInv'
  <2>1. RemovePath(c, p)
    BY <1>3 DEF handleDelete, cmdRemove
  <2>2. TypeInv' /\ req'[c] \in Calm
    BY <2>1, RemoveTyped
  <2>3. UNCHANGED <<files, generation, twins, got>>
    BY <2>1 DEF RemovePath, tree
  <2>4. \A d \in Clients : d # c => req'[d] = req[d]
    BY <2>1, OwnStep DEF RemovePath
  <2> QED
    BY <2>2, <2>3, <2>4, NotReaders, QuietStep
<1>4. ASSUME handleMkcol(c, p)
      PROVE  TypeInv' /\ VersionInv'
  <2>1. TypeInv'
    BY <1>4, MkcolTyped
  <2>2. UNCHANGED <<generation, twins, got, req>>
    BY <1>4 DEF handleMkcol
  <2>3. \A q \in Tree : files'[q] \in {files[q], None, MarkerRecord}
    BY <1>4, EnsureEntries DEF handleMkcol
  <2> QED
    BY <2>1, <2>2, <2>3, QuietVersions
<1>5. ASSUME NEW dst \in Paths, NEW move \in BOOLEAN, NEW overwrite \in BOOLEAN,
             NEW depth0 \in BOOLEAN, handleCopyMove(c, p, dst, move, overwrite, depth0)
      PROVE  TypeInv' /\ VersionInv'
  <2>1. TypeInv' /\ req'[c] \in Exclusive
    BY <1>5, CopyMoveTyped, ExclusiveKinds
  <2>2. UNCHANGED <<files, generation, twins, got>>
    BY <1>5 DEF handleCopyMove, tree
  <2>3. \A d \in Clients : d # c => req'[d] = req[d]
    BY <1>5, OwnStep DEF handleCopyMove
  <2> QED
    BY <2>1, <2>2, <2>3, NotReaders, QuietStep
<1>6. ASSUME NEW want \in {1..MaxLen} \cup {{i} : i \in 1..MaxLen}, NEW resume \in BOOLEAN,
             handleGet(c, p, want, resume)
      PROVE  TypeInv' /\ VersionInv'
  BY <1>6, handleGetTyped, GetVersions
<1>7. ASSUME NEW zip \in BOOLEAN, NEW replace \in BOOLEAN,
             cmdGet(c, p) \/ cmdExport(c, p, zip, replace)
      PROVE  TypeInv' /\ VersionInv'
  <2>1. TypeInv' /\ req'[c] \in Calm
    BY <1>7, RestoreTyped
  <2>2. UNCHANGED <<files, generation, twins, got>>
    BY <1>7 DEF cmdGet, GetPath, cmdExport, ExportPath, tree
  <2>3. \A d \in Clients : d # c => req'[d] = req[d]
    BY <1>7, OwnStep DEF cmdGet, GetPath, cmdExport, ExportPath
  <2> QED
    BY <2>1, <2>2, <2>3, NotReaders, QuietStep
<1>8. \E zip \in BOOLEAN : zip = TRUE
  OBVIOUS
<1> QED
  BY <1>1, <1>2, <1>3, <1>4, <1>5, <1>6, <1>7, <1>8

LEMMA WriteVersions ==
    ASSUME TypeInv, VersionInv, NEW c \in Clients,
           PutReader(c) \/ deadlineReader(c) \/ commitFileManifest(c)
    PROVE  TypeInv' /\ VersionInv'
<1>1. UNCHANGED got
  BY DEF PutReader, deadlineReader, commitFileManifest
<1>2. \A d \in Clients : d # c => req'[d] = req[d]
  BY OwnStep DEF PutReader, deadlineReader, commitFileManifest
<1>3. ASSUME PutReader(c) PROVE TypeInv' /\ VersionInv'
  <2>1. Commit(req[c].path, req[c].content, req[c].content.len)
    BY <1>3 DEF PutReader
  <2> QED
    BY <1>1, <1>2, <1>3, <2>1, PutReaderTyped, NotReaders, QuietStep
<1>4. ASSUME deadlineReader(c) PROVE TypeInv' /\ VersionInv'
  <2>1. UNCHANGED <<files, generation, twins>>
    BY <1>4 DEF deadlineReader, tree
  <2> QED
    BY <1>1, <1>2, <1>4, <2>1, deadlineReaderTyped, NotReaders, QuietStep
<1>5. ASSUME commitFileManifest(c) PROVE TypeInv' /\ VersionInv'
  <2>1. \E p : Commit(p, req[c].content, req[c].content.len)
    BY <1>5 DEF commitFileManifest
  <2> QED
    BY <1>1, <1>2, <1>5, <2>1, commitFileManifestTyped, NotReaders, QuietStep
<1> QED
  BY <1>3, <1>4, <1>5

LEMMA TreeVersions ==
    ASSUME TypeInv, VersionInv, NEW c \in Clients,
           \/ commitTombstone(c) \/ RemoveFails(c) \/ copyCollection(c) \/ copyPath(c)
           \/ copyMarker(c) \/ WriteFileTo(c) \/ copyFails(c) \/ copyDone(c)
    PROVE  TypeInv' /\ VersionInv'
<1>1. UNCHANGED got /\ UNCHANGED <<generation, twins>>
  BY DEF commitTombstone, RemoveFails, copyCollection, copyPath, copyMarker, WriteFileTo,
     copyFails, copyDone, tree
<1>2. \A d \in Clients : d # c => req'[d] = req[d]
  <2>1. CASE commitTombstone(c) \/ RemoveFails(c) \/ copyCollection(c) \/ copyPath(c)
    BY <2>1, OwnStep DEF commitTombstone, RemoveFails, copyCollection, copyPath, Answer
  <2>2. CASE copyMarker(c) \/ WriteFileTo(c) \/ copyFails(c) \/ copyDone(c)
    BY <2>2, OwnStep DEF copyMarker, WriteFileTo, copyFails, copyDone, Answer
  <2> QED
    BY <2>1, <2>2
<1>3. TypeInv' /\ req'[c] \notin Readers
  <2>1. CASE commitTombstone(c)
    BY <2>1, commitTombstoneTyped, ExclusiveKinds, NotReaders
  <2>2. CASE RemoveFails(c) \/ copyCollection(c) \/ copyFails(c)
    BY <2>2, RemoveFailsTyped, copyCollectionTyped, copyFailsTyped, NotReaders
  <2>3. CASE copyPath(c) \/ copyMarker(c) \/ WriteFileTo(c) \/ copyDone(c)
    BY <2>3, copyPathTyped, copyMarkerTyped, WriteFileToTyped, copyDoneTyped, IdleIsARequest,
       ExclusiveKinds, NotReaders
  <2> QED
    BY <2>1, <2>2, <2>3
<1>4. \A p \in Tree : files'[p] \in {files[p], None, MarkerRecord}
  <2>1. CASE commitTombstone(c)
    BY <2>1 DEF commitTombstone, TypeInv
  <2>2. CASE RemoveFails(c) \/ WriteFileTo(c) \/ copyFails(c) \/ copyDone(c)
    BY <2>2 DEF RemoveFails, WriteFileTo, copyFails, copyDone, tree
  <2>3. CASE copyCollection(c) \/ copyPath(c) \/ copyMarker(c)
    <3>1. files' = files \/ \E p : EnsureDirectory(p)
      BY <2>3 DEF copyCollection, copyPath, copyMarker
    <3> QED
      BY <3>1, EnsureEntries
  <2> QED
    BY <2>1, <2>2, <2>3
<1> QED
  BY <1>1, <1>2, <1>3, <1>4, QuietStep

LEMMA copyFileVersions ==
    ASSUME TypeInv, VersionInv, NEW c \in Clients, copyFile(c)
    PROVE  TypeInv' /\ VersionInv'
<1>1. /\ TypeInv' /\ req[c] \in CopyingFile /\ req'[c] \in Copying
  BY copyFileTyped
<1>2. req[c].content \in Content /\ req[c].snap[req[c].path].size \in Nat
  <2>1. req[c].snap \in Snapshots /\ req[c].path \in DOMAIN req[c].snap /\ req[c].content \in Content
    BY <1>1 DEF CopyingFile, CopyingFileShape
  <2>2. req[c].snap[req[c].path] \in Record
    BY <2>1, SnapshotFacts
  <2> QED
    BY <2>1, <2>2 DEF Record
<1>3. Commit(DstOf(req[c], req[c].path), req[c].content, req[c].snap[req[c].path].size)
  BY DEF copyFile
<1>4. UNCHANGED got /\ \A d \in Clients : d # c => req'[d] = req[d]
  BY OwnStep DEF copyFile
<1>5. req'[c] \notin Readers
  BY <1>1, ExclusiveKinds, NotReaders
<1> QED
  BY <1>1, <1>2, <1>3, <1>4, <1>5, QuietStep

LEMMA RestoreVersions ==
    ASSUME TypeInv, VersionInv, NEW c \in Clients,
           checkOverwrite(c) \/ loadChunk(c) \/ restoreFile(c) \/ writeZip(c) \/ ExportDone(c)
    PROVE  TypeInv' /\ VersionInv'
<1>1. UNCHANGED <<files, generation, twins, got>>
  BY DEF checkOverwrite, loadChunk, restoreFile, writeZip, ExportDone, tree
<1>2. \A d \in Clients : d # c => req'[d] = req[d]
  BY OwnStep DEF checkOverwrite, loadChunk, restoreFile, writeZip, ExportDone
<1>3. TypeInv' /\ req'[c] \in Calm
  BY checkOverwriteTyped, loadChunkTyped, restoreFileTyped, writeZipTyped, ExportDoneTyped
<1> QED
  BY <1>1, <1>2, <1>3, NotReaders, QuietStep

LEMMA SyncVersions ==
    ASSUME TypeInv, VersionInv, Sync
    PROVE  TypeInv' /\ VersionInv'
<1>1. TypeInv'
  BY SyncTyped
<1>2. CASE ChunkGoes \/ ChunkArrives
  <2>1. UNCHANGED <<files, generation, twins, req, got>>
    BY <1>2 DEF ChunkGoes, ChunkArrives, tree
  <2> QED
    BY <1>1, <2>1, QuietVersions
<1>3. ASSUME NEW p \in Paths, NEW n \in 1..MaxLen, PeerPut(p, n)
      PROVE  VersionInv'
  <2>1. UNCHANGED <<req, got>>
    BY <1>3 DEF PeerPut
  <2>2. PICK new \in Record :
           /\ files' = [files EXCEPT ![p] = new] /\ new.content.len = n /\ new.gen <= generation'
           /\ \/ /\ generation' = generation /\ twins' = twins \cup {<<p, Etag(p, new.gen, n)>>}
              \/ new.gen = generation + 1 /\ generation' = new.gen /\ twins' = twins
    BY <1>3, PeerRecord
  <2>3. /\ twins \subseteq twins'
        /\ \/ generation' = generation + 1 /\ new.gen = generation + 1
           \/ /\ generation' = generation /\ new.gen <= generation
              /\ <<p, Etag(p, new.gen, new.content.len)>> \in twins'
    BY <2>2
  <2> QED
    BY <1>1, <2>1, <2>2, <2>3, EditVersions
<1> QED
  BY <1>1, <1>2, <1>3 DEF Sync

LEMMA VersionStep ==
    ASSUME TypeInv, VersionInv, [DavNext]_vars
    PROVE  TypeInv' /\ VersionInv'
<1>1. CASE UNCHANGED vars \/ presenceTTL
  <2>1. UNCHANGED <<files, generation, twins, req, got, contents, out, archive>>
    BY <1>1 DEF vars, presenceTTL, tree, outputs, bounds
  <2>2. TypeInv'
    BY <2>1 DEF TypeInv
  <2> QED
    BY <2>1, <2>2, QuietVersions
<1>2. CASE Sync
  BY <1>2, SyncVersions
<1>3. ASSUME NEW c \in Clients, Request(c) PROVE TypeInv' /\ VersionInv'
  BY <1>3, RequestVersions
<1>4. ASSUME NEW c \in Clients, Step(c) PROVE TypeInv' /\ VersionInv'
  <2>1. CASE PutReader(c) \/ deadlineReader(c) \/ commitFileManifest(c)
    BY <2>1, WriteVersions
  <2>2. CASE \/ commitTombstone(c) \/ RemoveFails(c) \/ copyCollection(c) \/ copyPath(c)
             \/ copyMarker(c) \/ WriteFileTo(c) \/ copyFails(c) \/ copyDone(c)
    BY <2>2, TreeVersions
  <2>3. CASE copyFile(c)
    BY <2>3, copyFileVersions
  <2>4. CASE openFileReader(c) \/ OpenReaderAt(c) \/ VerifyChunkPresence(c) \/ releaseStream(c)
    BY <2>4, ReadVersions
  <2>5. CASE ServeContent(c)
    BY <2>5, ServeContentTyped, ServeVersions
  <2>6. CASE chunkAtLocked(c)
    BY <2>6, BodyVersions
  <2>7. CASE checkOverwrite(c) \/ loadChunk(c) \/ restoreFile(c) \/ writeZip(c) \/ ExportDone(c)
    BY <2>7, RestoreVersions
  <2> QED
    BY <1>4, <2>1, <2>2, <2>3, <2>4, <2>5, <2>6, <2>7 DEF Step
<1> QED
  BY <1>1, <1>2, <1>3, <1>4 DEF DavNext

(* At opening, the generation of a file identifies its content. *)
LEMMA VersionInit == DavInit => VersionInv
<1> SUFFICES ASSUME DavInit PROVE VersionInv
  OBVIOUS
<1>1. PICK S \in InitialTrees : files = Found(S) /\ generation = Cardinality(DOMAIN S)
  BY DEF DavInit
<1>2. generation \in Nat
  BY TypeInit DEF TypeInv
<1> DEFINE v == [g \in Nat |-> IF g = 0 THEN Empty ELSE [id |-> g, len |-> MaxLen]]
<1>3. v \in Versions
  BY DavAssumption DEF Versions, Content, Empty
<1>4. ASSUME NEW p \in Tree, files[p] # None
      PROVE  files[p].gen <= generation /\ v[files[p].gen] = files[p].content
  <2>1. CASE p \in DOMAIN S
    <3>1. S[p] \in Nat /\ S[p] # 0 /\ S[p] <= generation
      BY <1>1, <1>2, <2>1, TreeAssumption
    <3>2. files[p] = [gen |-> S[p], content |-> [id |-> S[p], len |-> MaxLen], size |-> MaxLen]
      BY <1>1, <2>1 DEF Found
    <3> QED
      BY <3>1, <3>2
  <2>2. CASE p \notin DOMAIN S
    <3>1. files[p] = MarkerRecord
      BY <1>1, <1>4, <2>2 DEF Found
    <3> QED
      BY <1>2, <3>1 DEF MarkerRecord
  <2> QED
    BY <2>1, <2>2
<1> HIDE DEF v
<1>5. \A c \in Clients : req[c] = Idle /\ got[c] = None
  BY DEF DavInit
<1>6. None \notin Downloads
  BY TreeAssumption
<1>7. Versioned(v)
  BY <1>4, <1>5, <1>6, ReaderKinds DEF Versioned, FileVersion, ReaderVersion, DownloadVersion
<1>8. \A c \in Clients : Labelled(req[c], got[c])
  BY <1>5, ReaderKinds DEF Labelled
<1> QED
  BY <1>3, <1>7, <1>8 DEF VersionInv
--------------------------------------------------------------------------------
(* TypeCorrect.  Every request, index entry, download, restored file and       *)
(* archive of the model has its shape, for every tree and number of clients; a *)
(* request that copies keeps to the guards handleCopyMove checked when it      *)
(* began (server.go:858-902), and one that restores writes only chunks of the  *)
(* record its snapshot names (vault.go:1047, export.go:342).  And there is one *)
(* content per generation, of which every record, open reader and download is  *)
(* a part, but for the edits of peers under a generation known here already.   *)
THEOREM TypeCorrect == DavSpec => [](TypeInv /\ VersionInv)
<1>1. DavInit => TypeInv /\ VersionInv
  BY TypeInit, VersionInit
<1>2. TypeInv /\ VersionInv /\ [DavNext]_vars => (TypeInv /\ VersionInv)'
  BY VersionStep
<1> QED
  BY <1>1, <1>2, PTL DEF DavSpec

LEMMA VersionsNotStitched == TypeInv /\ VersionInv => NoStitchedFile
<1> SUFFICES ASSUME TypeInv, VersionInv PROVE NoStitchedFile
  OBVIOUS
<1>1. PICK v \in Versions : Versioned(v)
  BY DEF VersionInv
<1>2. ASSUME NEW c \in Clients, got[c] # None,
             NEW i \in DOMAIN got[c].parts, NEW j \in DOMAIN got[c].parts
      PROVE  \/ got[c].parts[i] = got[c].parts[j]
             \/ <<got[c].path, got[c].etag>> \in twins
  <2>1. got[c] \in Downloads
    BY <1>2 DEF TypeInv
  <2> QED
    BY <1>1, <2>1 DEF Versioned, DownloadVersion
<1>3. \A f \in WholeFiles : Whole(f)
  BY DEF WholeFiles, Whole
<1>4. \A p \in Paths : out[p] # None => Whole(out[p])
  BY <1>3 DEF TypeInv
<1>5. archive # None => \A p \in DOMAIN archive : Whole(archive[p])
  BY <1>3, ArchiveFacts DEF TypeInv
<1> QED
  BY <1>2, <1>4, <1>5 DEF NoStitchedFile

(* NeverStitched.  A download resumed with If-Range, a restored file and a     *)
(* member of an exported ZIP never join bytes of two versions, whatever is     *)
(* written, removed or lost between the snapshot, the opening of the reader    *)
(* and the body (server.go:536-558), with one Server or one per request.  The  *)
(* download is excepted when a peer's edit of its path came with its very size *)
(* and under a generation that was known here already (cache.go:108-117).      *)
THEOREM NeverStitched == DavSpec => []NoStitchedFile
BY TypeCorrect, VersionsNotStitched, PTL
--------------------------------------------------------------------------------
(* Paths: sequences of one or two names. *)

Segments == Names \cup {Leaf, Marker}

LEMMA TreeShape ==
    ASSUME NEW p \in Tree
    PROVE  /\ p \in Seq(Segments) /\ Len(p) \in {1, 2} /\ p[1] \in Names
           /\ p \in Paths /\ Len(p) = 2 => p[2] = Leaf
           /\ p \notin Paths => Len(p) = 2 /\ p[2] = Marker
<1>1. CASE \E n \in Names : p = <<n>>
  <2>1. PICK n \in Names : p = <<n>>
    BY <1>1
  <2>2. p \in Seq(Segments) /\ Len(p) = 1 /\ p[1] = n
    BY <2>1 DEF Segments
  <2>3. p \in Paths
    BY <2>1 DEF Paths
  <2> QED
    BY <2>2, <2>3
<1>2. CASE \E n \in Names : p = <<n, Leaf>>
  <2>1. PICK n \in Names : p = <<n, Leaf>>
    BY <1>2
  <2>2. p \in Seq(Segments) /\ Len(p) = 2 /\ p[1] = n /\ p[2] = Leaf
    BY <2>1 DEF Segments
  <2>3. p \in Paths
    BY <2>1 DEF Paths
  <2> QED
    BY <2>2, <2>3
<1>3. CASE \E n \in Names : p = Append(<<n>>, Marker)
  <2>1. PICK n \in Names : p = Append(<<n>>, Marker)
    BY <1>3
  <2>2. <<n>> \in Seq(Segments) /\ Len(<<n>>) = 1 /\ <<n>>[1] = n /\ Marker \in Segments
    BY DEF Segments
  <2>3. p \in Seq(Segments) /\ Len(p) = 2 /\ p[1] = n /\ p[2] = Marker
    BY <2>1, <2>2, AppendProperties
  <2>4. p \notin Paths
    <3>1. ASSUME NEW m \in Names PROVE p # <<m>> /\ p # <<m, Leaf>>
      <4>1. Len(<<m>>) = 1 /\ <<m, Leaf>>[2] = Leaf
        OBVIOUS
      <4>2. Leaf # Marker
        BY TreeAssumption
      <4> QED
        BY <2>3, <4>1, <4>2
    <3> QED
      BY <3>1 DEF Paths
  <2> QED
    BY <2>3, <2>4
<1> QED
  BY <1>1, <1>2, <1>3 DEF Tree, Paths, MarkerOf

LEMMA PathIffNoMarker ==
    ASSUME NEW p \in Tree
    PROVE  p \in Paths <=> ~IsMarker(p)
<1>1. Marker \notin Names /\ Leaf # Marker
  BY TreeAssumption
<1> QED
  BY <1>1, TreeShape DEF IsMarker, Last

LEMMA PrefixIff ==
    ASSUME NEW s \in Tree, NEW t \in Tree
    PROVE  IsPrefix(s, t) <=> Len(s) <= Len(t) /\ \A i \in 1..Len(s) : s[i] = t[i]
<1>1. /\ s \in Seq(Segments) /\ t \in Seq(Segments) /\ Len(s) \in Nat /\ Len(t) \in Nat
  BY TreeShape
<1>2. \A i \in 1..Len(s) : s[i] \in Segments
  BY <1>1, ElementOfSeq
<1>3. /\ SubSeq(s, 1, Len(s)) \in Seq(Segments)
      /\ Len(SubSeq(s, 1, Len(s))) = Len(s)
      /\ \A i \in 1..Len(s) : SubSeq(s, 1, Len(s))[i] = s[i]
  <2>1. 1 \in Int /\ Len(s) \in Int /\ Len(s) # 0
    BY TreeShape
  <2> DEFINE u == SubSeq(s, 1, Len(s))
  <2>2. /\ u \in Seq(Segments) /\ Len(u) = IF 1 <= Len(s) THEN Len(s) - 1 + 1 ELSE 0
        /\ \A i \in 1..(Len(s) - 1 + 1) : u[i] = s[1 + i - 1]
    BY <1>2, <2>1, SubSeqProperties
  <2> HIDE DEF u
  <2>3. Len(u) = Len(s) /\ \A i \in 1..Len(s) : u[i] = s[i]
    BY <1>1, <2>1, <2>2
  <2> QED
    BY <2>2, <2>3 DEF u
<1>4. ASSUME Len(s) <= Len(t)
      PROVE  /\ SubSeq(t, 1, Len(s)) \in Seq(Segments)
             /\ Len(SubSeq(t, 1, Len(s))) = Len(s)
             /\ \A i \in 1..Len(s) : SubSeq(t, 1, Len(s))[i] = t[i]
  <2>1. 1 \in Int /\ Len(s) \in Int /\ Len(s) # 0
    BY TreeShape
  <2>2. \A i \in 1..Len(s) : t[i] \in Segments
    BY <1>1, <1>4, ElementOfSeq
  <2> DEFINE u == SubSeq(t, 1, Len(s))
  <2>3. /\ u \in Seq(Segments) /\ Len(u) = IF 1 <= Len(s) THEN Len(s) - 1 + 1 ELSE 0
        /\ \A i \in 1..(Len(s) - 1 + 1) : u[i] = t[1 + i - 1]
    BY <2>1, <2>2, SubSeqProperties
  <2> HIDE DEF u
  <2>4. Len(u) = Len(s) /\ \A i \in 1..Len(s) : u[i] = t[i]
    BY <1>1, <2>1, <2>3
  <2> QED
    BY <2>3, <2>4 DEF u
<1>5. ASSUME IsPrefix(s, t) PROVE Len(s) <= Len(t) /\ \A i \in 1..Len(s) : s[i] = t[i]
  <2>1. Len(s) <= Len(t) /\ SubSeq(s, 1, Len(s)) = SubSeq(t, 1, Len(s))
    BY <1>5 DEF IsPrefix
  <2> QED
    BY <1>3, <1>4, <2>1
<1>6. ASSUME Len(s) <= Len(t), \A i \in 1..Len(s) : s[i] = t[i] PROVE IsPrefix(s, t)
  <2>1. SubSeq(s, 1, Len(s)) = SubSeq(t, 1, Len(s))
    BY <1>3, <1>4, <1>6, SeqEqual
  <2> QED
    BY <1>6, <2>1 DEF IsPrefix
<1> QED
  BY <1>5, <1>6

LEMMA PrefixSelf ==
    ASSUME NEW p \in Tree
    PROVE  IsPrefix(p, p)
<1>1. Len(p) <= Len(p)
  BY TreeShape
<1> QED
  BY <1>1, PrefixIff

(* The place of a copy: its length and names. *)
LEMMA DstShape ==
    ASSUME NEW src \in Paths, NEW dst \in Paths, NEW p \in Tree, Len(src) <= Len(p)
    PROVE  LET q == dst \o SubSeq(p, Len(src) + 1, Len(p)) IN
           /\ Len(q) = Len(dst) + (Len(p) - Len(src))
           /\ \A i \in 1..Len(dst) : q[i] = dst[i]
           /\ \A i \in 1..(Len(p) - Len(src)) : q[Len(dst) + i] = p[Len(src) + i]
           /\ Len(p) = Len(src) => q = dst
<1>1. /\ Len(src) \in {1, 2} /\ Len(dst) \in {1, 2} /\ Len(p) \in {1, 2}
      /\ dst \in Seq(Segments) /\ p \in Seq(Segments)
  BY PathsInTree, TreeShape
<1> DEFINE rest == SubSeq(p, Len(src) + 1, Len(p))
           q == dst \o rest
<1>2. \A i \in (Len(src) + 1)..Len(p) : p[i] \in Segments
  BY <1>1, ElementOfSeq
<1>3. Len(src) + 1 \in Int /\ Len(p) \in Int
  BY <1>1
<1>4. /\ rest \in Seq(Segments)
      /\ Len(rest) = IF Len(src) + 1 <= Len(p) THEN Len(p) - (Len(src) + 1) + 1 ELSE 0
      /\ \A i \in 1..(Len(p) - (Len(src) + 1) + 1) : rest[i] = p[(Len(src) + 1) + i - 1]
  BY <1>2, <1>3, SubSeqProperties
<1>5. Len(p) = Len(src) => rest = << >>
  <2>1. Len(p) = Len(src) => Len(p) < Len(src) + 1
    BY <1>1
  <2> QED
    BY <1>3, <2>1, SubSeqEmpty
<1> HIDE DEF rest
<1>6. Len(rest) = Len(p) - Len(src) /\ \A i \in 1..(Len(p) - Len(src)) : rest[i] = p[Len(src) + i]
  BY <1>1, <1>4
<1>7. /\ Len(q) = Len(dst) + Len(rest)
      /\ \A i \in 1..(Len(dst) + Len(rest)) : q[i] = IF i <= Len(dst) THEN dst[i] ELSE rest[i - Len(dst)]
  <2>1. dst \in Seq(Segments) /\ rest \in Seq(Segments)
    BY <1>1, <1>4
  <2> QED
    BY <2>1, ConcatProperties
<1>8. Len(p) = Len(src) => q = dst
  BY <1>1, <1>5, ConcatEmptySeq
<1> HIDE DEF q
<1>9. \A i \in 1..Len(dst) : q[i] = dst[i]
  BY <1>1, <1>6, <1>7
<1>10. \A i \in 1..(Len(p) - Len(src)) : q[Len(dst) + i] = p[Len(src) + i]
  BY <1>1, <1>6, <1>7
<1>11. Len(q) = Len(dst) + (Len(p) - Len(src))
  BY <1>6, <1>7
<1> QED
  BY <1>8, <1>9, <1>10, <1>11 DEF q, rest

(* A copy of a MOVE lies outside the source, and is a file. *)
LEMMA CopyIsOutside ==
    ASSUME NEW src \in Paths, NEW dst \in Paths, Fits(src, dst), ~IsPrefix(src, dst),
           NEW p \in Area(src), ~IsMarker(p)
    PROVE  LET q == dst \o SubSeq(p, Len(src) + 1, Len(p)) IN q \in Paths \ Area(src)
<1> DEFINE at(x) == dst \o SubSeq(x, Len(src) + 1, Len(x))
           q == at(p)
<1>1. p \in Tree /\ IsPrefix(src, p) /\ p \in Paths /\ src \in Tree /\ dst \in Tree
  BY PathsInTree, PathIffNoMarker DEF Area
<1>2. /\ Len(src) \in {1, 2} /\ Len(dst) \in {1, 2} /\ Len(p) \in {1, 2}
      /\ src[1] \in Names
  BY <1>1, TreeShape
<1>3. Len(src) <= Len(p)
  BY <1>1, PrefixIff
<1>4. q \in Tree
  BY <1>1 DEF Fits
<1>5. /\ Len(q) = Len(dst) + (Len(p) - Len(src))
      /\ \A i \in 1..Len(dst) : q[i] = dst[i]
      /\ \A i \in 1..(Len(p) - Len(src)) : q[Len(dst) + i] = p[Len(src) + i]
      /\ Len(p) = Len(src) => q = dst
  BY <1>1, <1>3, DstShape
<1>6. CASE Len(src) = 2
  <2>0. Len(p) = Len(src)
    <3>1. Len(p) = 1 \/ Len(p) = 2
      BY <1>2
    <3>2. 2 <= Len(p)
      BY <1>3, <1>6
    <3> HIDE DEF q, at
    <3> QED
      BY <1>6, <3>1, <3>2
  <2>1. q = dst
    BY <1>5, <2>0
  <2> HIDE DEF q
  <2>2. q \in Paths \ Area(src)
    BY <2>1 DEF Area
  <2> QED
    BY <2>2 DEF q
<1>7. CASE Len(src) = 1 /\ Len(dst) = 2
  <2>1. PICK z \in Paths : Len(z) = 2 /\ z[1] = src[1]
    <3>1. <<src[1], Leaf>> \in Paths
      BY <1>2 DEF Paths
    <3>2. Len(<<src[1], Leaf>>) = 2 /\ <<src[1], Leaf>>[1] = src[1]
      OBVIOUS
    <3> QED
      BY <3>1, <3>2
  <2>2. z \in Tree
    BY <2>1, PathsInTree
  <2>3. Len(src) <= Len(z) /\ \A i \in 1..Len(src) : src[i] = z[i]
    BY <1>7, <2>1
  <2>4. IsPrefix(src, z)
    BY <1>1, <2>2, <2>3, PrefixIff
  <2>5. at(z) \in Tree
    BY <2>2, <2>4 DEF Fits
  <2>6. Len(at(z)) = Len(dst) + (Len(z) - Len(src))
    BY <2>2, <2>3, DstShape
  <2>7. Len(at(z)) = 3
    BY <1>7, <2>1, <2>6
  <2>8. Len(at(z)) \in {1, 2}
    BY <2>5, TreeShape
  <2> HIDE DEF at
  <2> QED
    BY <2>7, <2>8
<1>8. CASE Len(src) = 1 /\ Len(dst) = 1
  <2>1. dst[1] # src[1]
    BY <1>1, <1>8, PrefixIff
  <2> HIDE DEF q
  <2>2. q[1] # src[1]
    BY <1>5, <1>8, <2>1
  <2>3. ~IsPrefix(src, q)
    BY <1>1, <1>4, <1>8, <2>2, PrefixIff
  <2>4. q \in Paths
    <3>1. CASE Len(p) = 1
      BY <1>4, <1>5, <1>8, <3>1, TreeShape
    <3>2. CASE Len(p) = 2
      <4>1. p[2] = Leaf /\ Leaf # Marker
        BY <1>1, <3>2, TreeShape, TreeAssumption
      <4>2. q[2] = p[2]
        BY <1>5, <1>8, <3>2
      <4> QED
        BY <1>4, <4>1, <4>2, TreeShape
    <3> QED
      BY <1>2, <3>1, <3>2
  <2>5. q \in Paths \ Area(src)
    BY <2>3, <2>4 DEF Area
  <2> QED
    BY <2>5 DEF q
<1> QED
  BY <1>2, <1>6, <1>7, <1>8
--------------------------------------------------------------------------------
(* The mutex. *)

(* What a step of a client does to the mutex of the one Server. *)
Handles(c) == UNCHANGED mu \/ Unlock(c) \/ (mu = None /\ mu' = c)

LEMMA MutexStep ==
    ASSUME MutexInv, NEW c \in Clients, Handles(c),
           \A d \in Clients : d # c => req'[d] = req[d],
           req'[c] \in Exclusive => mu' = c
    PROVE  MutexInv'
<1> SUFFICES ASSUME NEW d \in Clients, req'[d] \in Exclusive PROVE mu' = d
  BY DEF MutexInv
<1>1. CASE d = c
  BY <1>1
<1>2. CASE d # c
  <2>1. mu = d /\ mu # None
    BY <1>2, DavAssumption DEF MutexInv
  <2> QED
    BY <1>2, <2>1 DEF Handles, Unlock
<1> QED
  BY <1>1, <1>2
--------------------------------------------------------------------------------
(* Contents: what a step leaves in the tree. *)

(* Every file keeps its content, or the content is waived, or the entry is one *)
(* of gone.                                                                    *)
HeldNext(q, k) == IsFile(files', q) /\ files'[q].content = k
Kept(gone) ==
    /\ waived \subseteq waived'
    /\ \A q \in Paths : IsFile(files, q) =>
          \/ HeldNext(q, files[q].content)
          \/ files[q].content \in waived'
          \/ <<q, files[q].content>> \in gone

CarriedNext(copied, away) ==
    \A pk \in copied : pk[2] \in waived' \/ \E q \in Paths \ away : HeldNext(q, pk[2])
AccountedNext(r, p) ==
    r.snap[p].content \in waived' \/ <<p, r.snap[p].content>> \in r.copied
AwaitsNext(r, p) == p \in r.todo /\ HeldNext(p, r.snap[p].content)
ListedNext(r) ==
    \A p \in DOMAIN r.snap \cap Paths : AccountedNext(r, p) \/ AwaitsNext(r, p) \/ InHand(r, p)
AllCopiedNext(r) == \A p \in DOMAIN r.snap \cap Paths : AccountedNext(r, p)
CarriedByNext(r) ==
    /\ r \in Copying \cup CopyingFile /\ r.move =>
          CarriedNext(r.copied, Area(r.src)) /\ ListedNext(r)
    /\ r \in Moving => CarriedNext(r.copied, r.todo) /\ AllCopiedNext(r)

MoveInv == MutexInv /\ CarryInv

LEMMA CarryNext == (\A c \in Clients : CarriedByNext(req'[c])) => CarryInv'
<1> SUFFICES ASSUME NEW c \in Clients, CarriedByNext(req'[c]) PROVE CarriedBy(req[c])'
  BY DEF CarryInv
<1>1. \A copied, away : CarriedNext(copied, away) <=>
         \A pk \in copied : pk[2] \in waived' \/ \E q \in Paths \ away : Holds(q, pk[2])'
  BY DEF CarriedNext, HeldNext, Holds
<1>2. ListedNext(req'[c]) => Listed(req[c])'
  BY DEF ListedNext, AccountedNext, AwaitsNext, HeldNext, Listed, Accounted, Awaits, Holds, InHand
<1>3. AllCopiedNext(req'[c]) => AllCopied(req[c])'
  BY DEF AllCopiedNext, AccountedNext, AllCopied, Accounted
<1> QED
  BY <1>1, <1>2, <1>3 DEF CarriedByNext, CarriedBy, Carried

LEMMA KeptUnchanged ==
    ASSUME UNCHANGED <<files, waived>>, NEW gone
    PROVE  Kept(gone)
BY DEF Kept, HeldNext

LEMMA KeptEnsure ==
    ASSUME TypeInv, NEW p, EnsureDirectory(p), UNCHANGED waived, NEW gone
    PROVE  Kept(gone)
<1>1. \A q \in Paths : files[q] # None => files'[q] = files[q]
  BY EnsureEntries, PathsInTree
<1> QED
  BY <1>1 DEF Kept, HeldNext, IsFile

LEMMA KeptEdit ==
    ASSUME TypeInv, NEW p, NEW new \in Record, files' = [files EXCEPT ![p] = new],
           waived \subseteq waived', ContentAt(p) \ {new.content} \subseteq waived', NEW gone
    PROVE  Kept(gone)
<1>1. DOMAIN files = Tree /\ new # None
  BY TreeAssumption DEF TypeInv
<1>2. ASSUME NEW q \in Paths, IsFile(files, q)
      PROVE  HeldNext(q, files[q].content) \/ files[q].content \in waived'
  <2>1. q \in Tree
    BY PathsInTree
  <2>2. CASE q # p
    BY <1>1, <1>2, <2>1, <2>2 DEF HeldNext, IsFile
  <2>3. CASE q = p
    <3>1. files'[q] = new
      BY <1>1, <2>1, <2>3
    <3>2. ContentAt(p) = {files[q].content}
      BY <1>2, <2>3 DEF ContentAt
    <3> QED
      BY <1>1, <1>2, <3>1, <3>2 DEF HeldNext, IsFile
  <2> QED
    BY <2>2, <2>3
<1> QED
  BY <1>2 DEF Kept

LEMMA KeptCommit ==
    ASSUME TypeInv, NEW p, NEW k \in Content, NEW size \in Nat, Commit(p, k, size),
           waived \subseteq waived', ContentAt(p) \ {k} \subseteq waived', NEW gone
    PROVE  Kept(gone)
<1> DEFINE new == [gen |-> generation + 1, content |-> k, size |-> size]
<1>1. files' = [files EXCEPT ![p] = new]
  BY DEF Commit
<1>2. new \in Record /\ new.content = k
  BY DEF Record, TypeInv
<1> HIDE DEF new
<1> QED
  BY <1>1, <1>2, KeptEdit

LEMMA KeptCarries ==
    ASSUME NEW gone, Kept(gone), NEW copied, NEW away, Carried(copied, away),
           \A pk \in gone : pk[1] \in away
    PROVE  CarriedNext(copied, away)
<1> SUFFICES ASSUME NEW pk \in copied
             PROVE  pk[2] \in waived' \/ \E q \in Paths \ away : HeldNext(q, pk[2])
  BY DEF CarriedNext
<1>1. CASE pk[2] \in waived
  BY <1>1 DEF Kept
<1>2. ASSUME NEW q \in Paths \ away, Holds(q, pk[2])
      PROVE  pk[2] \in waived' \/ HeldNext(q, pk[2])
  <2>1. <<q, pk[2]>> \notin gone
    <3>1. <<q, pk[2]>>[1] = q
      OBVIOUS
    <3> QED
      BY <3>1
  <2> QED
    BY <1>2, <2>1 DEF Kept, Holds
<1> QED
  BY <1>1, <1>2 DEF Carried

(* A step that keeps everything, of whichever client. *)
LEMMA StoredKept ==
    ASSUME NEW gone, Kept(gone), NEW copied, NEW away, Carried(copied, away),
           gone \subseteq copied, \A pk \in gone : pk[1] \in away
    PROVE  Stored \subseteq Stored' \cup waived'
<1> SUFFICES ASSUME NEW k \in Stored PROVE k \in Stored' \cup waived'
  OBVIOUS
<1>1. PICK q \in Paths : IsFile(files, q) /\ files[q].content = k
  BY DEF Stored
<1>2. \A p \in Paths : HeldNext(p, k) => k \in Stored'
  BY DEF HeldNext, Stored
<1>3. CASE <<q, k>> \in gone
  <2>1. CarriedNext(copied, away)
    BY KeptCarries
  <2>2. <<q, k>> \in copied /\ <<q, k>>[2] = k
    BY <1>3
  <2>3. k \in waived' \/ \E p \in Paths : HeldNext(p, k)
    BY <2>1, <2>2 DEF CarriedNext
  <2> QED
    BY <1>2, <2>3
<1>4. CASE <<q, k>> \notin gone
  BY <1>1, <1>2, <1>4 DEF Kept
<1> QED
  BY <1>3, <1>4

LEMMA NothingCarried ==
    ASSUME NEW away
    PROVE  Carried({}, away)
BY DEF Carried

(* What is listed is accounted for after a step that takes away nothing. *)
LEMMA KeptListed ==
    ASSUME Kept({}), NEW r
    PROVE  /\ Listed(r) => ListedNext(r)
           /\ AllCopied(r) => AllCopiedNext(r)
<1>1. waived \subseteq waived'
  BY DEF Kept
<1>2. ASSUME NEW p \in Paths, NEW k, Holds(p, k) PROVE k \in waived' \/ HeldNext(p, k)
  BY <1>2 DEF Kept, Holds
<1>3. \A p : Accounted(r, p) => AccountedNext(r, p)
  BY <1>1 DEF Accounted, AccountedNext
<1>4. \A p \in Paths : Awaits(r, p) => AwaitsNext(r, p) \/ AccountedNext(r, p)
  BY <1>2 DEF Awaits, AwaitsNext, AccountedNext
<1> QED
  BY <1>3, <1>4 DEF Listed, ListedNext, AllCopied, AllCopiedNext

(* What an exclusive request has carried is carried after the step of another, *)
(* and after a step that takes away nothing.                                   *)
LEMMA OthersCarry ==
    ASSUME NEW gone, Kept(gone), NEW r, CarriedBy(r), gone = {} \/ r \notin Exclusive
    PROVE  CarriedByNext(r)
<1>1. CASE r \notin Exclusive
  BY <1>1, ExclusiveKinds DEF CarriedByNext
<1>2. CASE gone = {}
  <2>1. r \in Copying \cup CopyingFile /\ r.move =>
           CarriedNext(r.copied, Area(r.src)) /\ ListedNext(r)
    BY <1>2, KeptCarries, KeptListed DEF CarriedBy
  <2>2. r \in Moving => CarriedNext(r.copied, r.todo) /\ AllCopiedNext(r)
    BY <1>2, KeptCarries, KeptListed DEF CarriedBy
  <2> QED
    BY <2>1, <2>2 DEF CarriedByNext
<1> QED
  BY <1>1, <1>2

(* A client's step that takes nothing away. *)
LEMMA MoveStep ==
    ASSUME MoveInv, NEW c \in Clients, Kept({}), Handles(c),
           \A d \in Clients : d # c => req'[d] = req[d],
           req'[c] \in Exclusive => mu' = c,
           CarriedByNext(req'[c])
    PROVE  MoveInv' /\ Stored \subseteq Stored' \cup waived'
<1>1. MutexInv'
  BY MutexStep DEF MoveInv
<1>2. \A d \in Clients : CarriedByNext(req'[d])
  <2> TAKE d \in Clients
  <2>1. CASE d = c
    BY <2>1
  <2>2. CASE d # c
    <3>1. CarriedBy(req[d])
      BY DEF MoveInv, CarryInv
    <3> QED
      BY <2>2, <3>1, OthersCarry
  <2> QED
    BY <2>1, <2>2
<1>3. Stored \subseteq Stored' \cup waived'
  BY NothingCarried, StoredKept
<1> QED
  BY <1>1, <1>2, <1>3, CarryNext DEF MoveInv

(* ... and one after which the client is not exclusive. *)
LEMMA CalmMoveStep ==
    ASSUME MoveInv, NEW c \in Clients, Kept({}), Handles(c),
           \A d \in Clients : d # c => req'[d] = req[d],
           req'[c] \in Calm \cup Readers
    PROVE  MoveInv' /\ Stored \subseteq Stored' \cup waived'
<1>1. req'[c] \notin Exclusive
  BY SortsDisjoint
<1>2. CarriedByNext(req'[c])
  BY <1>1, ExclusiveKinds DEF CarriedByNext
<1> QED
  BY <1>1, <1>2, MoveStep

LEMMA IdleStep ==
    ASSUME NEW c \in Clients, TypeInv, MoveInv, Kept({}), UNCHANGED mu, UNCHANGED req
    PROVE  MoveInv' /\ Stored \subseteq Stored' \cup waived'
<1>1. Handles(c) /\ (req'[c] \in Exclusive => mu' = c)
  BY DEF Handles, MoveInv, MutexInv
<1>2. CarriedByNext(req'[c])
  <2>1. CarriedBy(req[c])
    BY DEF MoveInv, CarryInv
  <2> QED
    BY <2>1, OthersCarry
<1> QED
  BY <1>1, <1>2, MoveStep

LEMMA RequestMoves ==
    ASSUME ~PerRequestServer, TypeInv, MoveInv, NEW c \in Clients, Request(c)
    PROVE  MoveInv' /\ Stored \subseteq Stored' \cup waived'
<1>1. PICK p \in Paths :
         \/ \E n \in 1..MaxLen :
               handlePut(c, p, n) \/ cmdPut(c, p, n) \/ PutDirectoryContents(c, p, n)
         \/ handleDelete(c, p) \/ cmdRemove(c, p)
         \/ handleMkcol(c, p)
         \/ \E dst \in Paths, move, overwrite, depth0 \in BOOLEAN :
               handleCopyMove(c, p, dst, move, overwrite, depth0)
         \/ \E want \in {1..MaxLen} \cup {{i} : i \in 1..MaxLen}, resume \in BOOLEAN :
               handleGet(c, p, want, resume)
         \/ cmdGet(c, p) \/ \E zip, replace \in BOOLEAN : cmdExport(c, p, zip, replace)
  BY DEF Request
<1> DEFINE Goal == MoveInv' /\ Stored \subseteq Stored' \cup waived'
<1>2. ASSUME NEW n \in 1..MaxLen,
             handlePut(c, p, n) \/ cmdPut(c, p, n) \/ PutDirectoryContents(c, p, n)
      PROVE  Goal
  <2>1. req'[c] \in Calm
    BY <1>2, handlePutTyped, PutPathTyped
  <2>2. UNCHANGED <<files, waived, mu>>
    BY <1>2 DEF handlePut, cmdPut, PutPath, putViaRsync, PutPathReport, PutDirectoryContents,
       Import, tree
  <2>3. \A d \in Clients : d # c => req'[d] = req[d]
    BY <1>2, OwnStep DEF handlePut, cmdPut, PutPath, putViaRsync, PutPathReport,
       PutDirectoryContents, Import
  <2>4. Kept({}) /\ Handles(c)
    BY <2>2, KeptUnchanged DEF Handles
  <2> QED
    BY <2>1, <2>3, <2>4, CalmMoveStep
<1>3. ASSUME handleDelete(c, p) \/ cmdRemove(c, p)
      PROVE  Goal
  <2>1. RemovePath(c, p) /\ Handles(c)
    BY <1>3 DEF handleDelete, cmdRemove, Lock, Handles
  <2>2. req'[c] \in Calm
    BY <2>1, RemoveTyped
  <2>3. UNCHANGED <<files, waived>>
    BY <2>1 DEF RemovePath, tree
  <2>4. \A d \in Clients : d # c => req'[d] = req[d]
    BY <2>1, OwnStep DEF RemovePath
  <2>5. Kept({})
    BY <2>3, KeptUnchanged
  <2> QED
    BY <2>1, <2>2, <2>4, <2>5, CalmMoveStep
<1>4. ASSUME handleMkcol(c, p)
      PROVE  Goal
  <2>1. UNCHANGED <<waived, req, mu>> /\ EnsureDirectory(p)
    BY <1>4 DEF handleMkcol
  <2>2. Kept({})
    BY <2>1, KeptEnsure
  <2> QED
    BY <2>1, <2>2, IdleStep
<1>5. ASSUME NEW dst \in Paths, NEW move \in BOOLEAN, NEW overwrite \in BOOLEAN,
             NEW depth0 \in BOOLEAN, handleCopyMove(c, p, dst, move, overwrite, depth0)
      PROVE  Goal
  <2>1. req'[c] \in Making \cup Clearing
    BY <1>5, CopyMoveTyped
  <2>2. UNCHANGED <<files, waived>>
    BY <1>5 DEF handleCopyMove, tree
  <2>3. \A d \in Clients : d # c => req'[d] = req[d]
    BY <1>5, OwnStep DEF handleCopyMove
  <2>4. mu = None /\ mu' = c
    BY <1>5 DEF handleCopyMove, Lock
  <2>5. Kept({}) /\ Handles(c)
    BY <2>2, <2>4, KeptUnchanged DEF Handles
  <2>6. CarriedByNext(req'[c])
    <3>1. \A r \in Making \cup Clearing : r \notin Copying \cup CopyingFile \cup Moving
      <4>1. /\ Making \subseteq MakingShape /\ Copying \subseteq CopyingShape
            /\ CopyingFile \subseteq CopyingFileShape
        BY DEF Making, Copying, CopyingFile
      <4> QED
        BY <4>1 DEF MakingShape, Clearing, CopyingShape, CopyingFileShape, Moving
    <3> QED
      BY <2>1, <3>1 DEF CarriedByNext
  <2> QED
    BY <2>3, <2>4, <2>5, <2>6, MoveStep
<1>6. ASSUME NEW want \in {1..MaxLen} \cup {{i} : i \in 1..MaxLen}, NEW resume \in BOOLEAN,
             handleGet(c, p, want, resume)
      PROVE  Goal
  <2>1. req'[c] \in Readers
    BY <1>6, handleGetTyped, ReaderKinds
  <2>2. UNCHANGED <<files, waived, mu>>
    BY <1>6 DEF handleGet, tree
  <2>3. \A d \in Clients : d # c => req'[d] = req[d]
    BY <1>6, OwnStep DEF handleGet
  <2>4. Kept({}) /\ Handles(c)
    BY <2>2, KeptUnchanged DEF Handles
  <2> QED
    BY <2>1, <2>3, <2>4, CalmMoveStep
<1>7. ASSUME NEW zip \in BOOLEAN, NEW replace \in BOOLEAN,
             cmdGet(c, p) \/ cmdExport(c, p, zip, replace)
      PROVE  Goal
  <2>1. req'[c] \in Calm
    BY <1>7, RestoreTyped
  <2>2. UNCHANGED <<files, waived, mu>>
    BY <1>7 DEF cmdGet, GetPath, cmdExport, ExportPath, tree
  <2>3. \A d \in Clients : d # c => req'[d] = req[d]
    BY <1>7, OwnStep DEF cmdGet, GetPath, cmdExport, ExportPath
  <2>4. Kept({}) /\ Handles(c)
    BY <2>2, KeptUnchanged DEF Handles
  <2> QED
    BY <2>1, <2>3, <2>4, CalmMoveStep
<1> HIDE DEF Goal
<1>8. Goal
  BY <1>1, <1>2, <1>3, <1>4, <1>5, <1>6, <1>7
<1> QED
  BY <1>8 DEF Goal

LEMMA WriteMoves ==
    ASSUME TypeInv, MoveInv, NEW c \in Clients,
           PutReader(c) \/ deadlineReader(c) \/ commitFileManifest(c)
    PROVE  MoveInv' /\ Stored \subseteq Stored' \cup waived'
<1>1. Handles(c)
  BY DEF PutReader, deadlineReader, commitFileManifest, Handles
<1>2. \A d \in Clients : d # c => req'[d] = req[d]
  BY OwnStep DEF PutReader, deadlineReader, commitFileManifest
<1>3. req'[c] \in Calm
  BY PutReaderTyped, deadlineReaderTyped, commitFileManifestTyped
<1>4. CASE PutReader(c)
  <2>1. /\ Commit(req[c].path, req[c].content, req[c].content.len)
        /\ waived' = waived \cup ContentAt(req[c].path)
    BY <1>4 DEF PutReader
  <2>2. Kept({})
    BY <1>4, <2>1, PutReaderTyped, KeptCommit
  <2> QED
    BY <1>1, <1>2, <1>3, <2>2, CalmMoveStep
<1>5. CASE deadlineReader(c)
  <2>1. Kept({})
    BY <1>5, KeptUnchanged DEF deadlineReader, tree
  <2> QED
    BY <1>1, <1>2, <1>3, <2>1, CalmMoveStep
<1>6. CASE commitFileManifest(c)
  <2>1. PICK p : /\ Commit(p, req[c].content, req[c].content.len)
                 /\ waived' = waived \cup (ContentAt(p) \ {req[c].content})
    BY <1>6 DEF commitFileManifest
  <2>2. Kept({})
    BY <1>6, <2>1, commitFileManifestTyped, KeptCommit
  <2> QED
    BY <1>1, <1>2, <1>3, <2>2, CalmMoveStep
<1> QED
  BY <1>4, <1>5, <1>6

LEMMA ReadMoves ==
    ASSUME TypeInv, VersionInv, MoveInv, NEW c \in Clients,
           \/ openFileReader(c) \/ OpenReaderAt(c) \/ VerifyChunkPresence(c)
           \/ ServeContent(c) \/ chunkAtLocked(c) \/ releaseStream(c)
    PROVE  MoveInv' /\ Stored \subseteq Stored' \cup waived'
<1>1. UNCHANGED <<files, waived, mu>>
  BY DEF openFileReader, OpenReaderAt, VerifyChunkPresence, ServeContent, chunkAtLocked,
     releaseStream, tree
<1>2. \A d \in Clients : d # c => req'[d] = req[d]
  <2>1. CASE openFileReader(c) \/ OpenReaderAt(c) \/ VerifyChunkPresence(c)
    BY <2>1, OwnStep DEF openFileReader, OpenReaderAt, VerifyChunkPresence
  <2>2. CASE ServeContent(c) \/ chunkAtLocked(c) \/ releaseStream(c)
    BY <2>2, OwnStep DEF ServeContent, chunkAtLocked, releaseStream
  <2> QED
    BY <2>1, <2>2
<1>3. req'[c] = Idle \/ req'[c] \in Reading
  <2>1. Labelled(req[c], got[c])
    BY DEF VersionInv
  <2> QED
    BY <2>1, openFileReaderTyped, PresenceTyped, ServeContentTyped, chunkAtLockedTyped,
       releaseStreamTyped
<1>4. req'[c] \in Calm \cup Readers
  BY <1>3, IdleIsARequest, ReaderKinds
<1>5. Kept({}) /\ Handles(c)
  BY <1>1, KeptUnchanged DEF Handles
<1> QED
  BY <1>2, <1>4, <1>5, CalmMoveStep

LEMMA RestoreMoves ==
    ASSUME TypeInv, MoveInv, NEW c \in Clients,
           checkOverwrite(c) \/ loadChunk(c) \/ restoreFile(c) \/ writeZip(c) \/ ExportDone(c)
    PROVE  MoveInv' /\ Stored \subseteq Stored' \cup waived'
<1>1. UNCHANGED <<files, waived, mu>>
  BY DEF checkOverwrite, loadChunk, restoreFile, writeZip, ExportDone, tree
<1>2. \A d \in Clients : d # c => req'[d] = req[d]
  BY OwnStep DEF checkOverwrite, loadChunk, restoreFile, writeZip, ExportDone
<1>3. req'[c] \in Calm
  BY checkOverwriteTyped, loadChunkTyped, restoreFileTyped, writeZipTyped, ExportDoneTyped
<1>4. Kept({}) /\ Handles(c)
  BY <1>1, KeptUnchanged DEF Handles
<1> QED
  BY <1>2, <1>3, <1>4, CalmMoveStep

LEMMA CopyKinds ==
    /\ \A r \in Copying : r \notin CopyingFile /\ r \notin Moving
    /\ \A r \in CopyingFile : r \notin Copying /\ r \notin Moving
    /\ \A r \in Moving : r \notin Copying /\ r \notin CopyingFile
<1>1. Copying \subseteq CopyingShape /\ CopyingFile \subseteq CopyingFileShape
  BY DEF Copying, CopyingFile
<1>2. /\ \A r \in Copying : r.pc = "copy"
      /\ \A r \in CopyingFile : r.pc = "copyFile"
      /\ \A r \in Moving : r.pc = "remove"
  BY <1>1 DEF CopyingShape, CopyingFileShape, Moving
<1> QED
  BY <1>2

(* A request that goes on with a copy keeps the mutex it holds. *)
LEMMA HoldsMutex ==
    ASSUME MoveInv, NEW c \in Clients, req[c] \in Exclusive, UNCHANGED mu
    PROVE  Handles(c) /\ mu' = c
BY DEF MoveInv, MutexInv, Handles

(* The steps of COPY and MOVE that end the request. *)
LEMMA CopyEnds ==
    ASSUME TypeInv, MoveInv, NEW c \in Clients, RemoveFails(c) \/ copyCollection(c) \/ copyFails(c)
    PROVE  MoveInv' /\ Stored \subseteq Stored' \cup waived'
<1>1. Handles(c)
  BY DEF RemoveFails, copyCollection, copyFails, Answer, Handles
<1>2. \A d \in Clients : d # c => req'[d] = req[d]
  BY OwnStep DEF RemoveFails, copyCollection, copyFails, Answer
<1>3. req'[c] \in Calm
  BY RemoveFailsTyped, copyCollectionTyped, copyFailsTyped
<1>4. Kept({})
  <2>1. CASE RemoveFails(c) \/ copyFails(c)
    BY <2>1, KeptUnchanged DEF RemoveFails, copyFails, tree
  <2>2. CASE copyCollection(c)
    BY <2>2, KeptEnsure DEF copyCollection
  <2> QED
    BY <2>1, <2>2
<1> QED
  BY <1>1, <1>2, <1>3, <1>4, CalmMoveStep

LEMMA copyPathMoves ==
    ASSUME TypeInv, MoveInv, NEW c \in Clients, copyPath(c)
    PROVE  MoveInv' /\ Stored \subseteq Stored' \cup waived'
<1>1. /\ req[c] \in Exclusive
      /\ \/ req'[c] = Idle /\ Unlock(c)
         \/ /\ req'[c] \in Copying /\ req'[c].copied = {} /\ UNCHANGED mu
            /\ Lists(req'[c])
  BY copyPathTyped, ExclusiveKinds
<1>2. \A d \in Clients : d # c => req'[d] = req[d]
  BY OwnStep DEF copyPath, Answer
<1>3. Kept({})
  <2>1. UNCHANGED waived /\ (UNCHANGED files \/ EnsureDirectory(req[c].dst))
    BY DEF copyPath
  <2> QED
    BY <2>1, KeptUnchanged, KeptEnsure
<1>4. CASE req'[c] = Idle /\ Unlock(c)
  <2>1. Handles(c) /\ req'[c] \in Calm
    BY <1>4, IdleIsARequest DEF Handles
  <2> QED
    BY <1>2, <1>3, <2>1, CalmMoveStep
<1>5. CASE req'[c] \in Copying /\ req'[c].copied = {} /\ UNCHANGED mu /\ Lists(req'[c])
  <2>1. Handles(c) /\ mu' = c
    BY <1>1, <1>5, HoldsMutex
  <2>2. ListedNext(req'[c])
    <3>1. ASSUME NEW p \in DOMAIN req'[c].snap \cap Paths PROVE Awaits(req'[c], p)
      <4>1. p \in req'[c].todo /\ files[p] # None /\ req'[c].snap[p] = files[p]
        BY <1>5 DEF Lists
      <4>2. ~IsMarker(p)
        BY PathsInTree, PathIffNoMarker
      <4> QED
        BY <4>1, <4>2 DEF Awaits, Holds, IsFile
    <3>2. Listed(req'[c])
      BY <3>1 DEF Listed
    <3> QED
      BY <1>3, <3>2, KeptListed
  <2>3. CarriedByNext(req'[c])
    BY <1>5, <2>2, CopyKinds DEF CarriedByNext, CarriedNext
  <2> QED
    BY <1>2, <1>3, <2>1, <2>3, MoveStep
<1> QED
  BY <1>1, <1>4, <1>5

(* A marker, and the opening of a file to copy, add nothing to what is copied. *)
LEMMA CopyGoesOn ==
    ASSUME TypeInv, MoveInv, NEW c \in Clients, copyMarker(c) \/ WriteFileTo(c)
    PROVE  MoveInv' /\ Stored \subseteq Stored' \cup waived'
<1>1. /\ req[c] \in Copying /\ req'[c] \in Copying \cup CopyingFile
      /\ req'[c].copied = req[c].copied /\ req'[c].src = req[c].src /\ req'[c].move = req[c].move
      /\ req'[c].snap = req[c].snap
  BY copyMarkerTyped, WriteFileToTyped
<1>2. \A d \in Clients : d # c => req'[d] = req[d]
  BY OwnStep DEF copyMarker, WriteFileTo
<1>3. Kept({})
  <2>1. CASE copyMarker(c)
    BY <2>1, KeptEnsure DEF copyMarker
  <2>2. CASE WriteFileTo(c)
    BY <2>2, KeptUnchanged DEF WriteFileTo, tree
  <2> QED
    BY <2>1, <2>2
<1>4. UNCHANGED mu
  BY DEF copyMarker, WriteFileTo
<1>5. Handles(c) /\ mu' = c
  BY <1>1, <1>4, ExclusiveKinds, HoldsMutex
<1>6. CarriedByNext(req'[c])
  <2>1. CarriedByNext(req[c])
    <3>1. CarriedBy(req[c])
      BY DEF MoveInv, CarryInv
    <3> QED
      BY <1>3, <3>1, OthersCarry
  <2>2. req[c].move => CarriedNext(req[c].copied, Area(req[c].src)) /\ ListedNext(req[c])
    BY <1>1, <2>1 DEF CarriedByNext
  <2>3. \A p : ~InHand(req[c], p)
    BY <1>1, CopyKinds DEF InHand
  <2>4. req[c].move /\ copyMarker(c) => ListedNext(req'[c])
    <3> SUFFICES ASSUME req[c].move, copyMarker(c), NEW p \in DOMAIN req[c].snap \cap Paths
                 PROVE  AccountedNext(req'[c], p) \/ AwaitsNext(req'[c], p)
      BY <1>1 DEF ListedNext
    <3>1. AccountedNext(req[c], p) \/ AwaitsNext(req[c], p)
      BY <2>2, <2>3 DEF ListedNext
    <3>2. p \in req[c].todo => p \in req'[c].todo
      <4>1. ~IsMarker(p)
        BY PathsInTree, PathIffNoMarker
      <4> QED
        BY <4>1, copyMarkerTyped
    <3> QED
      BY <1>1, <3>1, <3>2 DEF AccountedNext, AwaitsNext
  <2>5. req[c].move /\ WriteFileTo(c) => ListedNext(req'[c])
    <3> SUFFICES ASSUME req[c].move, WriteFileTo(c), NEW p \in DOMAIN req[c].snap \cap Paths
                 PROVE  AccountedNext(req'[c], p) \/ AwaitsNext(req'[c], p) \/ InHand(req'[c], p)
      BY <1>1 DEF ListedNext
    <3>1. /\ req'[c] \in CopyingFile /\ req'[c].todo = req[c].todo \ {req'[c].path}
          /\ req'[c].content = files[req'[c].path].content /\ UNCHANGED files
      BY WriteFileToTyped DEF WriteFileTo, tree
    <3>2. AccountedNext(req[c], p) \/ AwaitsNext(req[c], p)
      BY <2>2, <2>3 DEF ListedNext
    <3> QED
      BY <1>1, <3>1, <3>2 DEF AccountedNext, AwaitsNext, InHand, HeldNext
  <2> QED
    BY <1>1, <2>2, <2>4, <2>5, CopyKinds DEF CarriedByNext
<1> QED
  BY <1>2, <1>3, <1>5, <1>6, MoveStep

(* The copy of a file lies outside the source: nothing the MOVE removes later  *)
(* is its only place.                                                          *)
LEMMA copyFileMoves ==
    ASSUME TypeInv, MoveInv, NEW c \in Clients, copyFile(c)
    PROVE  MoveInv' /\ Stored \subseteq Stored' \cup waived'
<1> DEFINE r == req[c]
           q == DstOf(r, r.path)
<1>1. /\ TypeInv' /\ r \in CopyingFile /\ req'[c] \in Copying
      /\ req'[c].copied = r.copied \cup {<<r.path, r.content>>}
      /\ req'[c].src = r.src /\ req'[c].move = r.move
      /\ req'[c].snap = r.snap /\ req'[c].todo = r.todo
  BY copyFileTyped
<1>2. r.content \in Content /\ r.snap[r.path].size \in Nat
  <2>1. r.snap \in Snapshots /\ r.path \in DOMAIN r.snap /\ r.content \in Content
    BY <1>1 DEF CopyingFile, CopyingFileShape
  <2>2. r.snap[r.path] \in Record
    BY <2>1, SnapshotFacts
  <2> QED
    BY <2>1, <2>2 DEF Record
<1>3. Commit(q, r.content, r.snap[r.path].size) /\ waived' = waived \cup (ContentAt(q) \ {r.content})
  BY DEF copyFile
<1>4. Kept({})
  BY <1>2, <1>3, KeptCommit
<1>5. \A d \in Clients : d # c => req'[d] = req[d]
  BY OwnStep DEF copyFile
<1>6. Handles(c) /\ mu' = c
  <2>1. UNCHANGED mu
    BY DEF copyFile
  <2> QED
    BY <1>1, <2>1, ExclusiveKinds, HoldsMutex
<1>7. r.move => q \in Paths \ Area(r.src) /\ HeldNext(q, r.content)
  <2> SUFFICES ASSUME r.move PROVE q \in Paths \ Area(r.src) /\ HeldNext(q, r.content)
    OBVIOUS
  <2>1. /\ r.src \in Paths /\ r.dst \in Paths /\ Fits(r.src, r.dst) /\ ~IsPrefix(r.src, r.dst)
        /\ r.path \in Area(r.src) /\ ~IsMarker(r.path)
    BY <1>1 DEF CopyingFile, CopyingFileShape, Apart
  <2>2. q \in Paths \ Area(r.src)
    BY <2>1, CopyIsOutside DEF DstOf
  <2>3. q \in Tree /\ ~IsMarker(q)
    BY <2>2, PathsInTree, PathIffNoMarker
  <2> HIDE DEF q
  <2>4. files'[q] = [gen |-> generation + 1, content |-> r.content, size |-> r.snap[r.path].size]
    BY <1>3, <2>3 DEF Commit, TypeInv
  <2>5. files'[q] \in Record
    BY <1>2, <2>4 DEF Record, TypeInv
  <2>6. files'[q] # None /\ files'[q].content = r.content
    BY <2>4, <2>5, TreeAssumption
  <2> QED
    BY <2>2, <2>3, <2>6 DEF HeldNext, IsFile
<1>8. CarriedByNext(req'[c])
  <2>1. CarriedByNext(r)
    <3>1. CarriedBy(r)
      BY DEF MoveInv, CarryInv
    <3> QED
      BY <1>4, <3>1, OthersCarry
  <2>2. r.move => CarriedNext(r.copied, Area(r.src)) /\ ListedNext(r)
    BY <1>1, <2>1 DEF CarriedByNext
  <2> HIDE DEF q
  <2>3. r.move => CarriedNext(req'[c].copied, Area(r.src))
    <3> SUFFICES ASSUME r.move, NEW pk \in req'[c].copied
                 PROVE  pk[2] \in waived' \/ \E x \in Paths \ Area(r.src) : HeldNext(x, pk[2])
      BY DEF CarriedNext
    <3>1. CASE pk \in r.copied
      BY <2>2, <3>1 DEF CarriedNext
    <3>2. CASE pk = <<r.path, r.content>>
      <4>1. pk[2] = r.content
        BY <3>2
      <4> QED
        BY <1>7, <4>1
    <3> QED
      BY <1>1, <3>1, <3>2
  <2>4. r.move => ListedNext(req'[c])
    BY <1>1, <2>2 DEF ListedNext, AccountedNext, AwaitsNext, InHand
  <2> QED
    BY <1>1, <2>3, <2>4, CopyKinds DEF CarriedByNext
<1> QED
  BY <1>4, <1>5, <1>6, <1>8, MoveStep

(* The removal of a MOVE's source stays within the source. *)
LEMMA copyDoneMoves ==
    ASSUME TypeInv, MoveInv, NEW c \in Clients, copyDone(c)
    PROVE  MoveInv' /\ Stored \subseteq Stored' \cup waived'
<1>1. /\ req[c] \in Copying
      /\ \/ req'[c] = Idle /\ Unlock(c)
         \/ /\ UNCHANGED mu /\ req[c].move
            /\ req'[c] \in Moving /\ req'[c].copied = req[c].copied
            /\ req'[c].todo = RemoveTargets(req[c].src)
            /\ req'[c].snap = req[c].snap /\ req[c].todo = {}
  BY copyDoneTyped
<1>2. \A d \in Clients : d # c => req'[d] = req[d]
  BY OwnStep DEF copyDone, Answer
<1>3. Kept({})
  BY KeptUnchanged DEF copyDone, tree
<1>4. CASE req'[c] = Idle /\ Unlock(c)
  <2>1. Handles(c) /\ req'[c] \in Calm
    BY <1>4, IdleIsARequest DEF Handles
  <2> QED
    BY <1>2, <1>3, <2>1, CalmMoveStep
<1>5. CASE /\ UNCHANGED mu /\ req[c].move
           /\ req'[c] \in Moving /\ req'[c].copied = req[c].copied
           /\ req'[c].todo = RemoveTargets(req[c].src)
           /\ req'[c].snap = req[c].snap /\ req[c].todo = {}
  <2>1. Handles(c) /\ mu' = c
    BY <1>1, <1>5, ExclusiveKinds, HoldsMutex
  <2>2. CarriedByNext(req[c])
    <3>1. CarriedBy(req[c])
      BY DEF MoveInv, CarryInv
    <3> QED
      BY <1>3, <3>1, OthersCarry
  <2>3. CarriedNext(req[c].copied, Area(req[c].src)) /\ ListedNext(req[c])
    BY <1>1, <1>5, <2>2 DEF CarriedByNext
  <2>4. req'[c].todo \subseteq Area(req[c].src)
    <3>1. req[c].src \in Paths
      BY <1>1 DEF Copying, CopyingShape
    <3> QED
      BY <1>5, <3>1, PathsInTree, PrefixSelf, TargetsInTree DEF Area
  <2>5. CarriedNext(req'[c].copied, req'[c].todo)
    BY <1>5, <2>3, <2>4 DEF CarriedNext
  <2>6. AllCopiedNext(req'[c])
    BY <1>1, <1>5, <2>3, CopyKinds DEF AllCopiedNext, ListedNext, AccountedNext, AwaitsNext, InHand
  <2>7. CarriedByNext(req'[c])
    BY <1>5, <2>5, <2>6, CopyKinds DEF CarriedByNext
  <2> QED
    BY <1>2, <1>3, <2>1, <2>7, MoveStep
<1> QED
  BY <1>1, <1>4, <1>5

(* The entry a removal is about to take away. *)
Entries(S) == {<<p, files[p].content>> : p \in S}

(* A DELETE takes away what the requester gave up; the removals of COPY and    *)
(* MOVE take away nothing but the entries they have still to do.               *)
LEMMA KeptTombstone ==
    ASSUME TypeInv, NEW c \in Clients, NEW p \in req[c].todo,
           files' = [files EXCEPT ![p] = None], waived' = waived \cup Consented(req[c], p)
    PROVE  /\ req[c] \in Deleting => Kept({})
           /\ Kept(Entries({p}))
<1> DEFINE r == req[c]
<1>1. DOMAIN files = Tree /\ waived \subseteq waived'
  BY DEF TypeInv
<1>2. ASSUME NEW q \in Paths, IsFile(files, q), q # p
      PROVE  HeldNext(q, files[q].content)
  BY <1>1, <1>2, PathsInTree DEF HeldNext, IsFile
<1>3. ASSUME r \in Deleting PROVE Kept({})
  <2>1. waived' = waived \cup ContentAt(p)
    BY <1>3 DEF Deleting, Consented
  <2>2. IsFile(files, p) => ContentAt(p) = {files[p].content}
    BY DEF ContentAt
  <2> QED
    BY <1>1, <1>2, <2>1, <2>2 DEF Kept
<1>4. Kept(Entries({p}))
  BY <1>1, <1>2 DEF Kept, Entries
<1> QED
  BY <1>3, <1>4

(* What a MOVE takes away without having copied it came late. *)
LEMMA MovedIsLate ==
    ASSUME TypeInv, NEW c \in Clients, req[c] \in Moving, CarriedBy(req[c]),
           NEW p \in req[c].todo, files' = [files EXCEPT ![p] = None], waived \subseteq waived',
           NEW k, IsFile(files, p), files[p].content = k, p \in Paths,
           Kept(Entries({p})), k \notin Stored' \cup waived'
    PROVE  CameLate(c, p, k)
<1> DEFINE r == req[c]
<1>1. r.pc = "remove" /\ r.why = "moved" /\ r.todo \subseteq Tree
  BY DEF Moving
<1>2. Takes(c, p, k)
  <2>1. files'[p] = None
    BY <1>1 DEF TypeInv
  <2> QED
    BY <1>1, <2>1 DEF Takes, ContentAt
<1>3. \A e \in Entries({p}) : e[1] \in r.todo
  BY DEF Entries
<1>4. CarriedNext(r.copied, r.todo)
  BY <1>3, KeptCarries DEF CarriedBy
<1>5. <<p, k>> \notin r.copied
  <2> SUFFICES ASSUME <<p, k>> \in r.copied PROVE FALSE
    OBVIOUS
  <2>1. <<p, k>>[2] = k
    OBVIOUS
  <2>2. PICK q \in Paths : HeldNext(q, k)
    BY <1>4, <2>1 DEF CarriedNext
  <2>3. k \in Stored'
    BY <2>2 DEF HeldNext, Stored
  <2> QED
    BY <2>3
<1>6. ~(p \in DOMAIN r.snap /\ r.snap[p].content = k)
  BY <1>5 DEF CarriedBy, AllCopied, Accounted
<1> QED
  BY <1>1, <1>2, <1>5, <1>6 DEF CameLate

(* The step takes nothing away, or what NothingVanishes excepts. *)
LateOnly ==
    \A k \in Stored \ (Stored' \cup waived') :
       \E c \in Clients, p \in Tree : CameLate(c, p, k) \/ OwnSource(c, p, k)

LEMMA TombstoneMoves ==
    ASSUME TypeInv, MoveInv, NEW c \in Clients, commitTombstone(c)
    PROVE  MoveInv' /\ LateOnly
<1>1. /\ req[c] \in Deleting \cup Clearing \cup Moving
      /\ \/ req'[c] \in Calm /\ (UNCHANGED mu \/ Unlock(c))
         \/ req[c] \in Clearing /\ req'[c] \in Clearing \cup Making /\ UNCHANGED mu
         \/ /\ req[c] \in Moving /\ req'[c] \in Moving /\ UNCHANGED mu
            /\ req'[c].copied = req[c].copied /\ req'[c].todo \subseteq req[c].todo
            /\ req'[c].snap = req[c].snap
  BY commitTombstoneTyped
<1>2. \A d \in Clients : d # c => req'[d] = req[d]
  BY OwnStep DEF commitTombstone, Answer
<1>3. Handles(c)
  BY <1>1 DEF Handles
<1>4. req'[c] \in Exclusive => mu' = c
  <2>1. req'[c] \in Exclusive => UNCHANGED mu /\ req[c] \in Exclusive
    BY <1>1, ExclusiveKinds, SortsDisjoint
  <2> QED
    BY <2>1, HoldsMutex
<1>5. PICK p \in req[c].todo :
         files' = [files EXCEPT ![p] = None] /\ waived' = waived \cup Consented(req[c], p)
  BY DEF commitTombstone
<1>6. /\ req[c] \in Deleting => Kept({})
      /\ Kept(Entries({p})) /\ waived \subseteq waived'
  BY <1>5, KeptTombstone
<1>7. req[c] \notin Moving => req'[c] \notin Copying \cup CopyingFile \cup Moving
  <2>1. \A r \in Making \cup Clearing : r \notin Copying \cup CopyingFile \cup Moving
    <3>1. /\ Making \subseteq MakingShape /\ Copying \subseteq CopyingShape
          /\ CopyingFile \subseteq CopyingFileShape
      BY DEF Making, Copying, CopyingFile
    <3> QED
      BY <3>1 DEF MakingShape, Clearing, CopyingShape, CopyingFileShape, Moving
  <2>2. req'[c] \in Calm => req'[c] \notin Copying \cup CopyingFile \cup Moving
    BY SortsDisjoint, ExclusiveKinds
  <2> QED
    BY <1>1, <2>1, <2>2
<1>8. CASE req[c] \in Deleting
  <2>1. req[c] \notin Moving
    BY <1>8 DEF Deleting, Moving
  <2>2. CarriedByNext(req'[c])
    BY <1>7, <2>1 DEF CarriedByNext
  <2>3. MoveInv' /\ Stored \subseteq Stored' \cup waived'
    BY <1>2, <1>3, <1>4, <1>6, <1>8, <2>2, MoveStep
  <2> QED
    BY <2>3 DEF LateOnly
<1>9. CASE req[c] \in Clearing \cup Moving
  <2>1. MutexInv'
    BY <1>2, <1>3, <1>4, MutexStep DEF MoveInv
  <2>2. ASSUME NEW d \in Clients, d # c PROVE CarriedByNext(req'[d])
    <3>1. mu = c
      BY <1>9, ExclusiveKinds DEF MoveInv, MutexInv
    <3>2. req[d] \notin Exclusive
      BY <2>2, <3>1 DEF MoveInv, MutexInv
    <3>3. CarriedBy(req[d])
      BY DEF MoveInv, CarryInv
    <3> QED
      BY <1>2, <1>6, <2>2, <3>2, <3>3, OthersCarry
  <2>3. CarriedByNext(req'[c])
    <3>1. CASE req'[c] \notin Copying \cup CopyingFile \cup Moving
      BY <3>1 DEF CarriedByNext
    <3>2. CASE /\ req[c] \in Moving /\ req'[c] \in Moving
               /\ req'[c].copied = req[c].copied /\ req'[c].todo \subseteq req[c].todo
               /\ req'[c].snap = req[c].snap
      <4>1. CarriedBy(req[c]) /\ \A e \in Entries({p}) : e[1] \in req[c].todo
        BY <1>5 DEF MoveInv, CarryInv, Entries
      <4>2. CarriedNext(req[c].copied, req[c].todo)
        BY <1>6, <3>2, <4>1, KeptCarries DEF CarriedBy
      <4>3. CarriedNext(req'[c].copied, req'[c].todo)
        BY <3>2, <4>2 DEF CarriedNext
      <4>4. AllCopiedNext(req'[c])
        BY <1>6, <3>2, <4>1 DEF CarriedBy, AllCopied, Accounted, AllCopiedNext, AccountedNext
      <4> QED
        BY <3>2, <4>3, <4>4, CopyKinds DEF CarriedByNext
    <3>3. req'[c] \in Calm => req'[c] \notin Copying \cup CopyingFile \cup Moving
      BY SortsDisjoint, ExclusiveKinds
    <3>4. req[c] \in Moving => req[c] \notin Clearing
      BY DEF Clearing, Moving
    <3> QED
      BY <1>1, <1>7, <3>1, <3>2, <3>3, <3>4
  <2>4. MoveInv'
    BY <2>1, <2>2, <2>3, CarryNext DEF MoveInv
  <2>5. ASSUME NEW k \in Stored \ (Stored' \cup waived')
        PROVE  \E d \in Clients, q \in Tree : CameLate(d, q, k) \/ OwnSource(d, q, k)
    <3>1. PICK q \in Paths : IsFile(files, q) /\ files[q].content = k
      BY <2>5 DEF Stored
    <3>2. <<q, k>> \in Entries({p})
      <4>1. HeldNext(q, k) => k \in Stored'
        BY DEF HeldNext, Stored
      <4> QED
        BY <1>6, <2>5, <3>1, <4>1 DEF Kept
    <3>3. q = p /\ p \in Tree
      BY <3>2, PathsInTree DEF Entries
    <3>4. CASE req[c] \in Moving
      <4>1. CarriedBy(req[c])
        BY DEF MoveInv, CarryInv
      <4>2. CameLate(c, p, k)
        BY <1>5, <1>6, <2>5, <3>1, <3>3, <3>4, <4>1, MovedIsLate
      <4> QED
        BY <3>3, <4>2
    <3>5. CASE req[c] \in Clearing
      <4>1. req[c].pc = "remove" /\ req[c].why = "cleared"
        BY <3>5 DEF Clearing
      <4>2. ContentAt(p) = {k}
        BY <3>1, <3>3 DEF ContentAt
      <4>3. IsPrefix(req[c].then.src, p)
        BY <1>5, <2>5, <4>1, <4>2 DEF Consented
      <4>4. files'[p] = None
        BY <1>5, <3>3 DEF TypeInv
      <4>5. OwnSource(c, p, k)
        BY <1>5, <4>1, <4>2, <4>3, <4>4 DEF OwnSource, Takes
      <4> QED
        BY <3>3, <4>5
    <3> QED
      BY <1>9, <3>4, <3>5
  <2> QED
    BY <2>4, <2>5 DEF LateOnly
<1> QED
  BY <1>1, <1>8, <1>9

(* The sync client, and the cache that forgets, hold no mutex. *)
LEMMA QuietMoves ==
    ASSUME TypeInv, MoveInv, Kept({}), UNCHANGED <<req, mu>>
    PROVE  MoveInv' /\ Stored \subseteq Stored' \cup waived'
<1>1. MutexInv'
  BY DEF MoveInv, MutexInv
<1>2. ASSUME NEW d \in Clients PROVE CarriedByNext(req'[d])
  <2>1. CarriedBy(req[d])
    BY DEF MoveInv, CarryInv
  <2> QED
    BY <2>1, OthersCarry
<1>3. Stored \subseteq Stored' \cup waived'
  BY NothingCarried, StoredKept
<1> QED
  BY <1>1, <1>2, <1>3, CarryNext DEF MoveInv

LEMMA SyncMoves ==
    ASSUME TypeInv, MoveInv, Sync
    PROVE  MoveInv' /\ Stored \subseteq Stored' \cup waived'
<1>1. CASE ChunkGoes \/ ChunkArrives
  <2>1. UNCHANGED <<files, waived, req, mu>>
    BY <1>1 DEF ChunkGoes, ChunkArrives, tree
  <2> QED
    BY <2>1, KeptUnchanged, QuietMoves
<1>2. ASSUME NEW p \in Paths, NEW n \in 1..MaxLen, PeerPut(p, n)
      PROVE  MoveInv' /\ Stored \subseteq Stored' \cup waived'
  <2>1. waived' = waived \cup ContentAt(p) /\ UNCHANGED <<req, mu>>
    BY <1>2 DEF PeerPut
  <2>2. PICK new \in Record : files' = [files EXCEPT ![p] = new]
    BY <1>2, PeerRecord
  <2>3. Kept({})
    BY <2>1, <2>2, KeptEdit
  <2> QED
    BY <2>1, <2>3, QuietMoves
<1> QED
  BY <1>1, <1>2 DEF Sync

LEMMA MoveInit == DavInit => MoveInv
<1> SUFFICES ASSUME DavInit PROVE MoveInv
  OBVIOUS
<1>1. \A c \in Clients : req[c] = Idle
  BY DEF DavInit
<1>2. Idle \notin Exclusive
  BY IdleIsARequest, SortsDisjoint
<1>3. Idle \notin Copying \cup CopyingFile \cup Moving
  BY <1>2, ExclusiveKinds
<1> QED
  BY <1>1, <1>2, <1>3 DEF MoveInv, MutexInv, CarryInv, CarriedBy

LEMMA MoveInvStep ==
    ASSUME ~PerRequestServer, TypeInv, VersionInv, MoveInv, [DavNext]_vars
    PROVE  MoveInv' /\ LateOnly
<1> DEFINE Goal == MoveInv' /\ LateOnly
<1>0. Stored \subseteq Stored' \cup waived' => LateOnly
  BY DEF LateOnly
<1>1. CASE UNCHANGED vars \/ presenceTTL
  <2>1. UNCHANGED <<files, waived, req, mu>>
    BY <1>1 DEF vars, presenceTTL, tree
  <2> QED
    BY <1>0, <2>1, KeptUnchanged, QuietMoves
<1>2. CASE Sync
  BY <1>0, <1>2, SyncMoves
<1>3. ASSUME NEW c \in Clients, Request(c) PROVE Goal
  BY <1>0, <1>3, RequestMoves
<1>4. ASSUME NEW c \in Clients, Step(c) PROVE Goal
  <2>1. CASE PutReader(c) \/ deadlineReader(c) \/ commitFileManifest(c)
    BY <1>0, <2>1, WriteMoves
  <2>2. CASE commitTombstone(c)
    BY <2>2, TombstoneMoves
  <2>3. CASE RemoveFails(c) \/ copyCollection(c) \/ copyFails(c)
    BY <1>0, <2>3, CopyEnds
  <2>4. CASE copyPath(c)
    BY <1>0, <2>4, copyPathMoves
  <2>5. CASE copyMarker(c) \/ WriteFileTo(c)
    BY <1>0, <2>5, CopyGoesOn
  <2>6. CASE copyFile(c)
    BY <1>0, <2>6, copyFileMoves
  <2>7. CASE copyDone(c)
    BY <1>0, <2>7, copyDoneMoves
  <2>8. CASE \/ openFileReader(c) \/ OpenReaderAt(c) \/ VerifyChunkPresence(c)
             \/ ServeContent(c) \/ chunkAtLocked(c) \/ releaseStream(c)
    BY <1>0, <2>8, ReadMoves
  <2>9. CASE checkOverwrite(c) \/ loadChunk(c) \/ restoreFile(c) \/ writeZip(c) \/ ExportDone(c)
    BY <1>0, <2>9, RestoreMoves
  <2> HIDE DEF Goal
  <2> QED
    BY <1>4, <2>1, <2>2, <2>3, <2>4, <2>5, <2>6, <2>7, <2>8, <2>9 DEF Step, Goal
<1> QED
  BY <1>1, <1>2, <1>3, <1>4 DEF DavNext

(* NothingLost.  With one Server, whose mutex COPY and MOVE hold from the      *)
(* first check to the last tombstone (server.go:877-942), no step takes a      *)
(* content out of the tree that no request and no peer asked to replace or     *)
(* remove, but for what reaches the source of a MOVE after the listing and     *)
(* what a COPY or MOVE clears of its own source: all that a MOVE listed it has *)
(* copied outside the source when it removes it, and no other MOVE or COPY is  *)
(* between the two.  PUTs, imports, seavault remove and the sync client run    *)
(* without the mutex and are covered; the Servers per request of the GUI mount *)
(* are not.                                                                    *)
THEOREM NothingLost ==
    ASSUME ~PerRequestServer
    PROVE  DavSpec => NothingVanishes
<1> DEFINE Inv == TypeInv /\ VersionInv /\ MoveInv
<1>1. DavInit => Inv
  BY TypeInit, VersionInit, MoveInit
<1>2. Inv /\ [DavNext]_vars => Inv'
  BY VersionStep, MoveInvStep
<1>3. Inv /\ [DavNext]_vars => [LateOnly]_vars
  BY MoveInvStep
<1> QED
  BY <1>1, <1>2, <1>3, PTL DEF DavSpec, NothingVanishes, LateOnly
================================================================================
