----------------------------- MODULE GarbageCollect -----------------------------
(***************************************************************************)
(* The fenced, two-phase collection of internal/vault/gc.go, for one chunk *)
(* of a vault kept in sync between two devices: an unreferenced chunk gets *)
(* an intent file, each device notes when it first saw the intent, and the *)
(* chunk goes when the intent, that note and the chunk's own mtime are all *)
(* older than the fence and no manifest refers to it.  Puts deduplicate    *)
(* against the chunk meanwhile (vault.go: storeChunk).                     *)
(*                                                                         *)
(* Times are ages, capped at Fence.  Every file that is put contains the   *)
(* chunk; a name is put once and may be removed once, so the manifests of  *)
(* a name are ordered "none", "live", "gone".  The refusal gate is left    *)
(* out: it only ever stops a run.                                          *)
(***************************************************************************)
EXTENDS Integers, FiniteSets

CONSTANTS
    Files,       \* files that are put
    Stored,      \* the files among them that were put long ago
    PutOn,       \* the devices on which the others are put; the devices are alike, so one
                 \* stands for both when there is one other file
    Fence,       \* the fence, in units of time
    MaxLag,      \* how long a manifest or a chunk may take to reach the other device
    MaxPut,      \* how long a put may take
    MaxCrashes   \* runs of the collector that are cut short

Devices == {1, 2}

\* The fence outlasts an upload and the delivery of its manifest.
ASSUME FenceAssumption ==
    /\ Fence \in Nat /\ MaxLag \in Nat /\ MaxPut \in Nat /\ MaxCrashes \in Nat
    /\ MaxPut + MaxLag < Fence
    /\ Stored \subseteq Files /\ Stored # {}
    /\ "chunk" \notin Files
    /\ PutOn \subseteq Devices

VARIABLES
    manifest,  \* manifest[d][f]
    chunk,     \* chunk[d]: age of the newest chunk file, None if there is none
    intent,    \* intent[d]: age of the oldest intent file, None if there is none
    seen,      \* seen[d]: age of d's first-seen record, None if there is none
    base,      \* base[i]: the chunk and the intent when last in sync
    late,      \* late[i]: for how long i has been out of sync
    put,       \* put[d]: the put under way on d
    gc,        \* gc[d]: the collection under way on d
    missed,    \* history: a removal came too late for its decision, or a reuse left
               \* the chunk unrefreshed
    crashes

vars == <<manifest, chunk, intent, seen, base, late, put, gc, missed, crashes>>

None == -1
Age == 0 .. Fence
Items == Files \cup {"chunk"}

Older(a) == IF a = None THEN None ELSE IF a < Fence THEN a + 1 ELSE Fence

\* liveChunkSet, of the manifests on a device: does a live record refer to the chunk?
Referenced(m) == \E f \in Files : m[f] = "live"

--------------------------------------------------------------------------------
NoPut == [pc |-> "idle", file |-> "none", age |-> 0]
NoGC == [pc |-> "idle", seen |-> None]

Init ==
    /\ manifest = [d \in Devices |-> [f \in Files |-> IF f \in Stored THEN "live" ELSE "none"]]
    /\ chunk = [d \in Devices |-> Fence]
    /\ intent = [d \in Devices |-> None]
    /\ seen = [d \in Devices |-> None]
    /\ base = [i \in {"chunk", "intent"} |-> IF i = "chunk" THEN Fence ELSE None]
    /\ late = [i \in Items |-> 0]
    /\ put = [d \in Devices |-> NoPut]
    /\ gc = [d \in Devices |-> NoGC]
    /\ missed = FALSE /\ crashes = 0

\* PutReader of a new file; its chunk is looked up.
Stat(d, f) ==
    /\ d \in PutOn
    /\ put[d].pc = "idle"
    /\ \A e \in Devices : manifest[e][f] = "none" /\ put[e].file # f
    /\ put' = [put EXCEPT ![d] = [pc |-> IF chunk[d] = None THEN "write" ELSE "touch",
                                  file |-> f, age |-> 0]]
    /\ UNCHANGED <<manifest, chunk, intent, seen, base, late, gc, missed, crashes>>

\* Mutant of TouchChunk: the chunk's mtime is left as it is.
TouchChunkNot(d, ok) ==
    /\ put[d].pc = "touch"
    /\ put' = [put EXCEPT ![d].pc = "commit"]
    /\ missed' = (missed \/ ~ok \/ chunk[d] = None)
    /\ UNCHANGED <<manifest, chunk, intent, seen, base, late, gc, crashes>>

\* Dedup reuse: the mtime is refreshed.  The error of Chtimes is ignored, also that
\* of a chunk that went since Stat saw it.
TouchChunk(d, ok) ==
    /\ put[d].pc = "touch"
    /\ chunk' = [chunk EXCEPT ![d] = IF ok /\ @ # None THEN 0 ELSE @]
    /\ put' = [put EXCEPT ![d].pc = "commit"]
    /\ missed' = (missed \/ ~ok \/ chunk[d] = None)
    /\ UNCHANGED <<manifest, intent, seen, base, late, gc, crashes>>

WriteChunk(d) ==
    /\ put[d].pc = "write"
    /\ chunk' = [chunk EXCEPT ![d] = 0]
    /\ put' = [put EXCEPT ![d].pc = "commit"]
    /\ UNCHANGED <<manifest, intent, seen, base, late, gc, missed, crashes>>

\* The manifest of the file is written and the put is over.
CommitPut(d) ==
    /\ put[d].pc = "commit"
    /\ manifest' = [manifest EXCEPT ![d][put[d].file] = "live"]
    /\ put' = [put EXCEPT ![d] = NoPut]
    /\ UNCHANGED <<chunk, intent, seen, base, late, gc, missed, crashes>>

RemovePath(d, f) ==
    /\ manifest[d][f] = "live"
    /\ manifest' = [manifest EXCEPT ![d][f] = "gone"]
    /\ UNCHANGED <<chunk, intent, seen, base, late, put, gc, missed, crashes>>

--------------------------------------------------------------------------------
(* gcConfirm.  The first-seen record is changed in memory and saved at the *)
(* end of each phase.                                                      *)

\* Mutant of Cancels: an intent whose chunk is gone is kept.
CancelsLiveOnly(d) == intent[d] # None /\ Referenced(manifest[d])

\* An intent is cancelled when its chunk is referenced again, reaped when it is gone.
Cancels(d) == intent[d] # None /\ (Referenced(manifest[d]) \/ chunk[d] = None)

\* Phase 1, its reads and writes in one step: it changes nothing but intents and the
\* note, and an intent written for a chunk that is referred to meanwhile is as any
\* other that a later run cancels.
GCPhase1(d) ==
    LET unreferenced == chunk[d] # None /\ ~Referenced(manifest[d])
        note == IF intent[d] = None THEN seen[d]
                ELSE IF Cancels(d) THEN None
                ELSE IF seen[d] = None THEN 0 ELSE seen[d]
    IN  /\ gc[d].pc = "idle"
        /\ intent' = [intent EXCEPT ![d] = IF Cancels(d) THEN None
                                           ELSE IF @ = None /\ unreferenced THEN 0 ELSE @]
        /\ gc' = [gc EXCEPT ![d] = [pc |-> "phase2", seen |-> note]]
        /\ UNCHANGED <<manifest, chunk, seen, base, late, put, missed, crashes>>

\* All three fences are cleared.
Expired(d) == intent[d] = Fence /\ gc[d].seen = Fence /\ chunk[d] = Fence

\* Phase 1 is saved; the index is loaded again if its fingerprint changed, intents and
\* chunks are read, and the chunk's fate is decided.  What changes after these reads
\* the removal does not see.
GCPhase2(d) ==
    LET live == Referenced(manifest[d])
    IN  /\ gc[d].pc = "phase2"
        /\ seen' = [seen EXCEPT ![d] = gc[d].seen]
        /\ IF intent[d] = None \/ chunk[d] = None
           THEN /\ gc' = [gc EXCEPT ![d] = NoGC]
                /\ UNCHANGED intent
           ELSE IF live
           THEN /\ intent' = [intent EXCEPT ![d] = None]
                /\ gc' = [gc EXCEPT ![d].pc = "save", ![d].seen = None]
           ELSE /\ gc' = [gc EXCEPT ![d] = IF Expired(d) THEN [@ EXCEPT !.pc = "remove"] ELSE NoGC]
                /\ UNCHANGED intent
        /\ UNCHANGED <<manifest, chunk, base, late, put, missed, crashes>>

\* The decision no longer holds: the chunk was refreshed, written again or referred
\* to since.
Overtaken(d) == chunk[d] # None /\ (chunk[d] # Fence \/ Referenced(manifest[d]))

\* The chunk goes first, then the intents.  Nothing looks at the chunk again.
GCRemoveChunk(d) ==
    /\ gc[d].pc = "remove"
    /\ chunk' = [chunk EXCEPT ![d] = None]
    /\ gc' = [gc EXCEPT ![d].pc = "intents"]
    /\ missed' = (missed \/ Overtaken(d))
    /\ UNCHANGED <<manifest, intent, seen, base, late, put, crashes>>

GCRemoveIntents(d) ==
    /\ gc[d].pc = "intents"
    /\ intent' = [intent EXCEPT ![d] = None]
    /\ gc' = [gc EXCEPT ![d].pc = "save", ![d].seen = None]
    /\ UNCHANGED <<manifest, chunk, seen, base, late, put, missed, crashes>>

GCSave(d) ==
    /\ gc[d].pc = "save"
    /\ seen' = [seen EXCEPT ![d] = gc[d].seen]
    /\ gc' = [gc EXCEPT ![d] = NoGC]
    /\ UNCHANGED <<manifest, chunk, intent, base, late, put, missed, crashes>>

\* The run stops where it is: the process ends, or a write or removal fails.
GCCrash(d) ==
    /\ crashes < MaxCrashes
    /\ gc[d].pc # "idle"
    /\ gc' = [gc EXCEPT ![d] = NoGC]
    /\ crashes' = crashes + 1
    /\ UNCHANGED <<manifest, chunk, intent, seen, base, late, put, missed>>

--------------------------------------------------------------------------------
(* The sync client (external) and the clock.                               *)

\* Changed on one side, that side's value; changed on both, an edit wins over a
\* deletion and two edits are both kept, which the readers fold.
Merge(v, b, folded) ==
    IF v[1] = v[2] \/ v[2] = b THEN v[1]
    ELSE IF v[1] = b \/ v[1] = None THEN v[2]
    ELSE IF v[2] = None THEN v[1]
    ELSE folded

Newest(a, b) == IF a < b THEN a ELSE b
Oldest(a, b) == IF a < b THEN b ELSE a

SyncChunk ==
    LET merged == Merge(chunk, base["chunk"], Newest(chunk[1], chunk[2]))
    IN  /\ chunk[1] # chunk[2]
        /\ chunk' = [d \in Devices |-> merged]
        /\ base' = [base EXCEPT !["chunk"] = merged]
        /\ late' = [late EXCEPT !["chunk"] = 0]
        /\ UNCHANGED <<manifest, intent, seen, put, gc, missed, crashes>>

SyncIntent ==
    LET merged == Merge(intent, base["intent"], Oldest(intent[1], intent[2]))
    IN  /\ intent[1] # intent[2]
        /\ intent' = [d \in Devices |-> merged]
        /\ base' = [base EXCEPT !["intent"] = merged]
        /\ UNCHANGED <<manifest, chunk, seen, late, put, gc, missed, crashes>>

\* The manifest of a file, with what compact makes of its versions.
SyncManifest(f) ==
    LET merged == IF \E d \in Devices : manifest[d][f] = "gone" THEN "gone" ELSE "live"
    IN  /\ manifest[1][f] # manifest[2][f]
        /\ manifest' = [d \in Devices |-> [manifest[d] EXCEPT ![f] = merged]]
        /\ late' = [late EXCEPT ![f] = 0]
        /\ UNCHANGED <<chunk, intent, seen, base, put, gc, missed, crashes>>

InSync(i) ==
    IF i = "chunk" THEN chunk[1] = chunk[2]
    ELSE manifest[1][i] = manifest[2][i]

\* A unit of time passes: no put takes longer than MaxPut and no delivery longer than
\* MaxLag.
Tick ==
    /\ \A d \in Devices : put[d].pc # "idle" => put[d].age < MaxPut
    /\ \A i \in Items : InSync(i) \/ late[i] < MaxLag
    /\ late' = [i \in Items |-> IF InSync(i) THEN 0 ELSE late[i] + 1]
    /\ chunk' = [d \in Devices |-> Older(chunk[d])]
    /\ intent' = [d \in Devices |-> Older(intent[d])]
    /\ seen' = [d \in Devices |-> Older(seen[d])]
    /\ base' = [i \in {"chunk", "intent"} |-> Older(base[i])]
    /\ put' = [d \in Devices |-> IF put[d].pc = "idle" THEN NoPut
                                 ELSE [put[d] EXCEPT !.age = @ + 1]]
    /\ gc' = [d \in Devices |-> [gc[d] EXCEPT !.seen = Older(@)]]
    /\ UNCHANGED <<manifest, missed, crashes>>

Put(d) == \/ \E f \in Files : Stat(d, f)
          \/ \E ok \in BOOLEAN : TouchChunk(d, ok)
          \/ WriteChunk(d) \/ CommitPut(d)

\* seavault gc --confirm (and the web UI's collection) starts a run; without it nothing
\* is written.
cmdGC(d) == GCPhase1(d)

Collect(d) ==
    \/ cmdGC(d) \/ GCPhase2(d)
    \/ GCRemoveChunk(d) \/ GCRemoveIntents(d) \/ GCSave(d)

Sync == SyncChunk \/ SyncIntent \/ \E f \in Files : SyncManifest(f)

Next ==
    \/ \E d \in Devices :
          \/ Put(d)
          \/ \E f \in Files : RemovePath(d, f)
          \/ Collect(d)
          \/ GCCrash(d)
    \/ Sync
    \/ Tick

Spec == Init /\ [][Next]_vars

\* Some device runs the collector again and again, the sync client delivers and time
\* passes.
FairSpec ==
    /\ Spec
    /\ WF_vars(\E d \in Devices : Collect(d))
    /\ WF_vars(SyncChunk) /\ WF_vars(SyncIntent)
    /\ WF_vars(Tick)

--------------------------------------------------------------------------------
\* Ages stay within the fence, and nothing is late or under way for too long.
TypeOK ==
    /\ manifest \in [Devices -> [Files -> {"none", "live", "gone"}]]
    /\ chunk \in [Devices -> Age \cup {None}]
    /\ intent \in [Devices -> Age \cup {None}]
    /\ seen \in [Devices -> Age \cup {None}]
    /\ base \in [{"chunk", "intent"} -> Age \cup {None}]
    /\ late \in [Items -> 0 .. MaxLag]
    /\ \A d \in Devices : put[d] = NoPut \/ put[d] \in [pc : {"write", "touch", "commit"},
                                                          file : Files, age : 0 .. MaxPut]
    /\ gc \in [Devices -> [pc : {"idle", "phase2", "remove", "intents", "save"},
                           seen : Age \cup {None}]]

\* The chunk of a file that nobody removed is lost in two ways only, whatever the
\* delay of manifests, touches and deletions and wherever a collection stops: a
\* collection removed a chunk that was refreshed or referred to since it decided
\* (gc.go: gcConfirm), or a put reused a chunk without refreshing it, because the
\* touch failed or the chunk had gone meanwhile (vault.go: storeChunk).  Otherwise a
\* device or the sync client still has it.
NoDanglingReference ==
    (\E f \in Files : (\E d \in Devices : manifest[d][f] = "live")
                      /\ \A d \in Devices : manifest[d][f] # "gone")
        => missed \/ \E d \in Devices : chunk[d] # None

\* Garbage is collected in the end, with its intents, on every device.
GarbageGoes ==
    (\A f \in Files, d \in Devices : manifest[d][f] = "gone")
        ~> (\A d \in Devices : chunk[d] = None /\ intent[d] = None)
================================================================================
