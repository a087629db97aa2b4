------------------------ MODULE GarbageCollect_proof ------------------------
(***************************************************************************)
(* The collector never removes the chunk of a file that nobody removed,    *)
(* for any files, fence, lag and length of a put with MaxPut + MaxLag      *)
(* below the fence, until a removal comes too late for its decision or a   *)
(* put reuses the chunk without refreshing it (missed).                    *)
(***************************************************************************)
EXTENDS GarbageCollect, TLAPS

Other(d) == 3 - d
CommonChunk == base["chunk"]

\* Nobody removed the file, and some device has its manifest.
Kept(f) == /\ \E d \in Devices : manifest[d][f] = "live"
           /\ \A d \in Devices : manifest[d][f] # "gone"

-----------------------------------------------------------------------------
(* The types, put as a function. *)

PutUnderWay == [pc : {"write", "touch", "commit"}, file : Files, age : 0 .. MaxPut]

AgeOrNone == Age \cup {None}
GCUnderWay == [pc : {"idle", "phase2", "remove", "intents", "save"}, seen : AgeOrNone]

Types ==
    /\ manifest \in [Devices -> [Files -> {"none", "live", "gone"}]]
    /\ chunk \in [Devices -> AgeOrNone]
    /\ intent \in [Devices -> AgeOrNone]
    /\ seen \in [Devices -> AgeOrNone]
    /\ base \in [{"chunk", "intent"} -> AgeOrNone]
    /\ late \in [Items -> 0 .. MaxLag]
    /\ put \in [Devices -> PutUnderWay \cup {NoPut}]
    /\ gc \in [Devices -> GCUnderWay]

-----------------------------------------------------------------------------
(* What a copy of the chunk may be.  A device's copy is no older than the  *)
(* last common one, and was removed only if that one was past the fence.   *)
NoOlderThanCommon ==
    CommonChunk # None =>
        \A d \in Devices : IF chunk[d] = None THEN CommonChunk = Fence ELSE chunk[d] <= CommonChunk

\* The younger of two different copies is as young as their time out of sync.
YoungerIsNews ==
    \A d \in Devices :
        /\ chunk[d] # None /\ chunk[d] < Fence
        /\ chunk[Other(d)] = None \/ chunk[d] < chunk[Other(d)]
        => chunk[d] <= late["chunk"]

\* A put about to write its manifest has touched or written the chunk.
PutIsFresh ==
    \A d \in Devices :
        /\ put[d].pc = "commit" => chunk[d] \in 0 .. put[d].age
        /\ put[d].pc # "idle" => \A e \in Devices : manifest[e][put[d].file] = "none"

PutsDiffer == put[1].pc # "idle" /\ put[2].pc # "idle" => put[1].file # put[2].file

\* A manifest that has not reached the other device is no older than its lag,
\* and its chunk, where it was put, no older than the put and the lag.
LagBoundsAge ==
    \A f \in Files, d \in Devices :
        manifest[d][f] = "live" /\ manifest[Other(d)][f] = "none"
            => chunk[d] \in 0 .. (MaxPut + late[f])

\* Where the chunk of a kept file is gone, the other device has a copy that a
\* sync keeps.
SurvivesSync ==
    \A f \in Files : Kept(f) =>
        \A d \in Devices : chunk[d] = None =>
            /\ chunk[Other(d)] # None
            /\ CommonChunk # None => chunk[Other(d)] < Fence

GCInv ==
    /\ Types
    /\ NoOlderThanCommon /\ YoungerIsNews
    /\ PutIsFresh /\ PutsDiffer
    /\ LagBoundsAge /\ SurvivesSync

-----------------------------------------------------------------------------
(* Type correctness, whatever interleaves. *)

LEMMA OlderIsAge == \A a \in AgeOrNone : Older(a) \in AgeOrNone
BY FenceAssumption DEF AgeOrNone, Age, Older, None

LEMMA TypesInit == Init => Types
<1> SUFFICES ASSUME Init PROVE Types OBVIOUS
<1>1. Fence \in AgeOrNone /\ None \in AgeOrNone BY FenceAssumption DEF AgeOrNone, Age, None
<1>2. NoGC \in GCUnderWay BY <1>1 DEF NoGC, GCUnderWay
<1>3. 0 \in 0 .. MaxLag BY FenceAssumption
<1> QED BY <1>1, <1>2, <1>3 DEF Init, Types

LEMMA TypesPut ==
    ASSUME Types, NEW d \in Devices, Put(d)
    PROVE  Types'
<1> USE DEF Types
<1>0. 0 \in AgeOrNone /\ None \in AgeOrNone /\ 0 \in 0 .. MaxPut
  BY FenceAssumption DEF AgeOrNone, Age
<1>1. ASSUME NEW f \in Files, Stat(d, f) PROVE Types'
  <2> DEFINE p == [pc |-> IF chunk[d] = None THEN "write" ELSE "touch", file |-> f, age |-> 0]
  <2>1. p \in PutUnderWay BY <1>0 DEF PutUnderWay
  <2>2. put' = [put EXCEPT ![d] = p] BY <1>1 DEF Stat
  <2> HIDE DEF p
  <2>3. put' \in [Devices -> PutUnderWay \cup {NoPut}] BY <2>1, <2>2
  <2> QED BY <1>1, <2>3 DEF Stat
<1>2. ASSUME put[d].pc # "idle", put' = [put EXCEPT ![d].pc = "commit"]
      PROVE  put' \in [Devices -> PutUnderWay \cup {NoPut}]
  <2>1. put[d] \in PutUnderWay BY <1>2 DEF NoPut
  <2>2. [put[d] EXCEPT !.pc = "commit"] \in PutUnderWay BY <2>1 DEF PutUnderWay
  <2>3. put' = [put EXCEPT ![d] = [put[d] EXCEPT !.pc = "commit"]] BY <1>2
  <2> DEFINE p == [put[d] EXCEPT !.pc = "commit"]
  <2> HIDE DEF p
  <2> QED BY <2>2, <2>3 DEF p
<1>3. ASSUME NEW ok \in BOOLEAN, TouchChunk(d, ok) PROVE Types'
  <2>1. put' \in [Devices -> PutUnderWay \cup {NoPut}] BY <1>2, <1>3 DEF TouchChunk
  <2>2. chunk' \in [Devices -> AgeOrNone] BY <1>0, <1>3 DEF TouchChunk
  <2> QED BY <1>3, <2>1, <2>2 DEF TouchChunk
<1>4. CASE WriteChunk(d)
  <2>1. put' \in [Devices -> PutUnderWay \cup {NoPut}] BY <1>2, <1>4 DEF WriteChunk
  <2>2. chunk' \in [Devices -> AgeOrNone] BY <1>0, <1>4 DEF WriteChunk
  <2> QED BY <1>4, <2>1, <2>2 DEF WriteChunk
<1>5. CASE CommitPut(d)
  <2>1. put' \in [Devices -> PutUnderWay \cup {NoPut}] BY <1>5 DEF CommitPut
  <2>2. manifest' \in [Devices -> [Files -> {"none", "live", "gone"}]] BY <1>5 DEF CommitPut
  <2> QED BY <1>5, <2>1, <2>2 DEF CommitPut
<1> QED BY <1>1, <1>3, <1>4, <1>5 DEF Put

LEMMA TypesGC ==
    ASSUME Types, NEW d \in Devices, Collect(d) \/ GCCrash(d)
    PROVE  Types'
<1> USE DEF Types
<1>0. 0 \in AgeOrNone /\ None \in AgeOrNone /\ NoGC \in GCUnderWay
  BY FenceAssumption DEF AgeOrNone, Age, NoGC, GCUnderWay
<1>1. gc[d] \in GCUnderWay /\ gc[d].seen \in AgeOrNone BY DEF GCUnderWay
<1>2. CASE GCPhase1(d)
  <2> DEFINE note == IF intent[d] = None THEN seen[d]
                     ELSE IF Cancels(d) THEN None
                     ELSE IF seen[d] = None THEN 0 ELSE seen[d]
  <2>1. note \in AgeOrNone BY <1>0
  <2>2. gc' = [gc EXCEPT ![d] = [pc |-> "phase2", seen |-> note]] BY <1>2 DEF GCPhase1
  <2> HIDE DEF note
  <2>3. [pc |-> "phase2", seen |-> note] \in GCUnderWay BY <2>1 DEF GCUnderWay
  <2>4. gc' \in [Devices -> GCUnderWay] BY <2>2, <2>3
  <2>5. intent' \in [Devices -> AgeOrNone] BY <1>0, <1>2 DEF GCPhase1
  <2> QED BY <1>2, <2>4, <2>5 DEF GCPhase1
<1>3. ASSUME NEW pc \in {"remove", "intents", "save"} PROVE [gc[d] EXCEPT !.pc = pc] \in GCUnderWay
  BY <1>1 DEF GCUnderWay
<1>4. [gc[d] EXCEPT !.pc = "save", !.seen = None] \in GCUnderWay
  BY <1>0, <1>1 DEF GCUnderWay
<1>5. CASE GCPhase2(d)
  <2>1. seen' \in [Devices -> AgeOrNone] BY <1>1, <1>5 DEF GCPhase2
  <2>2. CASE intent[d] = None \/ chunk[d] = None
    BY <1>0, <1>5, <2>1, <2>2 DEF GCPhase2
  <2>3. CASE ~(intent[d] = None \/ chunk[d] = None) /\ Referenced(manifest[d])
    <3>1. gc' = [gc EXCEPT ![d] = [gc[d] EXCEPT !.pc = "save", !.seen = None]]
      BY <1>1, <1>5, <2>3 DEF GCPhase2, GCUnderWay
    <3>2. intent' \in [Devices -> AgeOrNone] BY <1>0, <1>5, <2>3 DEF GCPhase2
    <3> DEFINE g == [gc[d] EXCEPT !.pc = "save", !.seen = None]
    <3>3. g \in GCUnderWay /\ gc' = [gc EXCEPT ![d] = g] BY <1>4, <3>1
    <3> HIDE DEF g
    <3>4. gc' \in [Devices -> GCUnderWay] BY <3>3
    <3> QED BY <1>5, <2>1, <3>2, <3>4 DEF GCPhase2
  <2>4. CASE ~(intent[d] = None \/ chunk[d] = None) /\ ~Referenced(manifest[d])
    <3> DEFINE g == IF Expired(d) THEN [gc[d] EXCEPT !.pc = "remove"] ELSE NoGC
    <3>1. gc' = [gc EXCEPT ![d] = g] /\ UNCHANGED intent BY <1>5, <2>4 DEF GCPhase2
    <3>2. g \in GCUnderWay BY <1>0, <1>3
    <3> HIDE DEF g
    <3>3. gc' \in [Devices -> GCUnderWay] BY <3>1, <3>2
    <3> QED BY <1>5, <2>1, <3>1, <3>3 DEF GCPhase2
  <2> QED BY <2>2, <2>3, <2>4
<1>6. CASE GCRemoveChunk(d)
  <2>1. gc' = [gc EXCEPT ![d] = [gc[d] EXCEPT !.pc = "intents"]] BY <1>6 DEF GCRemoveChunk
  <2>2. gc' \in [Devices -> GCUnderWay] BY <1>3, <2>1
  <2>3. chunk' \in [Devices -> AgeOrNone] BY <1>0, <1>6 DEF GCRemoveChunk
  <2> QED BY <1>6, <2>2, <2>3 DEF GCRemoveChunk
<1>7. CASE GCRemoveIntents(d)
  <2>1. gc' = [gc EXCEPT ![d] = [gc[d] EXCEPT !.pc = "save", !.seen = None]]
    BY <1>1, <1>7 DEF GCRemoveIntents, GCUnderWay
  <2> DEFINE g == [gc[d] EXCEPT !.pc = "save", !.seen = None]
  <2>2. g \in GCUnderWay /\ gc' = [gc EXCEPT ![d] = g] BY <1>4, <2>1
  <2> HIDE DEF g
  <2>3. gc' \in [Devices -> GCUnderWay] BY <2>2
  <2>4. intent' \in [Devices -> AgeOrNone] BY <1>0, <1>7 DEF GCRemoveIntents
  <2> QED BY <1>7, <2>3, <2>4 DEF GCRemoveIntents
<1>8. CASE GCSave(d) BY <1>0, <1>1, <1>8 DEF GCSave
<1>9. CASE GCCrash(d) BY <1>0, <1>9 DEF GCCrash
<1> QED BY <1>2, <1>5, <1>6, <1>7, <1>8, <1>9 DEF Collect, cmdGC

LEMMA TypesSync == ASSUME Types, Sync PROVE Types'
<1> USE DEF Types
<1>d. 1 \in Devices /\ 2 \in Devices BY DEF Devices
<1>0. 0 \in 0 .. MaxLag /\ "chunk" \in Items BY FenceAssumption DEF Items
<1>1. CASE SyncChunk
  <2> DEFINE merged == Merge(chunk, base["chunk"], Newest(chunk[1], chunk[2]))
  <2>1. merged \in AgeOrNone BY <1>d DEF Merge, Newest
  <2>2. /\ chunk' = [d \in Devices |-> merged] /\ base' = [base EXCEPT !["chunk"] = merged]
        /\ late' = [late EXCEPT !["chunk"] = 0]
    BY <1>1 DEF SyncChunk
  <2> HIDE DEF merged
  <2> QED BY <1>0, <1>1, <2>1, <2>2 DEF SyncChunk
<1>2. CASE SyncIntent
  <2> DEFINE merged == Merge(intent, base["intent"], Oldest(intent[1], intent[2]))
  <2>1. merged \in AgeOrNone BY <1>d DEF Merge, Oldest
  <2>2. intent' = [d \in Devices |-> merged] /\ base' = [base EXCEPT !["intent"] = merged]
    BY <1>2 DEF SyncIntent
  <2> HIDE DEF merged
  <2> QED BY <1>2, <2>1, <2>2 DEF SyncIntent
<1>3. ASSUME NEW f \in Files, SyncManifest(f) PROVE Types'
  <2> DEFINE merged == IF \E d \in Devices : manifest[d][f] = "gone" THEN "gone" ELSE "live"
  <2>1. merged \in {"none", "live", "gone"} OBVIOUS
  <2>2. /\ manifest' = [d \in Devices |-> [manifest[d] EXCEPT ![f] = merged]]
        /\ late' = [late EXCEPT ![f] = 0]
    BY <1>3 DEF SyncManifest
  <2> HIDE DEF merged
  <2>3. manifest' \in [Devices -> [Files -> {"none", "live", "gone"}]] BY <2>1, <2>2
  <2>4. late' \in [Items -> 0 .. MaxLag] BY <1>0, <2>2
  <2> QED BY <1>3, <2>3, <2>4 DEF SyncManifest
<1> QED BY <1>1, <1>2, <1>3 DEF Sync

LEMMA TypesTick == ASSUME Types, Tick PROVE Types'
<1> USE DEF Types
<1>1. /\ chunk' \in [Devices -> AgeOrNone] /\ intent' \in [Devices -> AgeOrNone]
      /\ seen' \in [Devices -> AgeOrNone] /\ base' \in [{"chunk", "intent"} -> AgeOrNone]
  BY OlderIsAge DEF Tick
<1>2. late' \in [Items -> 0 .. MaxLag] BY FenceAssumption DEF Tick
<1>3. put' \in [Devices -> PutUnderWay \cup {NoPut}]
  <2>1. put' = [d \in Devices |-> IF put[d].pc = "idle" THEN NoPut ELSE [put[d] EXCEPT !.age = @ + 1]]
    BY DEF Tick
  <2>2. ASSUME NEW d \in Devices, put[d].pc # "idle" PROVE [put[d] EXCEPT !.age = @ + 1] \in PutUnderWay
    <3>1. put[d] \in PutUnderWay BY <2>2 DEF NoPut
    <3>2. put[d].age < MaxPut BY <2>2 DEF Tick
    <3>3. put[d].age + 1 \in 0 .. MaxPut BY <3>1, <3>2, FenceAssumption DEF PutUnderWay
    <3> QED BY <3>1, <3>3 DEF PutUnderWay
  <2> QED BY <2>1, <2>2
<1>4. gc' \in [Devices -> GCUnderWay]
  <2>1. \A d \in Devices : [gc[d] EXCEPT !.seen = Older(@)] \in GCUnderWay
    BY OlderIsAge DEF GCUnderWay
  <2> QED BY <2>1 DEF Tick
<1> QED BY <1>1, <1>2, <1>3, <1>4 DEF Tick

LEMMA TypesStep == Types /\ [Next]_vars => Types'
<1> SUFFICES ASSUME Types, [Next]_vars PROVE Types' OBVIOUS
<1>1. ASSUME NEW d \in Devices, NEW f \in Files, RemovePath(d, f) PROVE Types'
  <2>1. manifest' \in [Devices -> [Files -> {"none", "live", "gone"}]] BY <1>1 DEF RemovePath, Types
  <2> QED BY <1>1, <2>1 DEF RemovePath, Types
<1>2. CASE UNCHANGED vars BY <1>2 DEF vars, Types
<1> QED BY <1>1, <1>2, TypesPut, TypesGC, TypesSync, TypesTick DEF Next

\* TypeOK: ages stay within the fence, nothing is late or under way for longer
\* than the bounds (gc.go: gcConfirm; vault.go: storeChunk).
THEOREM AgesBounded == Spec => []TypeOK
<1>1. Types => TypeOK BY DEF Types, TypeOK, AgeOrNone, GCUnderWay, PutUnderWay
<1> QED BY <1>1, TypesInit, TypesStep, PTL DEF Spec

-----------------------------------------------------------------------------
(* Two devices. *)

LEMMA TwoDevices ==
    \A d \in Devices : /\ Other(d) \in Devices /\ Other(d) # d /\ Other(Other(d)) = d
                       /\ \A e \in Devices : e = d \/ e = Other(d)
BY DEF Devices, Other

LEMMA Ages ==
    ASSUME Types
    PROVE  /\ Fence \in Nat /\ MaxLag \in Nat /\ MaxPut \in Nat /\ MaxPut + MaxLag < Fence /\ None = -1
           /\ \A d \in Devices : chunk[d] \in Int /\ chunk[d] <= Fence /\ (chunk[d] # None => chunk[d] >= 0)
           /\ CommonChunk \in Int /\ CommonChunk <= Fence /\ (CommonChunk # None => CommonChunk >= 0)
           /\ \A i \in Items : late[i] \in Nat /\ late[i] <= MaxLag
           /\ \A d \in Devices : put[d].pc # "idle" =>
                 put[d] \in PutUnderWay /\ put[d].age \in Nat /\ put[d].age <= MaxPut /\ put[d].file \in Files
           /\ "chunk" \in Items /\ Files \subseteq Items
<1>1. Fence \in Nat /\ MaxLag \in Nat /\ MaxPut \in Nat /\ MaxPut + MaxLag < Fence /\ None = -1
  BY FenceAssumption DEF None
<1>2. \A a \in AgeOrNone : a \in Int /\ a <= Fence /\ (a # None => a >= 0)
  BY <1>1 DEF AgeOrNone, Age
<1>3. \A d \in Devices : chunk[d] \in AgeOrNone BY DEF Types
<1>4. CommonChunk \in AgeOrNone BY DEF Types, CommonChunk
<1>5. \A i \in Items : late[i] \in Nat /\ late[i] <= MaxLag BY <1>1 DEF Types
<1>6. ASSUME NEW d \in Devices, put[d].pc # "idle"
      PROVE  put[d] \in PutUnderWay /\ put[d].age \in Nat /\ put[d].age <= MaxPut /\ put[d].file \in Files
  <2>1. put[d] \in PutUnderWay BY <1>6 DEF Types, NoPut
  <2> QED BY <1>1, <2>1 DEF PutUnderWay
<1>7. "chunk" \in Items /\ Files \subseteq Items BY DEF Items
<1> QED BY <1>1, <1>2, <1>3, <1>4, <1>5, <1>6, <1>7

\* The conjuncts about copies and manifests depend on these variables only.
CopiesInv == NoOlderThanCommon /\ YoungerIsNews /\ LagBoundsAge /\ SurvivesSync

LEMMA CopiesSame ==
    ASSUME CopiesInv, UNCHANGED <<manifest, chunk, late>>, CommonChunk' = CommonChunk
    PROVE  CopiesInv'
BY DEF CopiesInv, NoOlderThanCommon, YoungerIsNews, LagBoundsAge, SurvivesSync, Kept

\* A put refreshes the chunk of its device, or writes it.
LEMMA CopyRenewed ==
    ASSUME GCInv, NEW d \in Devices, chunk' = [chunk EXCEPT ![d] = 0], UNCHANGED <<manifest, base, late>>
    PROVE  CopiesInv'
<1> USE TwoDevices
<1>1. Types BY DEF GCInv
<1>2. /\ Fence \in Nat /\ MaxLag \in Nat /\ MaxPut \in Nat /\ MaxPut + MaxLag < Fence /\ None = -1
      /\ \A e \in Devices : chunk[e] \in Int /\ (chunk[e] # None => chunk[e] >= 0)
      /\ CommonChunk \in Int /\ (CommonChunk # None => CommonChunk >= 0)
      /\ \A i \in Items : late[i] \in Nat
      /\ "chunk" \in Items /\ Files \subseteq Items
  BY <1>1, Ages
<1>3. chunk'[d] = 0 /\ \A e \in Devices : e # d => chunk'[e] = chunk[e] BY <1>1 DEF Types
<1>4. CommonChunk' = CommonChunk BY DEF CommonChunk
<1>5. NoOlderThanCommon' BY <1>2, <1>3, <1>4 DEF GCInv, NoOlderThanCommon
<1>6. YoungerIsNews' BY <1>2, <1>3 DEF GCInv, YoungerIsNews
<1>7. LagBoundsAge'
  <2> SUFFICES ASSUME NEW f \in Files, NEW e \in Devices, manifest[e][f] = "live", manifest[Other(e)][f] = "none"
               PROVE  chunk'[e] \in 0 .. (MaxPut + late[f])
    BY DEF LagBoundsAge
  <2>1. CASE e = d BY <1>2, <1>3, <2>1
  <2>2. CASE e # d BY <1>3, <2>2 DEF GCInv, LagBoundsAge
  <2> QED BY <2>1, <2>2
<1>8. SurvivesSync'
  <2> SUFFICES ASSUME NEW f \in Files, Kept(f)', NEW e \in Devices, chunk'[e] = None
               PROVE  chunk'[Other(e)] # None /\ (CommonChunk' # None => chunk'[Other(e)] < Fence)
    BY DEF SurvivesSync
  <2>1. Other(e) = d BY <1>2, <1>3
  <2> QED BY <1>2, <1>3, <2>1
<1> QED BY <1>5, <1>6, <1>7, <1>8 DEF CopiesInv

\* A sync never makes the copy of a device older, or takes it away, unless it
\* is the common one and past the fence.
LEMMA MergeKeeps ==
    ASSUME Types, NoOlderThanCommon, NEW d \in Devices, NEW k \in Nat, k < Fence, chunk[d] \in 0 .. k
    PROVE  Merge(chunk, CommonChunk, Newest(chunk[1], chunk[2])) \in 0 .. k
<1>1. /\ Fence \in Nat /\ None = -1
      /\ \A e \in Devices : chunk[e] \in Int /\ (chunk[e] # None => chunk[e] >= 0)
      /\ CommonChunk \in Int
  BY Ages
<1>2. 1 \in Devices /\ 2 \in Devices /\ (d = 1 \/ d = 2) BY DEF Devices
<1>3. CASE d = 1
  BY <1>1, <1>2, <1>3 DEF NoOlderThanCommon, Merge, Newest
<1>4. CASE d = 2
  BY <1>1, <1>2, <1>4 DEF NoOlderThanCommon, Merge, Newest
<1> QED BY <1>2, <1>3, <1>4

LEMMA MergeSurvives ==
    ASSUME Types, NoOlderThanCommon, SurvivesSync, NEW f \in Files, Kept(f)
    PROVE  Merge(chunk, CommonChunk, Newest(chunk[1], chunk[2])) # None
<1>1. /\ Fence \in Nat /\ None = -1
      /\ \A e \in Devices : chunk[e] \in Int /\ (chunk[e] # None => chunk[e] >= 0)
      /\ CommonChunk \in Int
  BY Ages
<1>2. 1 \in Devices /\ 2 \in Devices /\ Other(1) = 2 /\ Other(2) = 1 BY DEF Devices, Other
<1>3. \A d \in Devices : chunk[d] = None =>
            /\ chunk[Other(d)] # None
            /\ CommonChunk # None => chunk[Other(d)] < Fence /\ CommonChunk = Fence
  BY DEF SurvivesSync, NoOlderThanCommon
<1> QED BY <1>1, <1>2, <1>3 DEF Merge, Newest

-----------------------------------------------------------------------------
(* One lemma per group of actions.  The collector first. *)

LEMMA QuietGC ==
    ASSUME GCInv, NEW d \in Devices,
           \/ GCPhase1(d) \/ GCPhase2(d) \/ GCRemoveIntents(d) \/ GCSave(d) \/ GCCrash(d)
    PROVE  GCInv'
<1>1. Types' BY TypesGC DEF GCInv, Collect, cmdGC
<1>2. UNCHANGED <<manifest, chunk, base, late, put>>
  BY DEF GCPhase1, GCPhase2, GCRemoveIntents, GCSave, GCCrash
<1>3. CopiesInv' BY <1>2, CopiesSame DEF GCInv, CopiesInv, CommonChunk
<1>4. PutIsFresh' /\ PutsDiffer' BY <1>2 DEF GCInv, PutIsFresh, PutsDiffer
<1> QED BY <1>1, <1>3, <1>4 DEF GCInv, CopiesInv

\* The removal, of a chunk that is still as it was found: what refers to it
\* elsewhere has a fresh copy there.
LEMMA RemoveIsSafe ==
    ASSUME GCInv, NEW d \in Devices, GCRemoveChunk(d), ~missed'
    PROVE  GCInv'
<1> USE TwoDevices
<1>0. Types /\ gc \in [Devices -> GCUnderWay] BY DEF GCInv, Types
<1>1. Types' BY <1>0, TypesGC DEF Collect
<1>2. /\ chunk' = [chunk EXCEPT ![d] = None] /\ ~Overtaken(d)
      /\ UNCHANGED <<manifest, base, late, put>>
  BY DEF GCRemoveChunk
<1>13. CASE chunk[d] = None
  <2>1. chunk' = chunk BY <1>0, <1>2, <1>13 DEF Types
  <2>2. CopiesInv' BY <1>2, <2>1, CopiesSame DEF GCInv, CopiesInv, CommonChunk
  <2>3. PutIsFresh' /\ PutsDiffer' BY <1>2, <2>1 DEF GCInv, PutIsFresh, PutsDiffer
  <2> QED BY <1>1, <2>2, <2>3 DEF GCInv, CopiesInv
<1>14. SUFFICES ASSUME chunk[d] # None PROVE GCInv'
  BY <1>13
<1>3. chunk[d] = Fence /\ ~Referenced(manifest[d]) BY <1>2, <1>14 DEF Overtaken
<1>4. /\ Fence \in Nat /\ MaxLag \in Nat /\ MaxPut \in Nat /\ MaxPut + MaxLag < Fence /\ None = -1
      /\ \A e \in Devices : chunk[e] \in Int /\ chunk[e] <= Fence /\ (chunk[e] # None => chunk[e] >= 0)
      /\ CommonChunk \in Int /\ CommonChunk <= Fence
      /\ \A i \in Items : late[i] \in Nat /\ late[i] <= MaxLag
      /\ \A e \in Devices : put[e].pc # "idle" => put[e].age \in Nat /\ put[e].age <= MaxPut
      /\ "chunk" \in Items /\ Files \subseteq Items
  BY <1>0, Ages
<1>5. chunk'[d] = None /\ \A e \in Devices : e # d => chunk'[e] = chunk[e] BY <1>0, <1>2 DEF Types
<1>6. CommonChunk' = CommonChunk BY <1>2 DEF CommonChunk
<1>7. NoOlderThanCommon'
  BY <1>3, <1>4, <1>5, <1>6 DEF GCInv, NoOlderThanCommon
<1>8. YoungerIsNews'
  <2> SUFFICES ASSUME NEW e \in Devices, chunk'[e] # None, chunk'[e] < Fence
               PROVE  chunk'[e] <= late["chunk"]
    BY <1>2 DEF YoungerIsNews
  <2>1. e # d /\ chunk'[e] = chunk[e] /\ Other(e) = d BY <1>5
  <2> QED BY <1>3, <1>4, <2>1 DEF GCInv, YoungerIsNews
<1>9. PutIsFresh'
  <2>1. put[d].pc # "commit" BY <1>3, <1>4 DEF GCInv, PutIsFresh
  <2> QED BY <1>2, <1>5, <2>1 DEF GCInv, PutIsFresh
<1>10. PutsDiffer' BY <1>2 DEF GCInv, PutsDiffer
<1>11. LagBoundsAge'
  <2> SUFFICES ASSUME NEW f \in Files, NEW e \in Devices, manifest[e][f] = "live", manifest[Other(e)][f] = "none"
               PROVE  chunk'[e] \in 0 .. (MaxPut + late[f])
    BY <1>2 DEF LagBoundsAge
  <2>1. e # d BY <1>3 DEF Referenced
  <2> QED BY <1>5, <2>1 DEF GCInv, LagBoundsAge
<1>12. SurvivesSync'
  <2> SUFFICES ASSUME NEW f \in Files, Kept(f)', NEW e \in Devices, chunk'[e] = None
               PROVE  chunk'[Other(e)] # None /\ chunk'[Other(e)] < Fence
    BY DEF SurvivesSync
  <2>1. \A x \in Devices : manifest[x][f] # "gone" BY <1>2 DEF Kept
  <2>2. manifest[d][f] # "live" BY <1>3 DEF Referenced
  <2>3. manifest[d][f] = "none" BY <1>0, <2>1, <2>2 DEF Types
  <2>4. manifest[Other(d)][f] = "live" BY <1>2, <2>2 DEF Kept
  <2>5. chunk[Other(d)] \in 0 .. (MaxPut + late[f]) BY <2>3, <2>4 DEF GCInv, LagBoundsAge
  <2>6. late[f] \in Nat /\ late[f] <= MaxLag BY <1>4
  <2>7. chunk'[Other(d)] # None /\ chunk'[Other(d)] < Fence BY <1>4, <1>5, <2>5, <2>6
  <2>8. e = d BY <2>7
  <2> QED BY <2>7, <2>8
<1> QED BY <1>1, <1>7, <1>8, <1>9, <1>10, <1>11, <1>12 DEF GCInv

-----------------------------------------------------------------------------
(* The puts and the removals of files. *)

LEMMA PutKeeps ==
    ASSUME GCInv, NEW d \in Devices, Put(d), ~missed'
    PROVE  GCInv'
<1> USE TwoDevices
<1>0. Types /\ put \in [Devices -> PutUnderWay \cup {NoPut}] BY DEF GCInv, Types
<1>1. Types' BY <1>0, TypesPut
<1>2. /\ Fence \in Nat /\ MaxLag \in Nat /\ MaxPut \in Nat /\ MaxPut + MaxLag < Fence /\ None = -1
      /\ \A i \in Items : late[i] \in Nat /\ late[i] <= MaxLag
      /\ \A e \in Devices : chunk[e] \in Int
      /\ \A e \in Devices : put[e].pc # "idle" =>
            put[e] \in PutUnderWay /\ put[e].age \in Nat /\ put[e].age <= MaxPut /\ put[e].file \in Files
      /\ "chunk" \in Items /\ Files \subseteq Items
  BY <1>0, Ages
<1>3. ASSUME NEW f \in Files, Stat(d, f) PROVE GCInv'
  <2>1. UNCHANGED <<manifest, chunk, base, late, gc>> BY <1>3 DEF Stat
  <2>2. CopiesInv' BY <2>1, CopiesSame DEF GCInv, CopiesInv, CommonChunk
  <2>3. /\ put'[d].pc = (IF chunk[d] = None THEN "write" ELSE "touch") /\ put'[d].file = f
        /\ \A e \in Devices : e # d => put'[e] = put[e]
        /\ \A e \in Devices : manifest[e][f] = "none" /\ put[e].file # f
    BY <1>0, <1>3 DEF Stat
  <2>4. PutIsFresh' BY <2>1, <2>3 DEF GCInv, PutIsFresh
  <2>5. PutsDiffer'
    <3>1. 1 \in Devices /\ 2 \in Devices /\ (d = 1 \/ d = 2) BY DEF Devices
    <3> QED BY <2>3, <3>1 DEF GCInv, PutsDiffer
  <2> QED BY <1>1, <2>2, <2>4, <2>5 DEF GCInv, CopiesInv
<1>4. CASE (\E ok \in BOOLEAN : TouchChunk(d, ok)) \/ WriteChunk(d)
  <2>1. /\ put[d].pc \in {"touch", "write"} /\ put' = [put EXCEPT ![d].pc = "commit"]
        /\ UNCHANGED <<manifest, base, late, gc>>
    BY <1>4 DEF TouchChunk, WriteChunk
  <2>3. chunk' = [chunk EXCEPT ![d] = 0]
    <3>1. ASSUME NEW ok \in BOOLEAN, TouchChunk(d, ok) PROVE chunk' = [chunk EXCEPT ![d] = 0]
      <4>1. ok /\ chunk[d] # None BY <3>1 DEF TouchChunk
      <4> QED BY <3>1, <4>1 DEF TouchChunk
    <3>2. CASE WriteChunk(d) BY <3>2 DEF WriteChunk
    <3> QED BY <1>4, <3>1, <3>2
  <2>4. CopiesInv' BY <2>1, <2>3, CopyRenewed
  <2>5. /\ put'[d].pc = "commit" /\ put'[d].file = put[d].file /\ put'[d].age = put[d].age
        /\ \A e \in Devices : e # d => put'[e] = put[e]
    <3>1. put[d] \in PutUnderWay BY <1>2, <2>1
    <3> QED BY <1>0, <2>1, <3>1 DEF PutUnderWay
  <2>6. chunk'[d] = 0 /\ \A e \in Devices : e # d => chunk'[e] = chunk[e] BY <1>0, <2>3 DEF Types
  <2>7. PutIsFresh'
    <3>1. put[d].age \in Nat BY <1>2, <2>1
    <3> QED BY <2>1, <2>5, <2>6, <3>1 DEF GCInv, PutIsFresh
  <2>8. PutsDiffer'
    <3>1. 1 \in Devices /\ 2 \in Devices /\ (d = 1 \/ d = 2) BY DEF Devices
    <3> QED BY <2>1, <2>5, <3>1 DEF GCInv, PutsDiffer
  <2> QED BY <1>1, <2>4, <2>7, <2>8 DEF GCInv, CopiesInv
<1>5. CASE CommitPut(d)
  <2> DEFINE g == put[d].file
  <2>1. /\ put[d].pc = "commit" /\ manifest' = [manifest EXCEPT ![d][g] = "live"]
        /\ put' = [put EXCEPT ![d] = NoPut] /\ UNCHANGED <<chunk, base, late, gc>>
    BY <1>5 DEF CommitPut
  <2>2. g \in Files /\ put[d].age \in Nat /\ put[d].age <= MaxPut BY <1>2, <2>1
  <2>3. chunk[d] \in 0 .. put[d].age /\ \A e \in Devices : manifest[e][g] = "none"
    BY <2>1 DEF GCInv, PutIsFresh
  <2> HIDE DEF g
  <2>4. manifest \in [Devices -> [Files -> {"none", "live", "gone"}]] BY <1>0 DEF Types
  <2>5. /\ manifest'[d][g] = "live"
        /\ \A e \in Devices, f \in Files : (e # d \/ f # g) => manifest'[e][f] = manifest[e][f]
    BY <2>1, <2>2, <2>4
  <2>6. put'[d] = NoPut /\ \A e \in Devices : e # d => put'[e] = put[e] BY <1>0, <2>1
  <2>7. NoOlderThanCommon' /\ YoungerIsNews'
    BY <2>1 DEF GCInv, NoOlderThanCommon, YoungerIsNews, CommonChunk
  <2>8. LagBoundsAge'
    <3> SUFFICES ASSUME NEW f \in Files, NEW e \in Devices,
                        manifest'[e][f] = "live", manifest'[Other(e)][f] = "none"
                 PROVE  chunk[e] \in 0 .. (MaxPut + late[f])
      BY <2>1 DEF LagBoundsAge
    <3>1. CASE f = g
      <4>1. e = d BY <2>3, <2>5, <3>1
      <4>2. late[f] \in Nat BY <1>2
      <4> QED BY <1>2, <2>2, <2>3, <4>1, <4>2
    <3>2. CASE f # g BY <2>5, <3>2 DEF GCInv, LagBoundsAge
    <3> QED BY <3>1, <3>2
  <2>9. SurvivesSync'
    <3> SUFFICES ASSUME NEW f \in Files, Kept(f)', NEW e \in Devices, chunk[e] = None
                 PROVE  chunk[Other(e)] # None /\ (CommonChunk # None => chunk[Other(e)] < Fence)
      BY <2>1 DEF SurvivesSync, CommonChunk
    <3>1. CASE f = g
      <4>1. chunk[d] # None /\ chunk[d] < Fence BY <1>2, <2>2, <2>3
      <4>2. Other(e) = d BY <4>1
      <4> QED BY <4>1, <4>2
    <3>2. CASE f # g
      <4>1. Kept(f) BY <2>5, <3>2 DEF Kept
      <4> QED BY <4>1 DEF GCInv, SurvivesSync
    <3> QED BY <3>1, <3>2
  <2>10. PutIsFresh'
    <3>1. ASSUME NEW e \in Devices, put'[e].pc # "idle"
          PROVE  e # d /\ put'[e] = put[e] /\ put[e].file # g /\ put[e].file \in Files
      <4>1. e # d /\ put'[e] = put[e] BY <2>6, <3>1 DEF NoPut
      <4>2. put[e].file # g
        <5>1. 1 \in Devices /\ 2 \in Devices /\ (d = 1 \/ d = 2) /\ (e = 1 \/ e = 2) BY DEF Devices
        <5> QED BY <2>1, <3>1, <4>1, <5>1 DEF GCInv, PutsDiffer, g
      <4> QED BY <1>2, <3>1, <4>1, <4>2
    <3>2. ASSUME NEW e \in Devices
          PROVE  /\ put'[e].pc = "commit" => chunk'[e] \in 0 .. put'[e].age
                 /\ put'[e].pc # "idle" => \A x \in Devices : manifest'[x][put'[e].file] = "none"
      BY <2>1, <2>5, <3>1 DEF GCInv, PutIsFresh
    <3> QED BY <3>2 DEF PutIsFresh
  <2>11. PutsDiffer'
    <3>1. 1 \in Devices /\ 2 \in Devices /\ (d = 1 \/ d = 2) BY DEF Devices
    <3> QED BY <2>6, <3>1 DEF PutsDiffer, NoPut
  <2> QED BY <1>1, <2>7, <2>8, <2>9, <2>10, <2>11 DEF GCInv
<1> QED BY <1>3, <1>4, <1>5 DEF Put

LEMMA RemovalKeeps ==
    ASSUME GCInv, NEW d \in Devices, NEW g \in Files, RemovePath(d, g)
    PROVE  GCInv'
<1> USE TwoDevices
<1>0. Types /\ manifest \in [Devices -> [Files -> {"none", "live", "gone"}]] BY DEF GCInv, Types
<1>1. Types' BY <1>0, TypesStep DEF Next
<1>2. /\ manifest[d][g] = "live" /\ manifest' = [manifest EXCEPT ![d][g] = "gone"]
      /\ UNCHANGED <<chunk, base, late, put, gc>>
  BY DEF RemovePath
<1>3. /\ manifest'[d][g] = "gone"
      /\ \A e \in Devices, f \in Files : (e # d \/ f # g) => manifest'[e][f] = manifest[e][f]
  BY <1>0, <1>2
<1>4. NoOlderThanCommon' /\ YoungerIsNews'
  BY <1>2 DEF GCInv, NoOlderThanCommon, YoungerIsNews, CommonChunk
<1>5. LagBoundsAge'
  <2> SUFFICES ASSUME NEW f \in Files, NEW e \in Devices,
                      manifest'[e][f] = "live", manifest'[Other(e)][f] = "none"
               PROVE  chunk[e] \in 0 .. (MaxPut + late[f])
    BY <1>2 DEF LagBoundsAge
  <2>1. manifest[e][f] = "live" /\ manifest[Other(e)][f] = "none" BY <1>3
  <2> QED BY <2>1 DEF GCInv, LagBoundsAge
<1>6. SurvivesSync'
  <2>1. \A f \in Files : Kept(f)' => Kept(f) BY <1>3 DEF Kept
  <2> QED BY <1>2, <2>1 DEF GCInv, SurvivesSync, CommonChunk
<1>7. PutIsFresh' /\ PutsDiffer'
  <2>1. \A e \in Devices : put[e].pc # "idle" => put[e].file \in Files BY <1>0, Ages
  <2>2. \A e \in Devices : put[e].pc # "idle" => put[e].file # g BY <1>2 DEF GCInv, PutIsFresh
  <2> QED BY <1>2, <1>3, <2>1, <2>2 DEF GCInv, PutIsFresh, PutsDiffer
<1> QED BY <1>1, <1>4, <1>5, <1>6, <1>7 DEF GCInv

-----------------------------------------------------------------------------
(* The sync client and the clock. *)

LEMMA SyncKeeps == ASSUME GCInv, Sync PROVE GCInv'
<1> USE TwoDevices
<1>0. Types BY DEF GCInv
<1>1. Types' BY <1>0, TypesSync
<1>2. /\ Fence \in Nat /\ MaxLag \in Nat /\ MaxPut \in Nat /\ MaxPut + MaxLag < Fence /\ None = -1
      /\ \A i \in Items : late[i] \in Nat /\ late[i] <= MaxLag
      /\ \A e \in Devices : put[e].pc # "idle" =>
            put[e].age \in Nat /\ put[e].age <= MaxPut /\ put[e].file \in Files
      /\ "chunk" \in Items /\ Files \subseteq Items
  BY <1>0, Ages
<1>3. CASE SyncChunk
  <2> DEFINE m == Merge(chunk, CommonChunk, Newest(chunk[1], chunk[2]))
  <2>1. /\ chunk' = [d \in Devices |-> m] /\ base' = [base EXCEPT !["chunk"] = m]
        /\ late' = [late EXCEPT !["chunk"] = 0] /\ UNCHANGED <<manifest, put, gc>>
    BY <1>3 DEF SyncChunk, CommonChunk
  <2>2. \A d \in Devices, k \in Nat : k < Fence /\ chunk[d] \in 0 .. k => m \in 0 .. k
    BY <1>0, MergeKeeps DEF GCInv
  <2>3. \A f \in Files : Kept(f) => m # None BY <1>0, MergeSurvives DEF GCInv
  <2> HIDE DEF m
  <2>4. CommonChunk' = m /\ \A d \in Devices : chunk'[d] = m BY <1>0, <2>1 DEF CommonChunk, Types
  <2>5. \A f \in Files : late'[f] = late[f] BY <1>0, <1>2, <2>1, FenceAssumption DEF Types
  <2>6. m \in Int BY <1>1, <2>4, Ages DEF Types, AgeOrNone, Age, Devices, None
  <2>7. NoOlderThanCommon' /\ YoungerIsNews'
    BY <2>4, <2>6 DEF NoOlderThanCommon, YoungerIsNews
  <2>8. LagBoundsAge'
    <3> SUFFICES ASSUME NEW f \in Files, NEW e \in Devices, manifest[e][f] = "live", manifest[Other(e)][f] = "none"
                 PROVE  m \in 0 .. (MaxPut + late[f])
      BY <2>1, <2>4, <2>5 DEF LagBoundsAge
    <3>1. chunk[e] \in 0 .. (MaxPut + late[f]) BY DEF GCInv, LagBoundsAge
    <3>2. MaxPut + late[f] \in Nat /\ MaxPut + late[f] < Fence
      <4>1. late[f] \in Nat /\ late[f] <= MaxLag BY <1>2
      <4> QED BY <1>2, <4>1
    <3> QED BY <2>2, <3>1, <3>2
  <2>9. SurvivesSync'
    <3>1. \A f \in Files : Kept(f)' => Kept(f) BY <2>1 DEF Kept
    <3> QED BY <2>3, <2>4, <3>1 DEF SurvivesSync
  <2>10. PutIsFresh'
    <3>2. ASSUME NEW d \in Devices, put[d].pc = "commit" PROVE m \in 0 .. put[d].age
      <4>1. chunk[d] \in 0 .. put[d].age BY <3>2 DEF GCInv, PutIsFresh
      <4>2. put[d].age \in Nat /\ put[d].age < Fence BY <1>2, <3>2
      <4> QED BY <2>2, <4>1, <4>2
    <3> QED BY <2>1, <2>4, <3>2 DEF GCInv, PutIsFresh
  <2>11. PutsDiffer' BY <2>1 DEF GCInv, PutsDiffer
  <2> QED BY <1>1, <2>7, <2>8, <2>9, <2>10, <2>11 DEF GCInv
<1>4. CASE SyncIntent
  <2>1. /\ \E m : base' = [base EXCEPT !["intent"] = m]
        /\ UNCHANGED <<manifest, chunk, late, put, gc>>
    BY <1>4 DEF SyncIntent
  <2>2. CommonChunk' = CommonChunk BY <1>0, <2>1 DEF CommonChunk, Types
  <2>3. CopiesInv' BY <2>1, <2>2, CopiesSame DEF GCInv, CopiesInv
  <2>4. PutIsFresh' /\ PutsDiffer' BY <2>1 DEF GCInv, PutIsFresh, PutsDiffer
  <2> QED BY <1>1, <2>3, <2>4 DEF GCInv, CopiesInv
<1>5. ASSUME NEW g \in Files, SyncManifest(g) PROVE GCInv'
  <2> DEFINE m == IF \E d \in Devices : manifest[d][g] = "gone" THEN "gone" ELSE "live"
  <2>1. /\ manifest[1][g] # manifest[2][g]
        /\ manifest' = [d \in Devices |-> [manifest[d] EXCEPT ![g] = m]]
        /\ late' = [late EXCEPT ![g] = 0] /\ UNCHANGED <<chunk, base, put, gc>>
    BY <1>5 DEF SyncManifest
  <2>2. manifest \in [Devices -> [Files -> {"none", "live", "gone"}]] BY <1>0 DEF Types
  <2>3. /\ \A d \in Devices : manifest'[d][g] = m
        /\ \A d \in Devices, f \in Files : f # g => manifest'[d][f] = manifest[d][f]
    BY <2>1, <2>2
  <2>4. m = "live" => Kept(g)
    <3>1. 1 \in Devices /\ 2 \in Devices BY DEF Devices
    <3> QED BY <2>1, <2>2, <3>1 DEF Kept
  <2>a. m # "none" OBVIOUS
  <2> HIDE DEF m
  <2>5. /\ late'["chunk"] = late["chunk"]
        /\ \A f \in Files : f # g => late'[f] = late[f]
    BY <1>0, <1>2, <2>1, FenceAssumption DEF Types
  <2>6. NoOlderThanCommon' /\ YoungerIsNews'
    BY <2>1, <2>5 DEF GCInv, NoOlderThanCommon, YoungerIsNews, CommonChunk
  <2>7. LagBoundsAge'
    <3> SUFFICES ASSUME NEW f \in Files, NEW e \in Devices,
                        manifest'[e][f] = "live", manifest'[Other(e)][f] = "none"
                 PROVE  chunk[e] \in 0 .. (MaxPut + late'[f])
      BY <2>1 DEF LagBoundsAge
    <3>1. f # g BY <2>3, <2>a
    <3> QED BY <2>3, <2>5, <3>1 DEF GCInv, LagBoundsAge
  <2>8. SurvivesSync'
    <3>1. ASSUME NEW f \in Files, Kept(f)' PROVE Kept(f)
      <4>1. CASE f = g BY <2>3, <2>4, <3>1, <4>1 DEF Kept
      <4>2. CASE f # g BY <2>3, <3>1, <4>2 DEF Kept
      <4> QED BY <4>1, <4>2
    <3> QED BY <2>1, <3>1 DEF GCInv, SurvivesSync, CommonChunk
  <2>9. PutIsFresh' /\ PutsDiffer'
    <3>1. \A e \in Devices : put[e].pc # "idle" => put[e].file # g
      <4>1. 1 \in Devices /\ 2 \in Devices BY DEF Devices
      <4> QED BY <2>1, <4>1 DEF GCInv, PutIsFresh
    <3>2. ASSUME NEW e \in Devices
          PROVE  /\ put'[e].pc = "commit" => chunk'[e] \in 0 .. put'[e].age
                 /\ put'[e].pc # "idle" => \A x \in Devices : manifest'[x][put'[e].file] = "none"
      BY <1>2, <2>1, <2>3, <3>1 DEF GCInv, PutIsFresh
    <3> QED BY <2>1, <3>2 DEF GCInv, PutIsFresh, PutsDiffer
  <2> QED BY <1>1, <2>6, <2>7, <2>8, <2>9 DEF GCInv
<1> QED BY <1>3, <1>4, <1>5 DEF Sync

\* Time passes: copies that differ grow older by no more than their lag does,
\* and no lag grows beyond its bound.
LEMMA TickKeeps == ASSUME GCInv, Tick PROVE GCInv'
<1> USE TwoDevices
<1>0. Types BY DEF GCInv
<1>1. Types' BY <1>0, TypesTick
<1>2. /\ Fence \in Nat /\ MaxLag \in Nat /\ MaxPut \in Nat /\ MaxPut + MaxLag < Fence /\ None = -1
      /\ \A d \in Devices : chunk[d] \in Int /\ chunk[d] <= Fence /\ (chunk[d] # None => chunk[d] >= 0)
      /\ CommonChunk \in Int /\ CommonChunk <= Fence /\ (CommonChunk # None => CommonChunk >= 0)
      /\ \A i \in Items : late[i] \in Nat /\ late[i] <= MaxLag
      /\ \A e \in Devices : put[e].pc # "idle" =>
            put[e] \in PutUnderWay /\ put[e].age \in Nat /\ put[e].age <= MaxPut /\ put[e].file \in Files
      /\ "chunk" \in Items /\ Files \subseteq Items
  BY <1>0, Ages
<1>3. /\ \A d \in Devices : chunk'[d] = Older(chunk[d])
      /\ CommonChunk' = Older(CommonChunk)
      /\ \A i \in Items : late'[i] = IF InSync(i) THEN 0 ELSE late[i] + 1
      /\ \A i \in Items : InSync(i) \/ late[i] < MaxLag
      /\ UNCHANGED manifest
  BY DEF Tick, CommonChunk
<1>4. \A d \in Devices : IF put[d].pc = "idle" THEN put'[d] = NoPut
                         ELSE /\ put'[d].pc = put[d].pc /\ put'[d].file = put[d].file
                              /\ put'[d].age = put[d].age + 1
  <2> SUFFICES ASSUME NEW d \in Devices
               PROVE  IF put[d].pc = "idle" THEN put'[d] = NoPut
                      ELSE /\ put'[d].pc = put[d].pc /\ put'[d].file = put[d].file
                           /\ put'[d].age = put[d].age + 1
    OBVIOUS
  <2>1. put'[d] = IF put[d].pc = "idle" THEN NoPut ELSE [put[d] EXCEPT !.age = @ + 1] BY DEF Tick
  <2>2. CASE put[d].pc = "idle" BY <2>1, <2>2
  <2>3. CASE put[d].pc # "idle"
    <3>1. put[d] \in PutUnderWay BY <1>2, <2>3
    <3> QED BY <2>1, <2>3, <3>1 DEF PutUnderWay
  <2> QED BY <2>2, <2>3
<1>5. /\ InSync("chunk") <=> chunk[1] = chunk[2]
      /\ \A f \in Files : InSync(f) <=> manifest[1][f] = manifest[2][f]
  BY FenceAssumption DEF InSync
<1>6. \A d \in Devices : InSync("chunk") <=> chunk[d] = chunk[Other(d)]
  BY <1>5 DEF Devices, Other
<1>7. NoOlderThanCommon'
  BY <1>2, <1>3 DEF GCInv, NoOlderThanCommon, Older
<1>8. YoungerIsNews'
  <2> SUFFICES ASSUME NEW d \in Devices, chunk'[d] # None, chunk'[d] < Fence,
                      chunk'[Other(d)] = None \/ chunk'[d] < chunk'[Other(d)]
               PROVE  chunk'[d] <= late'["chunk"]
    BY DEF YoungerIsNews
  <2>1. /\ chunk[d] # None /\ chunk[d] < Fence /\ chunk'[d] = chunk[d] + 1
        /\ chunk[Other(d)] = None \/ chunk[d] < chunk[Other(d)]
    BY <1>2, <1>3 DEF Older
  <2>2. chunk[d] <= late["chunk"] BY <2>1 DEF GCInv, YoungerIsNews
  <2>3. late'["chunk"] = late["chunk"] + 1 BY <1>2, <1>3, <1>6, <2>1
  <2> QED BY <1>2, <2>1, <2>2, <2>3
<1>9. PutIsFresh'
  <2> SUFFICES ASSUME NEW d \in Devices
               PROVE  /\ put'[d].pc = "commit" => chunk'[d] \in 0 .. put'[d].age
                      /\ put'[d].pc # "idle" => \A e \in Devices : manifest'[e][put'[d].file] = "none"
    BY DEF PutIsFresh
  <2>1. CASE put[d].pc = "idle" BY <1>4, <2>1 DEF NoPut
  <2>2. CASE put[d].pc # "idle"
    <3>1. put'[d].pc = put[d].pc /\ put'[d].file = put[d].file /\ put'[d].age = put[d].age + 1 BY <1>4, <2>2
    <3>2. ASSUME put[d].pc = "commit" PROVE chunk'[d] \in 0 .. (put[d].age + 1)
      <4>1. chunk[d] \in 0 .. put[d].age BY <3>2 DEF GCInv, PutIsFresh
      <4>2. put[d].age \in Nat BY <1>2, <2>2
      <4> QED BY <1>2, <1>3, <4>1, <4>2 DEF Older
    <3> QED BY <1>3, <2>2, <3>1, <3>2 DEF GCInv, PutIsFresh
  <2> QED BY <2>1, <2>2
<1>10. PutsDiffer'
  <2>1. 1 \in Devices /\ 2 \in Devices BY DEF Devices
  <2> QED BY <1>4, <2>1 DEF GCInv, PutsDiffer, NoPut
<1>11. LagBoundsAge'
  <2> SUFFICES ASSUME NEW f \in Files, NEW d \in Devices, manifest[d][f] = "live", manifest[Other(d)][f] = "none"
               PROVE  chunk'[d] \in 0 .. (MaxPut + late'[f])
    BY <1>3 DEF LagBoundsAge
  <2>1. chunk[d] \in 0 .. (MaxPut + late[f]) BY DEF GCInv, LagBoundsAge
  <2>2. ~InSync(f)
    <3>1. {d, Other(d)} = {1, 2} BY DEF Devices, Other
    <3> QED BY <1>5, <3>1
  <2>3. late'[f] = late[f] + 1 /\ late[f] \in Nat BY <1>2, <1>3, <2>2
  <2> QED BY <1>2, <1>3, <2>1, <2>3 DEF Older
<1>12. SurvivesSync'
  <2> SUFFICES ASSUME NEW f \in Files, Kept(f), NEW d \in Devices, chunk'[d] = None
               PROVE  chunk'[Other(d)] # None /\ (CommonChunk' # None => chunk'[Other(d)] < Fence)
    BY <1>3 DEF SurvivesSync, Kept
  <2>1. chunk[d] = None BY <1>2, <1>3 DEF Older
  <2>2. chunk[Other(d)] # None /\ (CommonChunk # None => chunk[Other(d)] < Fence)
    BY <2>1 DEF GCInv, SurvivesSync
  <2>3. chunk'[Other(d)] # None /\ (CommonChunk' # None => CommonChunk # None)
    BY <1>2, <1>3, <2>2 DEF Older
  <2>4. ASSUME CommonChunk # None PROVE chunk'[Other(d)] < Fence
    <3>1. chunk[Other(d)] <= late["chunk"] BY <2>1, <2>2, <2>4 DEF GCInv, YoungerIsNews
    <3>2. late["chunk"] < MaxLag BY <1>2, <1>3, <1>6, <2>1, <2>2
    <3> QED BY <1>2, <1>3, <2>2, <3>1, <3>2 DEF Older
  <2> QED BY <2>3, <2>4
<1> QED BY <1>1, <1>7, <1>8, <1>9, <1>10, <1>11, <1>12 DEF GCInv

-----------------------------------------------------------------------------
\* NoDanglingReference: with a fence that outlasts a put and the delivery of its
\* manifest, the last copy of a chunk that a file still needs is taken only after
\* a removal that came too late for its decision, or after a put that reused the
\* chunk without refreshing it; wherever a collection stops, and whatever comes
\* between its steps and those of a put (gc.go: gcConfirm; vault.go: storeChunk).
THEOREM NeededChunkStays == Spec => []NoDanglingReference
<1>1. Init => GCInv
  <2> SUFFICES ASSUME Init PROVE GCInv OBVIOUS
  <2>1. Types BY TypesInit
  <2>2. /\ \A d \in Devices : chunk[d] = Fence /\ put[d].pc = "idle"
        /\ CommonChunk = Fence
    BY DEF Init, NoPut, NoGC, CommonChunk
  <2>3. 1 \in Devices /\ 2 \in Devices BY DEF Devices
  <2>4. Fence \in Nat /\ None = -1 BY FenceAssumption DEF None
  <2>5. NoOlderThanCommon /\ YoungerIsNews /\ PutIsFresh /\ PutsDiffer /\ SurvivesSync
    BY <2>2, <2>3, <2>4 DEF NoOlderThanCommon, YoungerIsNews, PutIsFresh, PutsDiffer, SurvivesSync
  <2>6. LagBoundsAge
    <3>1. \A f \in Files, d \in Devices : manifest[d][f] = manifest[Other(d)][f]
      BY TwoDevices DEF Init
    <3> QED BY <3>1 DEF LagBoundsAge
  <2> QED BY <2>1, <2>5, <2>6 DEF GCInv
<1>2. (Types /\ (missed \/ GCInv)) /\ [Next]_vars => (Types /\ (missed \/ GCInv))'
  <2> SUFFICES ASSUME Types, missed \/ GCInv, [Next]_vars, ~missed' PROVE GCInv'
    BY TypesStep
  <2>0. GCInv
    <3>1. missed => missed'
      BY DEF Next, vars, Put, Stat, TouchChunk, WriteChunk, CommitPut, RemovePath, Collect, cmdGC,
             GCPhase1, GCPhase2, GCRemoveChunk, GCRemoveIntents, GCSave, GCCrash, Sync, SyncChunk,
             SyncIntent, SyncManifest, Tick
    <3> QED BY <3>1
  <2>1. CASE UNCHANGED vars
    <3>1. Types' BY <2>1, TypesStep DEF GCInv
    <3>2. UNCHANGED <<manifest, chunk, base, late, put>> BY <2>1 DEF vars
    <3>3. CopiesInv' BY <2>0, <3>2, CopiesSame DEF GCInv, CopiesInv, CommonChunk
    <3>4. PutIsFresh' /\ PutsDiffer' BY <2>0, <3>2 DEF GCInv, PutIsFresh, PutsDiffer
    <3> QED BY <3>1, <3>3, <3>4 DEF GCInv, CopiesInv
  <2>2. ASSUME NEW d \in Devices, Collect(d) \/ GCCrash(d) PROVE GCInv'
    BY <2>0, <2>2, QuietGC, RemoveIsSafe DEF Collect, cmdGC
  <2> QED BY <2>0, <2>1, <2>2, PutKeeps, RemovalKeeps, SyncKeeps, TickKeeps DEF Next
<1>3. (missed \/ GCInv) => NoDanglingReference
  <2> SUFFICES ASSUME GCInv, NEW f \in Files, Kept(f) PROVE \E d \in Devices : chunk[d] # None
    BY DEF NoDanglingReference, Kept
  <2>1. 1 \in Devices /\ Other(1) \in Devices BY TwoDevices DEF Devices
  <2> QED BY <2>1 DEF GCInv, SurvivesSync
<1>4. GCInv => Types
  BY DEF GCInv
<1> QED BY <1>1, <1>2, <1>3, <1>4, PTL DEF Spec

=============================================================================
