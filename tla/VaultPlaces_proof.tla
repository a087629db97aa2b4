-------------------------- MODULE VaultPlaces_proof --------------------------
(***************************************************************************)
(* For any folders, spellings, names and processes, and any number of      *)
(* commands and crashes: every step of VaultPlaces is a step of VaultHome  *)
(* or changes nothing there, setup leaves no half-built vault, and no      *)
(* password or card for nothing.                                           *)
(***************************************************************************)
EXTENDS VaultPlaces, TLAPS

-----------------------------------------------------------------------------
(* The types.  Formed says what the program counter of a task tells of its *)
(* other fields.                                                           *)

Spots == Spellings \cup {Nowhere}
JobSet == [on : {"prof", "rem"}, do : {"add", "remove", "match"},
           name : Names \cup {""}, from : Spots, to : Spots]
Stores == [Names -> Spots]
Ops == {"", "move", "preset", "setup", "wizard", "init", "profile", "remote"}
Creating == {"setup", "wizard", "init"}

MovePcs == {"prepare", "rmdst", "rename", "copy", "publish", "rmsrc"}
InitPcs == {"dirs", "config", "layout"}
JobPcs == {"job", "save", "write"}
FilePcs == MovePcs \cup {"clear", "place", "config", "layout"}
DstPcs == {"check", "probe", "confirm", "lookup", "mktemp", "clear", "place"}
          \cup MovePcs \cup InitPcs
Pcs == DstPcs \cup JobPcs
       \cup {"idle", "relookup", "keychain", "cloud", "test", "phrase", "readback", "stamp"}

TaskSet == [pc : Pcs, op : Ops, src : Spots, dst : Spots, name : Names \cup {""},
            replace : BOOLEAN, id : 0 .. MaxVaults, jobs : Seq(JobSet), got : Stores]

Formed(t) ==
    /\ t.pc = "idle" => t.op = ""
    /\ t.pc \in {"check"} \cup MovePcs => t.op = "move" /\ t.src \in Spellings
    /\ t.pc \in DstPcs => t.dst \in Spellings
    /\ t.pc \in MovePcs => Real[t.src] # Real[t.dst]
    /\ t.pc \in {"probe", "confirm"} => t.op = "wizard"
    /\ t.pc \in {"lookup", "mktemp", "clear", "place"} => t.op \in {"setup", "wizard"}
    /\ t.pc \in InitPcs => t.op = "init"
    /\ t.pc \in JobPcs => t.jobs # <<>>
    /\ t.pc \in JobPcs /\ t.op \in Creating => Len(t.jobs) = 1 /\ Head(t.jobs).do = "add"
    /\ t.pc = "write" => Head(t.jobs).on = "prof"

Task == {t \in TaskSet : Formed(t)}

Types ==
    /\ dir \in [Dirs -> Folders]
    /\ tmp \in [Procs -> Folders]
    /\ prof \in Stores
    /\ rem \in Stores
    /\ pr \in [Procs -> Task]
    /\ made \in 1 .. MaxVaults

-----------------------------------------------------------------------------
(* Which commands run beside each other. *)
Exclusive ==
    \A i, j \in Procs : i # j =>
        /\ pr[i].op = "move" => pr[j].op \notin {"move", "wizard"}
        /\ pr[i].op = "init" => pr[j].op = ""

\* What is in the folder a process builds or copies into.
TmpInUse(i) ==
    /\ pr[i].pc \notin {"publish", "clear", "place"} => tmp[i] = Absent
    /\ pr[i].pc = "publish" => tmp[i] = dir[Src(i)]

\* A vault is being moved from a folder nobody else changes; once the copy is
\* published, the source is a second copy.
SourceStays(i) ==
    /\ pr[i].pc \in MovePcs => Occupied(Src(i))
    /\ pr[i].pc = "rmsrc" /\ dir[Src(i)].what = "whole" => dir[Dst(i)] = dir[Src(i)]

\* A vault not placed yet is in its temporary folder and nowhere else.
Unplaced(i) ==
    pr[i].pc \in {"clear", "place"} =>
        /\ pr[i].id \in Ids
        /\ tmp[i] = Whole(pr[i].id)
        /\ pr[i].id <= made
        /\ \A d \in Dirs : dir[d].id # pr[i].id
        /\ \A j \in Procs \ {i} : tmp[j].id # pr[i].id

\* The folder init is working on.
InitInPlace(i) ==
    pr[i].pc \in {"config", "layout"} =>
        /\ pr[i].id \in Ids
        /\ dir[Dst(i)].what = "half"
        /\ dir[Dst(i)].id = pr[i].id
        /\ \A d \in Dirs \ {Dst(i)} : dir[d].id # pr[i].id

Claim(i) == TmpInUse(i) /\ SourceStays(i) /\ Unplaced(i) /\ InitInPlace(i)

IdsMade ==
    /\ \A d \in Dirs : dir[d].id <= made
    /\ \A i \in Procs : tmp[i].id <= made

FolderInv == (\A i \in Procs : Claim(i)) /\ IdsMade

\* SetupAllOrNothing of the temporary folders too.
PieceInv == SetupAllOrNothing /\ \A i \in Procs : tmp[i].what = "half" => tmp[i].id \in pieces

\* A password waits for its profile, a stamp for its commit.
SecretInv ==
    /\ NoOrphanSecret
    /\ card \in [Ids -> {"none", "draft", "confirmed"}]
    /\ \A i \in Procs :
         /\ pr[i].pc = "keychain" /\ pr[i].op # "init" => pr[i].id \in listed
         /\ pr[i].pc = "stamp" => pr[i].id \in commit

PlacesInv == Types /\ Exclusive /\ FolderInv /\ PieceInv /\ SecretInv
-----------------------------------------------------------------------------
(* Folders *)

\* What the constructors of a folder make.
LEMMA FolderKinds ==
    /\ Absent \in Folders /\ Absent.what = "absent" /\ Absent.id = 0 /\ ~Absent.cfg
    /\ \A v \in Ids : /\ Whole(v) \in Folders
                      /\ Whole(v).what = "whole" /\ Whole(v).id = v /\ Whole(v).cfg
    /\ \A v \in Ids, c \in BOOLEAN :
         /\ Half(v, c) \in Folders
         /\ Half(v, c).what = "half" /\ Half(v, c).id = v /\ Half(v, c).cfg = c
<1>1. Absent \in Folders /\ Absent.what = "absent" /\ Absent.id = 0 /\ ~Absent.cfg
  BY DEF Folders, Absent
<1>2. ASSUME NEW v \in Ids
      PROVE  /\ Whole(v) \in Folders
             /\ Whole(v).what = "whole" /\ Whole(v).id = v /\ Whole(v).cfg
  <2>1. Whole(v) \in Folders
    BY DEF Folders
  <2>2. QED
    BY <2>1 DEF Whole
<1>3. ASSUME NEW v \in Ids, NEW c \in BOOLEAN
      PROVE  /\ Half(v, c) \in Folders
             /\ Half(v, c).what = "half" /\ Half(v, c).id = v /\ Half(v, c).cfg = c
  <2>1. Half(v, c) \in Folders
    BY DEF Folders
  <2>2. QED
    BY <2>1 DEF Half
<1>4. QED
  BY <1>1, <1>2, <1>3

\* A folder with a vault's files has its id, and only such a folder has a
\* vault.json; a complete one is determined by its id.
LEMMA FolderFacts ==
    ASSUME NEW f \in Folders
    PROVE  /\ f.what \in {"absent", "empty", "junk", "half", "whole"}
           /\ f.what \in {"half", "whole"} => f.id \in Ids
           /\ f.what \notin {"half", "whole"} => f.id = 0 /\ ~f.cfg
           /\ f.what = "whole" => f = Whole(f.id)
           /\ f.what = "half" => \E c \in BOOLEAN : f = Half(f.id, c)
           /\ f.id \in 0 .. MaxVaults
<1>1. CASE f \in {Absent, Empty, Junk}
  BY <1>1, PlacesAssumption DEF Absent, Empty, Junk
<1>2. ASSUME NEW v \in Ids, NEW c \in BOOLEAN, f = Half(v, c)
      PROVE  f.what = "half" /\ f.id = v
  BY <1>2 DEF Half
<1>3. ASSUME NEW v \in Ids, f = Whole(v)
      PROVE  f.what = "whole" /\ f.id = v
  BY <1>3 DEF Whole
<1>4. \A v \in Ids : v \in 0 .. MaxVaults
  BY PlacesAssumption DEF Ids
<1>5. QED
  BY <1>1, <1>2, <1>3, <1>4 DEF Folders

LEMMA WritingConfig ==
    ASSUME NEW v \in Ids, NEW c \in BOOLEAN
    PROVE  [Half(v, c) EXCEPT !.cfg = TRUE] = Half(v, TRUE)
<1> DEFINE u == [Half(v, c) EXCEPT !.cfg = TRUE]
<1>1. Half(v, c) \in [what : {"half"}, id : Ids, cfg : BOOLEAN]
  BY DEF Half
<1>2. u \in [what : {"half"}, id : Ids, cfg : BOOLEAN]
  BY <1>1
<1>3. u.cfg = TRUE /\ u.what = "half" /\ u.id = v
  BY <1>1 DEF Half
<1>4. u = [what |-> u.what, id |-> u.id, cfg |-> u.cfg]
  <2> HIDE DEF u
  <2>1. QED
    BY <1>2
<1>5. QED
  <2> HIDE DEF u
  <2>1. u = Half(v, TRUE)
    BY <1>3, <1>4 DEF Half
  <2>2. QED
    BY <2>1 DEF u

LEMMA IdNumbers == \A v \in Ids : v \in Nat /\ v # 0 /\ v <= MaxVaults
BY PlacesAssumption DEF Ids

LEMMA MadeNumber ==
    ASSUME Types
    PROVE  made \in Nat /\ made \in Ids /\ made <= MaxVaults /\ MaxVaults \in Nat
BY PlacesAssumption DEF Types, Ids

LEMMA RealFolder == \A s \in Spellings : Real[s] \in Dirs
BY DEF Dirs

-----------------------------------------------------------------------------
(* Tasks.  The first lemmas say what an update of some fields leaves of    *)
(* the others.                                                             *)

Others(i) == \A j \in Procs \ {i} : pr'[j] = pr[j]

LEMMA IdleTask == Idle \in Task /\ Idle.pc = "idle" /\ Idle.op = ""
<1>1. <<>> \in Seq(JobSet)
  OBVIOUS
<1>2. NoStore \in Stores
  BY DEF NoStore, Stores, Spots
<1>3. Idle \in TaskSet
  BY <1>1, <1>2, PlacesAssumption DEF Idle, TaskSet, Pcs, Ops, Spots
<1>4. Formed(Idle)
  BY DEF Idle, Formed, MovePcs, InitPcs, JobPcs, DstPcs
<1>5. QED
  BY <1>3, <1>4 DEF Task, Idle

LEMMA TaskFields ==
    ASSUME NEW t \in Task
    PROVE  /\ t \in TaskSet /\ Formed(t)
           /\ t.pc \in Pcs /\ t.op \in Ops /\ t.src \in Spots /\ t.dst \in Spots
           /\ t.name \in Names \cup {""} /\ t.replace \in BOOLEAN
           /\ t.id \in 0 .. MaxVaults /\ t.jobs \in Seq(JobSet) /\ t.got \in Stores
BY DEF Task, TaskSet

LEMMA PcField ==
    ASSUME NEW t \in TaskSet, NEW x \in Pcs, NEW u, u = [t EXCEPT !.pc = x]
    PROVE  /\ u \in TaskSet /\ u.pc = x /\ u.op = t.op /\ u.src = t.src /\ u.dst = t.dst
           /\ u.name = t.name /\ u.replace = t.replace /\ u.id = t.id /\ u.jobs = t.jobs
           /\ u.got = t.got
BY DEF TaskSet

\* A step of a process changes its task only.
LEMMA OneTask ==
    ASSUME Types, NEW i \in Procs, NEW u \in Task, pr' = [pr EXCEPT ![i] = u]
    PROVE  pr' \in [Procs -> Task] /\ pr'[i] = u /\ Others(i)
BY DEF Types, Others

\* What a step does to the tasks: one command goes on, ends, or is started
\* where it may run.
Control(i) ==
    /\ pr' \in [Procs -> Task]
    /\ Others(i)
    /\ \/ pr'[i].op \in {pr[i].op, ""}
       \/ pr[i].pc = "idle" /\ Alone(pr'[i].op)

FreePcs == {"relookup", "keychain", "cloud", "test", "phrase", "readback", "stamp"}

\* The program counters that may follow one another without another change.
MayFollow(t, x) ==
    \/ x \in FreePcs
    \/ t.pc \in MovePcs /\ x \in MovePcs
    \/ t.pc = "check" /\ x = "prepare" /\ Real[t.src] # Real[t.dst]
    \/ t.pc \in {"probe", "confirm"} /\ x \in {"probe", "confirm", "lookup"}
    \/ t.pc \in {"lookup", "mktemp", "clear", "place"} /\ x \in {"mktemp", "place"}
    \/ t.pc \in InitPcs /\ x \in InitPcs
    \/ t.pc = "save" /\ x = "write" /\ Head(t.jobs).on = "prof"

LEMMA StopStep ==
    ASSUME Types, NEW i \in Procs, Stop(i)
    PROVE  Control(i) /\ pr'[i] = Idle /\ pr'[i].pc = "idle"
BY IdleTask, OneTask DEF Stop, Control

LEMMA GotoStep ==
    ASSUME Types, NEW i \in Procs, NEW x \in Pcs, MayFollow(pr[i], x), Goto(i, x)
    PROVE  /\ Control(i)
           /\ pr'[i].pc = x
           /\ pr'[i].op = pr[i].op /\ pr'[i].src = pr[i].src /\ pr'[i].dst = pr[i].dst
           /\ pr'[i].id = pr[i].id /\ pr'[i].replace = pr[i].replace
<1> DEFINE t == pr[i]
           u == [t EXCEPT !.pc = x]
<1>1. t \in Task
  BY DEF Types
<1>2. t \in TaskSet /\ Formed(t)
  BY <1>1, TaskFields
<1>3. pr' = [pr EXCEPT ![i] = u]
  BY DEF Goto
<1>4. /\ u \in TaskSet /\ u.pc = x /\ u.op = t.op /\ u.src = t.src /\ u.dst = t.dst
      /\ u.id = t.id /\ u.jobs = t.jobs /\ u.replace = t.replace
  <2> HIDE DEF t
  <2>1. QED
    BY <1>2, PcField
<1>5. Formed(u)
  <2>1. MayFollow(t, x)
    OBVIOUS
  <2> HIDE DEF t, u
  <2>2. QED
    BY <1>2, <1>4, <2>1
       DEF Formed, MayFollow, FreePcs, MovePcs, InitPcs, JobPcs, DstPcs, Pcs, Creating
<1>6. u \in Task
  BY <1>4, <1>5 DEF Task
<1>7. pr' \in [Procs -> Task] /\ pr'[i] = u /\ Others(i)
  <2> HIDE DEF u
  <2>1. QED
    BY <1>3, <1>6, OneTask
<1>8. QED
  <2> HIDE DEF u
  <2>1. QED
    BY <1>4, <1>7 DEF Control

\* A command starts: r says which folders and names it was given.
LEMMA StartStep ==
    ASSUME Types, NEW i \in Procs, NEW o \in Ops, NEW x \in Pcs, NEW r \in TaskSet,
           NEW u, u = [r EXCEPT !.op = o, !.pc = x],
           Formed(u), Start(i, o, x, r)
    PROVE  Control(i) /\ pr'[i].pc = x /\ pr[i].pc = "idle"
<1>1. u \in TaskSet /\ u.pc = x /\ u.op = o
  BY DEF TaskSet
<1>2. u \in Task
  BY <1>1 DEF Task
<1>3. pr' = [pr EXCEPT ![i] = u]
  BY DEF Start
<1>4. QED
  BY <1>1, <1>2, <1>3, OneTask DEF Control, Start

LEMMA StoreJobs ==
    ASSUME NEW n \in Names \cup {""}, NEW p \in Spots, NEW q \in Spots
    PROVE  /\ Add(n, p) \in JobSet /\ Add(n, p).do = "add" /\ Add(n, p).on = "prof"
           /\ Remove(n) \in JobSet
           /\ RemoteAdd(n, p) \in JobSet /\ RemoteAdd(n, p).do = "add"
           /\ RemoteAdd(n, p).on = "rem"
           /\ RemoteRemove(n) \in JobSet
           /\ UpdatePathsMatching(p, q) \in JobSet
           /\ UpdateVaultPathMatching(p, q) \in JobSet
<1>1. Add(n, p) \in JobSet /\ Add(n, p).do = "add" /\ Add(n, p).on = "prof"
  BY DEF Add, JobSet, Spots
<1>2. Remove(n) \in JobSet
  BY DEF Remove, JobSet, Spots
<1>3. UpdatePathsMatching(p, q) \in JobSet
  BY DEF UpdatePathsMatching, JobSet, Spots
<1>4. ASSUME NEW j \in JobSet
      PROVE  LET k == [j EXCEPT !.on = "rem"] IN k \in JobSet /\ k.do = j.do /\ k.on = "rem"
  BY DEF JobSet
<1>5. QED
  BY <1>1, <1>2, <1>3, <1>4 DEF RemoteAdd, RemoteRemove, UpdateVaultPathMatching

-----------------------------------------------------------------------------
(* The commands, as they start: nothing but the task changes. *)

LEMMA StartsWithFolder ==
    ASSUME Types, NEW i \in Procs, NEW o \in {"setup", "wizard", "init"},
           NEW d \in Spellings, NEW n \in Names \cup {""},
           NEW x \in {"lookup", "probe", "dirs"},
           o = "wizard" <=> x = "probe", o = "init" <=> x = "dirs",
           Start(i, o, x, [Idle EXCEPT !.dst = d, !.name = n])
    PROVE  Control(i) /\ pr'[i].pc = x /\ pr[i].pc = "idle"
<1> DEFINE r == [Idle EXCEPT !.dst = d, !.name = n]
           u == [r EXCEPT !.op = o, !.pc = x]
<1>0. Idle \in TaskSet
  BY IdleTask, TaskFields
<1>1. r \in TaskSet /\ r.dst = d
  BY <1>0 DEF TaskSet, Spots
<1> HIDE DEF r
<1>2. x \in Pcs /\ o \in Ops /\ x \in {"lookup", "probe", "dirs"}
  BY DEF Pcs, Ops, DstPcs, InitPcs
<1>3. u.pc = x /\ u.op = o /\ u.dst = d
  BY <1>1, <1>2 DEF TaskSet
<1>4. Formed(u)
  <2> HIDE DEF u
  <2>1. QED
    BY <1>2, <1>3 DEF Formed, MovePcs, InitPcs, JobPcs, DstPcs
<1>5. Start(i, o, x, r)
  BY DEF r
<1>6. QED
  BY <1>1, <1>2, <1>4, <1>5, StartStep

LEMMA StartsMove ==
    ASSUME Types, NEW i \in Procs, NEW s \in Spellings, NEW d \in Spellings,
           NEW n \in Names \cup {""}, NEW b \in BOOLEAN,
           Start(i, "move", "check", [Idle EXCEPT !.src = s, !.dst = d, !.name = n, !.replace = b])
    PROVE  Control(i) /\ pr'[i].pc = "check" /\ pr[i].pc = "idle"
<1> DEFINE r == [Idle EXCEPT !.src = s, !.dst = d, !.name = n, !.replace = b]
           u == [r EXCEPT !.op = "move", !.pc = "check"]
<1>0. Idle \in TaskSet
  BY IdleTask, TaskFields
<1>1. r \in TaskSet /\ r.dst = d /\ r.src = s
  BY <1>0 DEF TaskSet, Spots
<1> HIDE DEF r
<1>2. "check" \in Pcs /\ "move" \in Ops
  BY DEF Pcs, Ops, DstPcs
<1>3. u.pc = "check" /\ u.op = "move" /\ u.dst = d /\ u.src = s
  BY <1>1, <1>2 DEF TaskSet
<1>4. Formed(u)
  <2> HIDE DEF u
  <2>1. QED
    BY <1>3 DEF Formed, MovePcs, InitPcs, JobPcs, DstPcs
<1>5. Start(i, "move", "check", r)
  BY DEF r
<1>6. QED
  BY <1>1, <1>2, <1>4, <1>5, StartStep

\* A command that is one change of a store.
LEMMA StartsJob ==
    ASSUME Types, NEW i \in Procs, NEW o \in {"preset", "profile", "remote"},
           NEW r \in TaskSet, NEW j \in JobSet, r.jobs = <<j>>, Start(i, o, "job", r)
    PROVE  Control(i) /\ pr'[i].pc = "job" /\ pr[i].pc = "idle"
<1> DEFINE u == [r EXCEPT !.op = o, !.pc = "job"]
<1>1. "job" \in Pcs /\ o \in Ops
  BY DEF Pcs, Ops, JobPcs
<1>2. u.pc = "job" /\ u.op = o /\ u.jobs = <<j>>
  BY <1>1 DEF TaskSet
<1>3. <<j>> # <<>>
  OBVIOUS
<1>4. Formed(u)
  <2> HIDE DEF u
  <2>1. QED
    BY <1>2, <1>3 DEF Formed, MovePcs, InitPcs, JobPcs, DstPcs, Creating
<1>5. QED
  BY <1>1, <1>4, StartStep

-----------------------------------------------------------------------------
(* What the steps have in common. *)

\* No folder changes, and no task comes to work on one but a move that looks
\* at its destination.
Quiet(i) ==
    /\ UNCHANGED <<dir, tmp, pieces, made>>
    /\ pr[i].pc \notin {"publish", "clear", "place"}
    /\ \/ pr'[i].pc \notin FilePcs
       \/ /\ pr'[i].pc \in {"prepare", "rmdst", "rename"}
          /\ Occupied(Real[pr'[i].src])
          /\ pr'[i].pc = "rmdst" =>
               pr'[i].replace \/ dir[Real[pr'[i].dst]].what # "whole"

\* The secrets stay in order.
SecretStep(i) ==
    /\ listed \subseteq listed' /\ commit \subseteq commit'
    /\ NoOrphanSecret'
    /\ card' \in [Ids -> {"none", "draft", "confirmed"}]
    /\ pr'[i].pc = "keychain" /\ pr'[i].op # "init" => pr'[i].id \in listed'
    /\ pr'[i].pc = "stamp" => pr'[i].id \in commit'

Step(i) == Control(i) /\ SecretStep(i) /\ prof' \in Stores /\ rem' \in Stores

LEMMA SecretsKept ==
    ASSUME SecretInv, NEW i \in Procs, UNCHANGED secrets,
           pr'[i].pc = "keychain" => pr'[i].op = "init", pr'[i].pc # "stamp"
    PROVE  SecretStep(i)
BY DEF SecretInv, SecretStep, NoOrphanSecret, secrets

\* A step that changes tasks only, or folders too.
LEMMA PlainStep ==
    ASSUME Types, SecretInv, NEW i \in Procs, UNCHANGED <<stores, secrets>>, Control(i),
           pr'[i].pc = "keychain" => pr'[i].op = "init", pr'[i].pc # "stamp"
    PROVE  Step(i)
<1>1. SecretStep(i)
  BY SecretsKept
<1>2. prof' \in Stores /\ rem' \in Stores
  BY DEF Types, stores
<1>3. QED
  BY <1>1, <1>2 DEF Step

LEMMA CommandsStart ==
    ASSUME Types, SecretInv, NEW i \in Procs,
           \/ cmdMove(i) \/ MoveProfile(i) \/ cmdSetup(i) \/ cmdInit(i)
           \/ handleProfile(i) \/ handleRemote(i)
    PROVE  Step(i) /\ Quiet(i)
<1>1. UNCHANGED <<files, stores, secrets, made>>
  BY DEF cmdMove, MoveProfile, cmdSetup, cmdInit, handleProfile, handleRemote, execProfile,
         execRemote, setupIdempotentRerun, runSetupPreset, RunInteractive, Start
<1>2. SUFFICES Control(i) /\ pr[i].pc = "idle"
                 /\ pr'[i].pc \in {"check", "lookup", "probe", "dirs", "job"}
  BY <1>1, PlainStep DEF Quiet, files, FilePcs, MovePcs
<1>3. prof \in Stores /\ dir \in [Dirs -> Folders]
  BY DEF Types
<1>4. Idle \in TaskSet
  BY IdleTask, TaskFields
<1>5. \A d \in Spellings : dir[Real[d]].id \in 0 .. MaxVaults
  BY <1>3, RealFolder, FolderFacts
<1>6. CASE cmdMove(i)
  BY <1>6, StartsMove DEF cmdMove
<1>7. CASE MoveProfile(i)
  <2>1. \A n \in Names : Resolve(n) # Nowhere => Resolve(n) \in Spellings
    BY <1>3 DEF Resolve, Stores, Spots
  <2>2. QED
    BY <1>7, <2>1, StartsMove DEF MoveProfile
<1>8. CASE setupIdempotentRerun(i)
  <2>1. PICK d \in Spellings, n \in Names :
          Start(i, "preset", "job", [Idle EXCEPT !.dst = d, !.name = n, !.id = dir[Real[d]].id,
                                                 !.jobs = <<Add(n, d)>>])
    BY <1>8 DEF setupIdempotentRerun
  <2> DEFINE r == [Idle EXCEPT !.dst = d, !.name = n, !.id = dir[Real[d]].id,
                               !.jobs = <<Add(n, d)>>]
  <2>2. Add(n, d) \in JobSet /\ d \in Spots /\ n \in Names \cup {""}
    BY StoreJobs DEF Spots
  <2>3. \A j \in JobSet : <<j>> \in Seq(JobSet)
    OBVIOUS
  <2>4. r \in TaskSet /\ r.jobs = <<Add(n, d)>>
    BY <1>4, <1>5, <2>2, <2>3 DEF TaskSet
  <2> HIDE DEF r
  <2>5. Start(i, "preset", "job", r)
    BY <2>1 DEF r
  <2>6. QED
    BY <2>2, <2>4, <2>5, StartsJob
<1>9. CASE runSetupPreset(i)
  BY <1>9, StartsWithFolder DEF runSetupPreset
<1>10. CASE RunInteractive(i)
  BY <1>10, StartsWithFolder DEF RunInteractive
<1>11. CASE cmdInit(i)
  BY <1>11, StartsWithFolder DEF cmdInit
<1>12. ASSUME NEW o \in {"profile", "remote"}, NEW j \in JobSet,
              \/ Start(i, o, "job", [Idle EXCEPT !.jobs = <<j>>])
              \/ \E s \in Spellings :
                   Start(i, o, "job", [Idle EXCEPT !.jobs = <<j>>, !.id = dir[Real[s]].id])
       PROVE  Control(i) /\ pr[i].pc = "idle" /\ pr'[i].pc = "job"
  <2>1. <<j>> \in Seq(JobSet)
    OBVIOUS
  <2>2. CASE Start(i, o, "job", [Idle EXCEPT !.jobs = <<j>>])
    <3> DEFINE r == [Idle EXCEPT !.jobs = <<j>>]
    <3>1. r \in TaskSet /\ r.jobs = <<j>>
      BY <1>4, <2>1 DEF TaskSet
    <3> HIDE DEF r
    <3>2. Start(i, o, "job", r)
      BY <2>2 DEF r
    <3>3. QED
      BY <3>1, <3>2, StartsJob
  <2>3. ASSUME NEW s \in Spellings,
               Start(i, o, "job", [Idle EXCEPT !.jobs = <<j>>, !.id = dir[Real[s]].id])
        PROVE  Control(i) /\ pr[i].pc = "idle" /\ pr'[i].pc = "job"
    <3> DEFINE r == [Idle EXCEPT !.jobs = <<j>>, !.id = dir[Real[s]].id]
    <3>1. r \in TaskSet /\ r.jobs = <<j>>
      BY <1>4, <1>5, <2>1 DEF TaskSet
    <3> HIDE DEF r
    <3>2. Start(i, o, "job", r)
      BY <2>3 DEF r
    <3>3. QED
      BY <3>1, <3>2, StartsJob
  <2>4. QED
    BY <1>12, <2>2, <2>3
<1>13. CASE handleProfile(i) \/ handleRemote(i)
  <2>1. \A n \in Names, s \in Spots : Add(n, s) \in JobSet /\ RemoteAdd(n, s) \in JobSet
    BY StoreJobs
  <2>2. \A n \in Names : Remove(n) \in JobSet /\ RemoteRemove(n) \in JobSet
    BY StoreJobs DEF Spots
  <2>3. \A s \in Spellings : s \in Spots
    BY DEF Spots
  <2>4. CASE \E n \in Names, s \in Spellings :
               Start(i, "profile", "job", [Idle EXCEPT !.jobs = <<Add(n, s)>>, !.id = dir[Real[s]].id])
    BY <2>4, <1>12, <2>1, <2>3, Zenon
  <2>5. CASE \E n \in Names : Start(i, "profile", "job", [Idle EXCEPT !.jobs = <<Remove(n)>>])
    BY <2>5, <1>12, <2>2, Zenon
  <2>6. CASE \E n \in Names, s \in Spellings :
               Start(i, "remote", "job", [Idle EXCEPT !.jobs = <<RemoteAdd(n, s)>>])
    BY <2>6, <1>12, <2>1, <2>3, Zenon
  <2>7. CASE \E n \in Names : Start(i, "remote", "job", [Idle EXCEPT !.jobs = <<RemoteRemove(n)>>])
    BY <2>7, <1>12, <2>2, Zenon
  <2>8. QED
    BY <1>13, <2>4, <2>5, <2>6, <2>7 DEF handleProfile, handleRemote, execProfile, execRemote
<1>14. QED
  BY <1>6, <1>7, <1>8, <1>9, <1>10, <1>11, <1>13 DEF cmdSetup

-----------------------------------------------------------------------------
(* The stores *)

\* After a job: the next one, the keychain for a command that has just added
\* its profile, or the end.
LEMMA RestFacts ==
    ASSUME Types, NEW i \in Procs, pr[i].pc \in JobPcs
    PROVE  /\ Rest(i) \in Task
           /\ Rest(i).op \in {pr[i].op, ""}
           /\ Rest(i).pc \in {"job", "keychain", "test", "idle"}
           /\ Rest(i).pc = "keychain" =>
                /\ pr[i].op \in Creating /\ Job(i).on = "prof"
                /\ Rest(i).id = pr[i].id
           /\ pr[i].op = "move" => Rest(i).pc # "keychain"
           /\ pr[i].op \in Creating => Job(i).do = "add"
           /\ Job(i) \in JobSet
<1> DEFINE t == pr[i]
           left == Tail(t.jobs)
<1>1. t \in Task
  BY DEF Types
<1>2. t \in TaskSet /\ Formed(t) /\ t.jobs \in Seq(JobSet) /\ t.op \in Ops
  BY <1>1, TaskFields
<1>3. t.jobs # <<>> /\ (t.op \in Creating => Len(t.jobs) = 1 /\ Head(t.jobs).do = "add")
  BY <1>2 DEF Formed
<1>4. left \in Seq(JobSet) /\ Head(t.jobs) \in JobSet /\ (Len(t.jobs) = 1 => left = <<>>)
  <2>1. \A q \in Seq(JobSet) : q # <<>> =>
          Tail(q) \in Seq(JobSet) /\ Head(q) \in JobSet /\ Len(Tail(q)) = Len(q) - 1
    OBVIOUS
  <2>2. \A q \in Seq(JobSet) : Len(q) = 0 => q = <<>>
    OBVIOUS
  <2> HIDE DEF t
  <2>3. left \in Seq(JobSet) /\ Head(t.jobs) \in JobSet /\ Len(left) = Len(t.jobs) - 1
    BY <1>2, <1>3, <2>1
  <2> HIDE DEF left
  <2>4. Len(t.jobs) = 1 => Len(left) = 0
    BY <2>3
  <2>5. QED
    BY <2>2, <2>3, <2>4
<1>5. {"job", "keychain", "test"} \subseteq Pcs /\ <<>> \in Seq(JobSet)
  BY DEF Pcs, JobPcs
<1> HIDE DEF t, left
<1>6. ASSUME left # <<>>
      PROVE  /\ [t EXCEPT !.jobs = left, !.pc = "job"] \in Task
             /\ [t EXCEPT !.jobs = left, !.pc = "job"].op = t.op
             /\ [t EXCEPT !.jobs = left, !.pc = "job"].pc = "job"
  <2> DEFINE u == [t EXCEPT !.jobs = left, !.pc = "job"]
  <2>1. u \in TaskSet /\ u.pc = "job" /\ u.op = t.op /\ u.jobs = left
    BY <1>2, <1>4, <1>5 DEF TaskSet
  <2> HIDE DEF u
  <2>2. t.op \notin Creating
    BY <1>3, <1>4, <1>6
  <2>3. Formed(u)
    BY <1>6, <2>1, <2>2 DEF Formed, DstPcs, MovePcs, InitPcs, JobPcs
  <2>4. u \in Task
    BY <2>1, <2>3 DEF Task
  <2>5. QED
    BY <2>1, <2>4 DEF u
<1>7. ASSUME NEW x \in {"keychain", "test"}
      PROVE  /\ [t EXCEPT !.jobs = <<>>, !.pc = x] \in Task
             /\ [t EXCEPT !.jobs = <<>>, !.pc = x].op = t.op
             /\ [t EXCEPT !.jobs = <<>>, !.pc = x].pc = x
             /\ [t EXCEPT !.jobs = <<>>, !.pc = x].id = t.id
  <2> DEFINE u == [t EXCEPT !.jobs = <<>>, !.pc = x]
  <2>1. u \in TaskSet /\ u.pc = x /\ u.op = t.op /\ u.id = t.id
    BY <1>2, <1>5 DEF TaskSet
  <2> HIDE DEF u
  <2>2. Formed(u)
    BY <2>1 DEF Formed, DstPcs, MovePcs, InitPcs, JobPcs
  <2>3. u \in Task
    BY <2>1, <2>2 DEF Task
  <2>4. QED
    BY <2>1, <2>3 DEF u
<1>8. Job(i) = Head(t.jobs)
  BY DEF Job, t
<1>9. CASE left # <<>>
  <2>1. Rest(i) = [t EXCEPT !.jobs = left, !.pc = "job"]
    BY <1>9 DEF Rest, t, left
  <2>2. QED
    BY <1>3, <1>4, <1>6, <1>8, <1>9, <2>1 DEF t
<1>10. CASE left = <<>> /\ t.op \in Creating /\ Job(i).on = "prof"
  <2>1. Rest(i) = [t EXCEPT !.jobs = <<>>, !.pc = "keychain"]
    BY <1>10 DEF Rest, t, left, Creating
  <2>2. QED
    BY <1>3, <1>4, <1>7, <1>8, <1>10, <2>1 DEF t, Creating
<1>11. CASE left = <<>> /\ ~(t.op \in Creating /\ Job(i).on = "prof") /\ t.op \in {"setup", "wizard"}
  <2>1. Rest(i) = [t EXCEPT !.jobs = <<>>, !.pc = "test"]
    BY <1>11 DEF Rest, t, left, Creating
  <2>2. QED
    BY <1>3, <1>4, <1>7, <1>8, <1>11, <2>1 DEF t
<1>12. CASE left = <<>> /\ ~(t.op \in Creating /\ Job(i).on = "prof") /\ t.op \notin {"setup", "wizard"}
  <2>1. Rest(i) = Idle
    BY <1>12 DEF Rest, t, left, Creating
  <2>2. QED
    BY <1>3, <1>4, <1>8, <2>1, IdleTask DEF t
<1>13. QED
  BY <1>9, <1>10, <1>11, <1>12

\* A job changes a store into a store.
LEMMA AppliedTyped ==
    ASSUME NEW j \in JobSet, NEW s \in Stores
    PROVE  Applied(j, s) \in Stores
BY DEF Applied, JobSet, Stores

LEMMA JobFailsStep ==
    ASSUME Types, NEW i \in Procs, pr[i].pc \in JobPcs, JobFails(i)
    PROVE  Control(i) /\ pr'[i].pc \in {"job", "test", "idle"}
<1>1. CASE pr[i].op = "move"
  <2>1. pr' = [pr EXCEPT ![i] = Rest(i)]
    BY <1>1 DEF JobFails
  <2>2. QED
    BY <1>1, <2>1, RestFacts, OneTask DEF Control
<1>2. CASE pr[i].op # "move"
  BY <1>2, IdleTask, OneTask DEF JobFails, Control
<1>3. QED
  BY <1>1, <1>2

LEMMA StoreSteps ==
    ASSUME Types, SecretInv, NEW i \in Procs,
           \/ Load(i) \/ writeDeviceLocalFile(i) \/ Save(i) \/ SaveStore(i) \/ SaveFails(i)
    PROVE  Step(i) /\ Quiet(i)
<1>1. UNCHANGED <<dir, tmp, pieces, made>> /\ pr[i].pc \in JobPcs
  BY DEF Load, writeDeviceLocalFile, Save, SaveStore, SaveFails, files, counts, At, JobPcs
<1>2. ASSUME pr'[i].pc \in {"job", "save", "write", "keychain", "test", "idle"}
      PROVE  Quiet(i)
  BY <1>1, <1>2 DEF Quiet, JobPcs, FilePcs, MovePcs
<1>3. prof \in Stores /\ rem \in Stores /\ pr[i] \in Task /\ pr \in [Procs -> Task]
  BY DEF Types
<1>4. pr[i] \in TaskSet /\ pr[i].got \in Stores /\ Formed(pr[i])
  BY <1>3, TaskFields
<1>5. Job(i) \in JobSet
  BY <1>1, RestFacts
<1>6. ASSUME JobFails(i), UNCHANGED <<stores, secrets>>
      PROVE  Step(i) /\ Quiet(i)
  BY <1>1, <1>2, <1>6, JobFailsStep, PlainStep
<1>7. CASE Load(i)
  <2>1. UNCHANGED <<stores, secrets>>
    BY <1>7 DEF Load
  <2>2. ASSUME NEW g \in Stores, pr' = [pr EXCEPT ![i].pc = "save", ![i].got = g]
        PROVE  Step(i) /\ Quiet(i)
    <3> DEFINE t == pr[i]
               u == [t EXCEPT !.pc = "save", !.got = g]
    <3>1. pr' = [pr EXCEPT ![i] = u]
      BY <1>3, <2>2
    <3>2. t \in TaskSet /\ Formed(t) /\ t.pc = "job"
      BY <1>4, <1>7 DEF Load, At
    <3> HIDE DEF t
    <3>3. "save" \in Pcs
      BY DEF Pcs, JobPcs
    <3>4. u \in TaskSet /\ u.pc = "save" /\ u.op = t.op /\ u.jobs = t.jobs
      BY <3>2, <3>3 DEF TaskSet
    <3> HIDE DEF u
    <3>5. Formed(u)
      BY <3>2, <3>4 DEF Formed, JobPcs, MovePcs, InitPcs, DstPcs
    <3>6. u \in Task
      BY <3>4, <3>5 DEF Task
    <3>7. pr' \in [Procs -> Task] /\ pr'[i] = u /\ Others(i)
      BY <3>1, <3>6, OneTask
    <3>8. Control(i) /\ pr'[i].pc = "save"
      BY <3>4, <3>7 DEF Control, t
    <3>9. QED
      BY <1>2, <2>1, <3>8, PlainStep
  <2>3. QED
    BY <1>3, <1>6, <1>7, <2>1, <2>2 DEF Load
<1>8. CASE writeDeviceLocalFile(i)
  <2>1. MayFollow(pr[i], "write") /\ "write" \in Pcs /\ Goto(i, "write")
    BY <1>8 DEF writeDeviceLocalFile, MayFollow, At, Job, Pcs, JobPcs
  <2>2. Control(i) /\ pr'[i].pc = "write"
    BY <2>1, GotoStep
  <2>3. SecretStep(i)
    BY <1>8, <2>2, SecretsKept DEF writeDeviceLocalFile
  <2>4. prof' \in Stores /\ rem' \in Stores
    BY <1>3, <1>8 DEF writeDeviceLocalFile
  <2>5. QED
    BY <1>2, <2>2, <2>3, <2>4 DEF Step
<1>9. ASSUME pr' = [pr EXCEPT ![i] = Rest(i)]
      PROVE  Control(i) /\ pr'[i] = Rest(i) /\ Quiet(i)
  <2>1. Rest(i) \in Task /\ Rest(i).op \in {pr[i].op, ""}
          /\ Rest(i).pc \in {"job", "keychain", "test", "idle"}
    BY <1>1, RestFacts
  <2>2. pr' \in [Procs -> Task] /\ pr'[i] = Rest(i) /\ Others(i)
    BY <1>9, <2>1, OneTask
  <2>3. QED
    BY <1>2, <2>1, <2>2 DEF Control
<1>10. CASE Save(i)
  <2>1. Control(i) /\ pr'[i] = Rest(i) /\ Quiet(i)
    BY <1>9, <1>10 DEF Save
  <2>2. prof' \in Stores /\ rem' \in Stores
    BY <1>3, <1>4, <1>5, <1>10, AppliedTyped DEF Save
  <2>3. Rest(i).pc # "stamp"
    BY <1>1, RestFacts
  <2>4. Rest(i).pc = "keychain" => Rest(i).id = pr[i].id /\ Job(i).do = "add"
    BY <1>1, RestFacts
  <2>5. SecretStep(i)
    BY <1>10, <2>1, <2>3, <2>4 DEF Save, SecretStep, SecretInv, NoOrphanSecret
  <2>6. QED
    BY <2>1, <2>2, <2>5 DEF Step
<1>11. CASE SaveStore(i)
  <2>1. Control(i) /\ pr'[i] = Rest(i) /\ Quiet(i)
    BY <1>9, <1>11 DEF SaveStore
  <2>2. prof' \in Stores /\ rem' \in Stores
    BY <1>3, <1>4, <1>5, <1>11, AppliedTyped DEF SaveStore
  <2>3. Rest(i).pc \notin {"stamp", "keychain"}
    BY <1>1, <1>11, RestFacts DEF SaveStore
  <2>4. SecretStep(i)
    BY <1>11, <2>1, <2>3, SecretsKept DEF SaveStore
  <2>5. QED
    BY <2>1, <2>2, <2>4 DEF Step
<1>12. CASE SaveFails(i)
  BY <1>6, <1>12 DEF SaveFails
<1>13. QED
  BY <1>7, <1>8, <1>10, <1>11, <1>12

-----------------------------------------------------------------------------
(* The steps of the commands that change no folder. *)

\* A command turns to adding a profile.
LEMMA OneJobStep ==
    ASSUME Types, NEW i \in Procs, NEW j \in JobSet, j.do = "add",
           pr' = [pr EXCEPT ![i].pc = "job", ![i].jobs = <<j>>]
    PROVE  Control(i) /\ pr'[i].pc = "job"
<1> DEFINE t == pr[i]
           u == [t EXCEPT !.pc = "job", !.jobs = <<j>>]
<1>1. t \in Task /\ pr' = [pr EXCEPT ![i] = u]
  BY DEF Types
<1>2. t \in TaskSet /\ "job" \in Pcs /\ <<j>> \in Seq(JobSet)
  <2>1. <<j>> \in Seq(JobSet)
    OBVIOUS
  <2>2. QED
    BY <1>1, <2>1, TaskFields DEF Pcs, JobPcs
<1> HIDE DEF t
<1>3. u \in TaskSet /\ u.pc = "job" /\ u.op = t.op /\ u.jobs = <<j>>
  BY <1>2 DEF TaskSet
<1> HIDE DEF u
<1>4. Len(<<j>>) = 1 /\ Head(<<j>>) = j /\ <<j>> # <<>>
  OBVIOUS
<1>5. Formed(u)
  BY <1>3, <1>4 DEF Formed, JobPcs, MovePcs, InitPcs, DstPcs
<1>6. u \in Task
  BY <1>3, <1>5 DEF Task
<1>7. QED
  BY <1>1, <1>3, <1>6, OneTask DEF Control, t

LEMMA QuietAway ==
    ASSUME NEW i \in Procs, UNCHANGED <<dir, tmp, pieces, made>>,
           pr[i].pc \notin {"publish", "clear", "place"},
           pr'[i].pc \notin FilePcs
    PROVE  Quiet(i)
BY DEF Quiet

LEMMA MoveChecks ==
    ASSUME Types, SecretInv, NEW i \in Procs, Move(i)
    PROVE  Step(i) /\ Quiet(i)
<1>1. UNCHANGED <<stores, secrets>> /\ UNCHANGED <<dir, tmp, pieces, made>> /\ pr[i].pc = "check"
  BY DEF Move, files, counts, At
<1>2. CASE Stop(i)
  <2>1. Control(i) /\ pr'[i].pc = "idle"
    BY <1>2, StopStep
  <2>2. QED
    BY <1>1, <2>1, PlainStep, QuietAway DEF FilePcs, MovePcs
<1>3. CASE /\ Goto(i, "prepare") /\ validateSource(Src(i))
           /\ validateNotSameDirectory(pr[i].src, pr[i].dst)
  <2>1. MayFollow(pr[i], "prepare") /\ "prepare" \in Pcs
    BY <1>1, <1>3 DEF MayFollow, validateNotSameDirectory, Pcs, DstPcs, MovePcs
  <2>2. Control(i) /\ pr'[i].pc = "prepare" /\ pr'[i].src = pr[i].src
    BY <1>3, <2>1, GotoStep
  <2>3. pr[i].src \in Spellings
    <3>1. Formed(pr[i])
      BY TaskFields DEF Types
    <3>2. QED
      BY <1>1, <3>1 DEF Formed
  <2>4. Src(i) \in Dirs /\ dir[Src(i)] \in Folders
    BY <2>3, RealFolder DEF Src, Types
  <2>5. Occupied(Src(i))
    BY <1>3, <2>4, FolderFacts DEF validateSource, Occupied
  <2>6. Quiet(i)
    BY <1>1, <2>2, <2>5 DEF Quiet, Src
  <2>7. QED
    BY <1>1, <2>2, <2>6, PlainStep
<1>4. QED
  BY <1>2, <1>3 DEF Move

LEMMA LocationChosen ==
    ASSUME Types, NEW i \in Procs, pr[i].pc \in {"probe", "confirm"}, stepVaultLocation(i)
    PROVE  Control(i) /\ pr'[i].pc = "probe"
<1> DEFINE t == pr[i]
<1>1. PICK d \in Spellings : pr' = [pr EXCEPT ![i].dst = d, ![i].pc = "probe"]
  BY DEF stepVaultLocation
<1> DEFINE u == [t EXCEPT !.dst = d, !.pc = "probe"]
<1>2. t \in Task /\ pr' = [pr EXCEPT ![i] = u]
  BY <1>1 DEF Types
<1>3. t \in TaskSet /\ Formed(t) /\ "probe" \in Pcs /\ d \in Spots /\ t.pc \in {"probe", "confirm"}
  BY <1>2, TaskFields DEF Pcs, DstPcs, Spots
<1> HIDE DEF t
<1>4. u \in TaskSet /\ u.pc = "probe" /\ u.op = t.op /\ u.dst = d
  BY <1>3 DEF TaskSet
<1> HIDE DEF u
<1>5. Formed(u)
  BY <1>3, <1>4 DEF Formed, JobPcs, MovePcs, InitPcs, DstPcs
<1>6. u \in Task
  BY <1>4, <1>5 DEF Task
<1>7. QED
  BY <1>2, <1>4, <1>6, OneTask DEF Control, t

LEMMA NameChosen ==
    ASSUME Types, NEW i \in Procs, pr[i].pc = "probe", suffixedProfileName(i)
    PROVE  Control(i) /\ pr'[i].pc = "probe"
<1> DEFINE t == pr[i]
<1>1. PICK n \in Names : pr' = [pr EXCEPT ![i].name = n]
  BY DEF suffixedProfileName
<1> DEFINE u == [t EXCEPT !.name = n]
<1>2. t \in Task /\ pr' = [pr EXCEPT ![i] = u]
  BY <1>1 DEF Types
<1>3. t \in TaskSet /\ Formed(t) /\ t.pc = "probe"
  BY <1>2, TaskFields
<1> HIDE DEF t
<1>4. u \in TaskSet /\ u.pc = "probe" /\ u.op = t.op /\ u.dst = t.dst
  BY <1>3 DEF TaskSet
<1> HIDE DEF u
<1>5. Formed(u)
  BY <1>3, <1>4 DEF Formed, JobPcs, MovePcs, InitPcs, DstPcs
<1>6. u \in Task
  BY <1>4, <1>5 DEF Task
<1>7. QED
  BY <1>2, <1>4, <1>6, OneTask DEF Control, t

LEMMA WizardAndSetup ==
    ASSUME Types, SecretInv, NEW i \in Procs,
           \/ resolveLocationConflicts(i) \/ Validate(i) \/ register(i)
           \/ cloudStep(i) \/ RemoteTest(i)
    PROVE  Step(i) /\ Quiet(i)
<1>1. /\ UNCHANGED <<stores, secrets>> /\ UNCHANGED <<dir, tmp, pieces, made>>
      /\ pr[i].pc \in {"probe", "lookup", "relookup", "cloud", "test"}
  BY DEF resolveLocationConflicts, Validate, register, cloudStep, RemoteTest, files, counts, At
<1>2. SUFFICES Control(i) /\ pr'[i].pc \in {"idle", "probe", "confirm", "lookup", "mktemp",
                                            "job", "phrase"}
  BY <1>1, PlainStep, QuietAway DEF FilePcs, MovePcs
<1>3. ASSUME Stop(i)
      PROVE  Control(i) /\ pr'[i].pc = "idle"
  BY <1>3, StopStep
<1>4. pr[i].dst \in Spots /\ pr[i].name \in Names \cup {""}
  BY TaskFields DEF Types
<1>5. CASE resolveLocationConflicts(i)
  <2>1. pr[i].pc = "probe"
    BY <1>5 DEF resolveLocationConflicts, At
  <2>2. \/ Stop(i) \/ stepVaultLocation(i) \/ suffixedProfileName(i)
        \/ Goto(i, "confirm") \/ Goto(i, "lookup")
    BY <1>5 DEF resolveLocationConflicts
  <2>3. ASSUME NEW x \in {"confirm", "lookup"}, Goto(i, x)
        PROVE  Control(i) /\ pr'[i].pc = x
    <3>1. MayFollow(pr[i], x) /\ x \in Pcs
      BY <2>1 DEF MayFollow, Pcs, DstPcs
    <3>2. QED
      BY <2>3, <3>1, GotoStep
  <2>4. QED
    BY <1>3, <2>1, <2>2, <2>3, LocationChosen, NameChosen
<1>6. CASE Validate(i)
  <2>1. MayFollow(pr[i], "mktemp") /\ "mktemp" \in Pcs
    BY <1>6 DEF Validate, At, MayFollow, Pcs, DstPcs
  <2>2. Goto(i, "mktemp") \/ Stop(i)
    BY <1>6 DEF Validate
  <2>3. QED
    BY <1>3, <2>1, <2>2, GotoStep
<1>7. CASE register(i)
  <2>1. \/ Stop(i)
        \/ pr' = [pr EXCEPT ![i].pc = "job", ![i].jobs = <<Add(pr[i].name, pr[i].dst)>>]
    BY <1>7 DEF register
  <2>2. Add(pr[i].name, pr[i].dst) \in JobSet /\ Add(pr[i].name, pr[i].dst).do = "add"
    BY <1>4, StoreJobs
  <2>3. QED
    BY <1>3, <2>1, <2>2, OneJobStep
<1>8. MayFollow(pr[i], "phrase") /\ "phrase" \in Pcs
  BY DEF MayFollow, FreePcs, Pcs
<1>9. CASE cloudStep(i)
  <2>1. \/ Stop(i) \/ Goto(i, "phrase")
        \/ \E n \in Names :
             pr' = [pr EXCEPT ![i].pc = "job", ![i].jobs = <<RemoteAdd(n, pr[i].dst)>>]
    BY <1>9 DEF cloudStep, Finish
  <2>2. \A n \in Names : /\ RemoteAdd(n, pr[i].dst) \in JobSet
                         /\ RemoteAdd(n, pr[i].dst).do = "add"
    BY <1>4, StoreJobs
  <2>3. QED
    BY <1>3, <1>8, <2>1, <2>2, OneJobStep, GotoStep
<1>10. CASE RemoteTest(i)
  <2>1. Stop(i) \/ Goto(i, "phrase")
    BY <1>10 DEF RemoteTest, Finish
  <2>2. QED
    BY <1>3, <1>8, <2>1, GotoStep
<1>11. QED
  BY <1>5, <1>6, <1>7, <1>9, <1>10

\* The steps that touch the keychain, the card and the recovery key.
LEMMA SecretSteps ==
    ASSUME Types, SecretInv, NEW i \in Procs,
           \/ KeychainSet(i) \/ showPhrase(i) \/ deferRecovery(i) \/ commitRecovery(i)
           \/ stampCard(i)
    PROVE  Step(i) /\ Quiet(i)
<1>1. /\ UNCHANGED <<dir, tmp, pieces, made>> /\ UNCHANGED <<prof, rem>>
      /\ pr[i].pc \in {"keychain", "phrase", "readback", "stamp"}
      /\ UNCHANGED listed
  BY DEF KeychainSet, showPhrase, deferRecovery, commitRecovery, stampCard, files, stores,
         counts, At
<1>2. SUFFICES SecretStep(i) /\ Control(i)
                 /\ pr'[i].pc \in {"idle", "cloud", "readback", "stamp"}
  BY <1>1, QuietAway DEF Step, Types, FilePcs, MovePcs
<1>3. \A x \in {"cloud", "readback", "stamp"} : MayFollow(pr[i], x) /\ x \in Pcs
  BY DEF MayFollow, FreePcs, Pcs
<1>4. /\ keys \subseteq listed
      /\ card \in [Ids -> {"none", "draft", "confirmed"}]
      /\ \A v \in Ids : card[v] = "confirmed" => v \in commit
      /\ pr[i].pc = "keychain" /\ pr[i].op # "init" => pr[i].id \in listed
      /\ pr[i].pc = "stamp" => pr[i].id \in commit
  BY DEF SecretInv, NoOrphanSecret
<1>5. CASE KeychainSet(i)
  <2>1. UNCHANGED <<card, commit>> /\ pr[i].pc = "keychain"
    BY <1>5 DEF KeychainSet, At
  <2>2. CASE Stop(i) /\ UNCHANGED keys
    <3>1. Control(i) /\ pr'[i].pc = "idle"
      BY <2>2, StopStep
    <3>2. QED
      BY <1>1, <1>4, <2>1, <2>2, <3>1 DEF SecretStep, NoOrphanSecret
  <2>3. CASE /\ pr[i].op # "init" /\ Goto(i, "cloud")
             /\ keys' \in {keys, keys \cup {pr[i].id}}
    <3>1. Control(i) /\ pr'[i].pc = "cloud"
      BY <1>3, <2>3, GotoStep
    <3>2. keys' \subseteq listed'
      BY <1>1, <1>4, <2>1, <2>3
    <3>3. QED
      BY <1>1, <1>4, <2>1, <3>1, <3>2 DEF SecretStep, NoOrphanSecret
  <2>4. QED
    BY <1>5, <2>2, <2>3 DEF KeychainSet
<1>6. CASE showPhrase(i)
  <2>1. Control(i) /\ pr'[i].pc = "readback"
    BY <1>3, <1>6, GotoStep DEF showPhrase
  <2>2. UNCHANGED <<keys, commit>>
    BY <1>6 DEF showPhrase
  <2>3. card' = card \/ card' = [card EXCEPT ![pr[i].id] = "draft"]
    BY <1>6 DEF showPhrase
  <2>4. QED
    BY <1>1, <1>4, <2>1, <2>2, <2>3 DEF SecretStep, NoOrphanSecret
<1>7. CASE deferRecovery(i)
  <2>1. Control(i) /\ pr'[i].pc = "idle"
    BY <1>7, StopStep DEF deferRecovery
  <2>2. UNCHANGED <<keys, commit>>
    BY <1>7 DEF deferRecovery
  <2>3. card' = card \/ card' = [card EXCEPT ![pr[i].id] = "none"]
    BY <1>7 DEF deferRecovery
  <2>4. QED
    BY <1>1, <1>4, <2>1, <2>2, <2>3 DEF SecretStep, NoOrphanSecret
<1>8. CASE commitRecovery(i)
  <2>1. Control(i) /\ pr'[i].pc = "stamp" /\ pr'[i].id = pr[i].id
    BY <1>3, <1>8, GotoStep DEF commitRecovery
  <2>2. UNCHANGED <<keys, card>> /\ commit' = commit \cup {pr[i].id}
    BY <1>8 DEF commitRecovery
  <2>3. QED
    BY <1>1, <1>4, <2>1, <2>2 DEF SecretStep, NoOrphanSecret
<1>9. CASE stampCard(i)
  <2>1. Control(i) /\ pr'[i].pc = "idle"
    BY <1>9, StopStep DEF stampCard
  <2>2. UNCHANGED <<keys, commit>> /\ pr[i].id \in commit
    BY <1>4, <1>9 DEF stampCard, At
  <2>3. \/ card' = card
        \/ card' = [card EXCEPT ![pr[i].id] = IF @ = "draft" THEN "confirmed" ELSE @]
    BY <1>9 DEF stampCard
  <2>4. /\ card' \in [Ids -> {"none", "draft", "confirmed"}]
        /\ \A v \in Ids : card'[v] = "confirmed" => v \in commit
    BY <1>4, <2>2, <2>3
  <2>5. QED
    BY <1>1, <1>4, <2>1, <2>2, <2>4 DEF SecretStep, NoOrphanSecret
<1>10. QED
  BY <1>5, <1>6, <1>7, <1>8, <1>9

-----------------------------------------------------------------------------
(* What every step keeps. *)

LEMMA IdleHasNoOp ==
    ASSUME Types, NEW j \in Procs, pr[j].pc = "idle"
    PROVE  pr[j].op = ""
<1>1. Formed(pr[j])
  BY TaskFields DEF Types
<1>2. QED
  BY <1>1 DEF Formed

LEMMA ExclusiveKept ==
    ASSUME Types, Exclusive, NEW i \in Procs, Control(i)
    PROVE  Exclusive'
<1>1. \A j \in Procs \ {i} : pr'[j] = pr[j]
  BY DEF Control, Others
<1>2. CASE pr'[i].op \in {pr[i].op, ""}
  BY <1>1, <1>2 DEF Exclusive
<1>3. CASE pr[i].pc = "idle" /\ Alone(pr'[i].op)
  <2>1. \A j \in Procs : pr[j].op # "init"
    BY <1>3 DEF Alone, Running
  <2>2. pr'[i].op = "init" => \A j \in Procs : pr[j].op = ""
    BY <1>3, IdleHasNoOp DEF Alone
  <2>3. pr'[i].op \in {"move", "wizard"} => \A j \in Procs : pr[j].op # "move"
    BY <1>3 DEF Alone, Running
  <2>4. pr'[i].op = "move" => \A j \in Procs : pr[j].op # "wizard"
    BY <1>3 DEF Alone, Running
  <2>5. QED
    BY <1>1, <2>1, <2>2, <2>3, <2>4 DEF Exclusive
<1>4. QED
  BY <1>2, <1>3 DEF Control

LEMMA SecretInvKept ==
    ASSUME SecretInv, NEW i \in Procs, Step(i)
    PROVE  SecretInv'
BY DEF SecretInv, Step, SecretStep, Control, Others

\* The ids a step of i may bring into a folder.
Brought(k, i) == k = 0 \/ k > made \/ k = tmp[i].id \/ \E e \in Dirs : k = dir[e].id

OnlyCommands(i) == dir' = dir \/ pr[i].op # ""

\* What a process may rely on, the steps of the others leave alone.
LEMMA OthersClaims ==
    ASSUME Types, Exclusive, FolderInv, NEW i \in Procs, Control(i), OnlyCommands(i),
           made' >= made, made' \in Nat, \A j \in Procs \ {i} : tmp'[j] = tmp[j],
           Brought(tmp'[i].id, i),
           \A d \in Dirs :
              /\ Brought(dir'[d].id, i)
              /\ dir'[d] = dir[d] \/ ~Occupied(d) \/ pr[i].op \in {"move", "wizard", "init"}
    PROVE  \A j \in Procs \ {i} : Claim(j)'
<1> SUFFICES ASSUME NEW j \in Procs \ {i}
             PROVE  Claim(j)'
  OBVIOUS
<1>1. pr'[j] = pr[j] /\ tmp'[j] = tmp[j]
  BY DEF Control, Others
<1>2. Formed(pr[j]) /\ Formed(pr[i])
  BY TaskFields DEF Types
<1>3. Claim(j)
  BY DEF FolderInv
<1>4. Src(j)' = Src(j) /\ Dst(j)' = Dst(j)
  BY <1>1 DEF Src, Dst
<1>5. ASSUME pr[j].pc \in MovePcs
      PROVE  /\ Src(j) \in Dirs /\ dir'[Src(j)] = dir[Src(j)]
             /\ pr[j].pc = "rmsrc" /\ dir[Src(j)].what = "whole" => dir'[Dst(j)] = dir[Dst(j)]
  <2>1. pr[j].op = "move" /\ pr[j].src \in Spellings /\ pr[j].dst \in Spellings
    BY <1>2, <1>5 DEF Formed, DstPcs
  <2>2. Src(j) \in Dirs /\ Dst(j) \in Dirs
    BY <2>1, RealFolder DEF Src, Dst
  <2>3. pr[i].op \notin {"move", "wizard", "init"}
    BY <2>1 DEF Exclusive
  <2>4. Occupied(Src(j))
    BY <1>3, <1>5 DEF Claim, SourceStays
  <2>5. pr[j].pc = "rmsrc" /\ dir[Src(j)].what = "whole" => Occupied(Dst(j))
    BY <1>3 DEF Claim, SourceStays, Occupied
  <2>6. QED
    BY <2>2, <2>3, <2>4, <2>5
<1>6. TmpInUse(j)'
  <2>1. pr[j].pc = "publish" => tmp[j] = dir'[Src(j)]
    BY <1>3, <1>5 DEF Claim, TmpInUse, MovePcs
  <2>2. QED
    BY <1>1, <1>3, <1>4, <2>1 DEF Claim, TmpInUse
<1>7. SourceStays(j)'
  <2>1. pr[j].pc \in MovePcs => dir'[Src(j)].what \in {"junk", "half", "whole"}
    BY <1>3, <1>5 DEF Claim, SourceStays, Occupied
  <2>2. pr[j].pc = "rmsrc" /\ dir'[Src(j)].what = "whole" => dir'[Dst(j)] = dir'[Src(j)]
    BY <1>3, <1>5 DEF Claim, SourceStays, MovePcs
  <2>3. QED
    BY <1>1, <1>4, <2>1, <2>2 DEF SourceStays, Occupied
<1>8. Unplaced(j)'
  <2>1. SUFFICES ASSUME pr[j].pc \in {"clear", "place"}
                 PROVE  /\ pr[j].id \in Ids /\ tmp[j] = Whole(pr[j].id) /\ pr[j].id <= made'
                        /\ \A d \in Dirs : dir'[d].id # pr[j].id
                        /\ \A l \in Procs \ {j} : tmp'[l].id # pr[j].id
    BY <1>1 DEF Unplaced
  <2>2. /\ pr[j].id \in Ids /\ tmp[j] = Whole(pr[j].id) /\ pr[j].id <= made
        /\ \A d \in Dirs : dir[d].id # pr[j].id
        /\ \A l \in Procs \ {j} : tmp[l].id # pr[j].id
    BY <1>3, <2>1 DEF Claim, Unplaced
  <2>3. pr[j].id \in Nat /\ pr[j].id # 0 /\ made \in Nat
    BY <2>2, IdNumbers, MadeNumber
  <2>4. \A k : Brought(k, i) => k # pr[j].id
    <3>1. ~(pr[j].id > made)
      BY <2>2, <2>3
    <3>2. tmp[i].id # pr[j].id
      BY <2>2
    <3>3. QED
      BY <2>2, <2>3, <3>1, <3>2, Zenon DEF Brought
  <2>5. pr[j].id <= made'
    <3>1. \A k, m, n \in Nat : k <= m /\ n >= m => k <= n
      OBVIOUS
    <3>2. QED
      BY <2>2, <2>3, <3>1
  <2>6. QED
    BY <2>2, <2>4, <2>5
<1>9. InitInPlace(j)'
  <2>1. pr[j].pc \in {"config", "layout"} => pr[i].op = ""
    BY <1>2 DEF Formed, InitPcs, Exclusive
  <2>2. CASE dir' = dir
    BY <1>1, <1>3, <1>4, <2>2 DEF Claim, InitInPlace
  <2>3. CASE pr[i].op # ""
    BY <1>1, <2>1, <2>3 DEF InitInPlace
  <2>4. QED
    BY <2>2, <2>3 DEF OnlyCommands
<1>10. QED
  BY <1>6, <1>7, <1>8, <1>9 DEF Claim

-----------------------------------------------------------------------------
(* The folders as VaultHome sees them. *)

HomeStep == [Home!HomeNext]_<<Places, Asked, Condemned>>

\* A step gives no consent and condemns no folder.
MarksShrink == Asked' \in SUBSET Asked /\ Condemned' \in SUBSET Condemned
MarksSame == Asked' = Asked /\ Condemned' = Condemned

LEMMA WholeIs ==
    ASSUME NEW f \in Folders, NEW v \in Ids
    PROVE  f = Whole(v) <=> f.what = "whole" /\ f.id = v
BY FolderKinds, FolderFacts

\* Nothing complete comes or goes.
LEMMA PlacesSame ==
    ASSUME NEW S, dir' \in S, dir \in S, S = [Dirs -> Folders],
           \A d \in Dirs : \/ dir'[d] = dir[d]
                           \/ dir[d].what # "whole" /\ dir'[d].what # "whole"
    PROVE  Places' = Places
<1>1. \A v \in Ids, d \in Dirs : dir'[d] = Whole(v) <=> dir[d] = Whole(v)
  BY WholeIs
<1>2. \A v \in Ids : {d \in Dirs : dir'[d] = Whole(v)} = {d \in Dirs : dir[d] = Whole(v)}
  BY <1>1
<1>3. QED
  BY <1>2 DEF Places

LEMMA PlaceGained ==
    ASSUME dir \in [Dirs -> Folders], NEW v \in Ids, NEW d \in Dirs, dir[d].what # "whole",
           dir' = [dir EXCEPT ![d] = Whole(v)]
    PROVE  Places' = [Places EXCEPT ![v] = @ \cup {d}] /\ Home!Free(d)
<1>1. \A w \in Ids : dir[d] # Whole(w)
  BY FolderKinds
<1>2. \A w \in Ids : w # v => Whole(w) # Whole(v)
  BY FolderKinds
<1>3. \A w \in Ids : {e \in Dirs : dir'[e] = Whole(w)} =
          IF w = v THEN {e \in Dirs : dir[e] = Whole(w)} \cup {d}
                   ELSE {e \in Dirs : dir[e] = Whole(w)}
  BY <1>1, <1>2
<1>4. Places' = [Places EXCEPT ![v] = @ \cup {d}]
  BY <1>3 DEF Places
<1>5. QED
  BY <1>1, <1>4 DEF Home!Free, Places

LEMMA PlaceLost ==
    ASSUME dir \in [Dirs -> Folders], NEW v \in Ids, NEW d \in Dirs, dir[d] = Whole(v),
           NEW x, x.what # "whole", dir' = [dir EXCEPT ![d] = x]
    PROVE  Places' = [Places EXCEPT ![v] = @ \ {d}] /\ d \in Places[v]
<1>1. \A w \in Ids : x # Whole(w)
  BY FolderKinds
<1>2. \A w \in Ids : w # v => Whole(w) # Whole(v)
  BY FolderKinds
<1>3. \A w \in Ids : {e \in Dirs : dir'[e] = Whole(w)} =
          IF w = v THEN {e \in Dirs : dir[e] = Whole(w)} \ {d}
                   ELSE {e \in Dirs : dir[e] = Whole(w)}
  BY <1>1, <1>2
<1>4. Places' = [Places EXCEPT ![v] = @ \ {d}]
  BY <1>3 DEF Places
<1>5. QED
  BY <1>4 DEF Places

LEMMA PlaceMoved ==
    ASSUME dir \in [Dirs -> Folders], NEW v \in Ids, NEW d \in Dirs, NEW e \in Dirs, d # e,
           dir[d] = Whole(v), dir[e].what # "whole",
           dir' = [dir EXCEPT ![e] = dir[d], ![d] = Absent]
    PROVE  /\ Places' = [Places EXCEPT ![v] = (@ \ {d}) \cup {e}]
           /\ d \in Places[v] /\ Home!Free(e)
<1>1. \A w \in Ids : Absent # Whole(w) /\ dir[e] # Whole(w)
  BY FolderKinds
<1>2. \A w \in Ids : w # v => Whole(w) # Whole(v)
  BY FolderKinds
<1>3. \A f \in Dirs : dir'[f] = IF f = d THEN Absent ELSE IF f = e THEN Whole(v) ELSE dir[f]
  OBVIOUS
<1>4. \A w \in Ids : {f \in Dirs : dir'[f] = Whole(w)} =
          IF w = v THEN ({f \in Dirs : dir[f] = Whole(w)} \ {d}) \cup {e}
                   ELSE {f \in Dirs : dir[f] = Whole(w)}
  BY <1>1, <1>2, <1>3
<1>5. Places' = [Places EXCEPT ![v] = (@ \ {d}) \cup {e}]
  BY <1>4 DEF Places
<1>6. QED
  BY <1>1, <1>5 DEF Home!Free, Places

\* Consent only goes where the task does not come to ask.
LEMMA AskedShrinks ==
    ASSUME NEW i \in Procs, Others(i), pr'[i].pc \notin {"prepare", "rmdst", "confirm"}
    PROVE  MarksShrink
<1>1. Asked' \in SUBSET Asked
  BY DEF Others, Asked, At, Src, Dst
<1>2. Condemned' \in SUBSET Condemned
  BY DEF Others, Condemned, At, Dst
<1>3. QED
  BY <1>1, <1>2 DEF MarksShrink

LEMMA AskedSame ==
    ASSUME NEW i \in Procs, Others(i), pr'[i].pc \notin {"prepare", "rmdst", "confirm"},
           pr[i].pc \notin {"prepare", "rmdst", "confirm"}
    PROVE  MarksSame
<1>1. Asked' = Asked
  BY DEF Others, Asked, At, Src, Dst
<1>2. Condemned' = Condemned
  BY DEF Others, Condemned, At, Dst
<1>3. QED
  BY <1>1, <1>2 DEF MarksSame

\* A folder is condemned only while no vault is in it.
Condemns(i) ==
    pr'[i].pc = "rmdst" => pr'[i].replace \/ dir[Real[pr'[i].dst]].what # "whole"

LEMMA ConsentStep ==
    ASSUME NEW i \in Procs, Others(i), Condemns(i), Places' = Places
    PROVE  HomeStep
<1>1. Asked' \in SUBSET Dirs
  BY DEF Asked
<1>2. Condemned' \in SUBSET (Condemned \cup {d \in Dirs : Home!Free(d)})
  <2>1. ASSUME NEW d \in Condemned', d \notin Condemned
        PROVE  d \in Dirs /\ Home!Free(d)
    <3>1. PICK j \in Procs : At(j, "rmdst")' /\ ~pr'[j].replace /\ d = Dst(j)' /\ d \in Dirs
      BY <2>1 DEF Condemned
    <3>2. j = i
      BY <2>1, <3>1 DEF Condemned, Others, At, Dst
    <3>3. dir[d].what # "whole"
      BY <3>1, <3>2 DEF Condemns, At, Dst
    <3>4. \A v \in Ids : dir[d] # Whole(v)
      BY <3>3, FolderKinds
    <3>5. QED
      BY <3>1, <3>4 DEF Home!Free, Places
  <2>2. QED
    BY <2>1
<1>3. QED
  BY <1>1, <1>2 DEF HomeStep, Home!HomeNext, Home!Consent

\* No complete vault comes or goes and no consent is given.
LEMMA MarksStep ==
    ASSUME Places' = Places, MarksShrink
    PROVE  HomeStep
<1>1. Asked' \in SUBSET Dirs
  BY DEF Asked
<1>2. Condemned' \in SUBSET (Condemned \cup {d \in Dirs : Home!Free(d)})
  BY DEF MarksShrink
<1>3. QED
  BY <1>1, <1>2 DEF HomeStep, Home!HomeNext, Home!Consent

-----------------------------------------------------------------------------
(* The steps that change folders. *)

\* What a step of i may put into a folder.
Lawful(x, i) ==
    /\ x \in Folders
    /\ Brought(x.id, i)
    /\ x.id <= made'
    /\ x.what = "half" => x.id \in pieces'

Growing == made' \in 1 .. MaxVaults /\ made' >= made /\ pieces \subseteq pieces'

LEMMA NoNewVault ==
    ASSUME Types, UNCHANGED made, pieces \subseteq pieces'
    PROVE  Growing
BY MadeNumber DEF Growing, Types

\* Content that is there already, or none.
LEMMA OldIsLawful ==
    ASSUME Types, FolderInv, PieceInv, Growing, NEW i \in Procs
    PROVE  /\ Lawful(Absent, i)
           /\ Lawful(tmp[i], i)
           /\ \A d \in Dirs : Lawful(dir[d], i)
<1>1. made \in Nat /\ made' \in Nat /\ made' >= made
  BY MadeNumber, PlacesAssumption DEF Growing
<1>2. \A k : k \in 0 .. MaxVaults /\ k <= made => k <= made'
  BY <1>1, PlacesAssumption
<1>3. \A f \in Folders : f.id \in 0 .. MaxVaults
  BY FolderFacts
<1>4. Lawful(Absent, i)
  BY <1>1, FolderKinds DEF Lawful, Brought
<1>5. Lawful(tmp[i], i)
  BY <1>2, <1>3 DEF Lawful, Brought, Types, FolderInv, IdsMade, PieceInv, Growing
<1>6. ASSUME NEW d \in Dirs
      PROVE  Lawful(dir[d], i)
  BY <1>2, <1>3 DEF Lawful, Brought, Types, FolderInv, IdsMade, PieceInv, SetupAllOrNothing, Growing
<1>7. QED
  BY <1>4, <1>5, <1>6

\* A step keeps the invariant when what it writes is lawful, when it changes
\* only free folders or runs alone enough, and when its own claim holds after it.
LEMMA FolderStep ==
    ASSUME Types, Exclusive, FolderInv, PieceInv, NEW i \in Procs, Step(i), OnlyCommands(i),
           Growing, dir' \in [Dirs -> Folders], tmp' \in [Procs -> Folders],
           \A j \in Procs \ {i} : tmp'[j] = tmp[j],
           Lawful(tmp'[i], i),
           \A d \in Dirs :
              /\ Lawful(dir'[d], i)
              /\ dir'[d] = dir[d] \/ ~Occupied(d) \/ pr[i].op \in {"move", "wizard", "init"},
           Claim(i)'
    PROVE  Types' /\ FolderInv' /\ PieceInv'
<1>1. Control(i) /\ prof' \in Stores /\ rem' \in Stores
  BY DEF Step
<1>2. Types'
  BY <1>1 DEF Types, Control, Growing
<1>3. made \in Nat /\ made' \in Nat /\ made' >= made
  BY MadeNumber, PlacesAssumption DEF Growing
<1>4. \A j \in Procs \ {i} : Claim(j)'
  <2>1. Brought(tmp'[i].id, i)
    BY DEF Lawful
  <2>2. \A d \in Dirs :
           /\ Brought(dir'[d].id, i)
           /\ dir'[d] = dir[d] \/ ~Occupied(d) \/ pr[i].op \in {"move", "wizard", "init"}
    BY DEF Lawful
  <2>3. QED
    BY <1>1, <1>3, <2>1, <2>2, OthersClaims
<1>5. IdsMade'
  <2>1. \A j \in Procs \ {i} : tmp[j].id \in 0 .. MaxVaults /\ tmp[j].id <= made
    BY FolderFacts DEF Types, FolderInv, IdsMade
  <2>2. \A k : k \in 0 .. MaxVaults /\ k <= made => k <= made'
    BY <1>3, PlacesAssumption
  <2>3. \A j \in Procs \ {i} : tmp'[j].id <= made'
    BY <2>1, <2>2
  <2>4. QED
    BY <2>3 DEF IdsMade, Lawful
<1>6. PieceInv'
  <2>1. \A j \in Procs \ {i} : tmp'[j].what = "half" => tmp'[j].id \in pieces'
    BY DEF PieceInv, Growing
  <2>2. QED
    BY <2>1 DEF PieceInv, SetupAllOrNothing, Lawful
<1>7. QED
  BY <1>2, <1>4, <1>5, <1>6 DEF FolderInv

LEMMA NoClaim ==
    ASSUME NEW i \in Procs, pr'[i].pc \notin FilePcs, tmp'[i] = Absent
    PROVE  Claim(i)'
BY DEF Claim, TmpInUse, SourceStays, Unplaced, InitInPlace, FilePcs, MovePcs

LEMMA QuietKeeps ==
    ASSUME Types, Exclusive, FolderInv, PieceInv, NEW i \in Procs, Step(i), Quiet(i)
    PROVE  Types' /\ FolderInv' /\ PieceInv' /\ HomeStep
<1>1. Growing
  BY NoNewVault DEF Quiet
<1>2. Lawful(tmp[i], i) /\ \A d \in Dirs : Lawful(dir[d], i)
  BY <1>1, OldIsLawful
<1>3. tmp[i] = Absent
  BY DEF Quiet, FolderInv, Claim, TmpInUse
<1>4. Claim(i)'
  <2>1. CASE pr'[i].pc \notin FilePcs
    BY <1>3, <2>1, NoClaim DEF Quiet
  <2>2. CASE /\ pr'[i].pc \in {"prepare", "rmdst", "rename"}
             /\ Occupied(Real[pr'[i].src])
    <3>1. Occupied(Src(i))'
      BY <2>2 DEF Quiet, Occupied, Src
    <3>2. QED
      BY <1>3, <2>2, <3>1
         DEF Quiet, Claim, TmpInUse, SourceStays, Unplaced, InitInPlace
  <2>3. QED
    BY <2>1, <2>2 DEF Quiet
<1>5. OnlyCommands(i)
  BY DEF Quiet, OnlyCommands
<1>6. Types' /\ FolderInv' /\ PieceInv'
  <2>1. dir' = dir /\ tmp' = tmp
    BY DEF Quiet
  <2>2. dir \in [Dirs -> Folders] /\ tmp \in [Procs -> Folders]
    BY DEF Types
  <2>3. QED
    BY <1>1, <1>2, <1>4, <1>5, <2>1, <2>2, FolderStep
<1>7. Places' = Places
  BY DEF Quiet, Places
<1>8. Condemns(i) /\ Others(i)
  BY DEF Quiet, Condemns, FilePcs, MovePcs, Step, Control
<1>9. QED
  BY <1>6, <1>7, <1>8, ConsentStep

\* A step that changes one folder, and no temporary one but its own.
LEMMA OneFolder ==
    ASSUME Types, Exclusive, FolderInv, PieceInv, NEW i \in Procs, Step(i), OnlyCommands(i),
           Growing, NEW d \in Dirs, NEW x, Lawful(x, i), dir' = [dir EXCEPT ![d] = x],
           ~Occupied(d) \/ pr[i].op \in {"move", "wizard", "init"},
           NEW y, Lawful(y, i), tmp' = [tmp EXCEPT ![i] = y],
           Claim(i)'
    PROVE  Types' /\ FolderInv' /\ PieceInv'
<1>1. \A e \in Dirs : Lawful(dir[e], i)
  BY OldIsLawful
<1>2. x \in Folders /\ y \in Folders
  BY DEF Lawful
<1>3. dir \in [Dirs -> Folders] /\ tmp \in [Procs -> Folders]
  BY DEF Types
<1>4. /\ dir' \in [Dirs -> Folders]
      /\ \A e \in Dirs : Lawful(dir'[e], i) /\ (dir'[e] = dir[e] \/ e = d)
  BY <1>1, <1>2, <1>3
<1>5. /\ tmp' \in [Procs -> Folders] /\ tmp'[i] = y
      /\ \A j \in Procs \ {i} : tmp'[j] = tmp[j]
  BY <1>2, <1>3
<1>6. QED
  BY <1>4, <1>5, FolderStep

\* The same without a change of a folder in place.
LEMMA OnlyTmp ==
    ASSUME Types, Exclusive, FolderInv, PieceInv, NEW i \in Procs, Step(i), Growing,
           UNCHANGED dir, NEW y, Lawful(y, i), tmp' = [tmp EXCEPT ![i] = y], Claim(i)',
           pr'[i].pc # "rmdst"
    PROVE  Types' /\ FolderInv' /\ PieceInv' /\ HomeStep
<1>1. \A e \in Dirs : Lawful(dir[e], i)
  BY OldIsLawful
<1>2. dir \in [Dirs -> Folders] /\ tmp \in [Procs -> Folders] /\ y \in Folders
  BY DEF Types, Lawful
<1>3. /\ tmp' \in [Procs -> Folders] /\ tmp'[i] = y
      /\ \A j \in Procs \ {i} : tmp'[j] = tmp[j]
  BY <1>2
<1>4. OnlyCommands(i)
  BY DEF OnlyCommands
<1>5. Types' /\ FolderInv' /\ PieceInv'
  BY <1>1, <1>2, <1>3, <1>4, FolderStep
<1>6. Places' = Places
  BY DEF Places
<1>7. QED
  BY <1>5, <1>6, ConsentStep DEF Condemns, Step, Control

LEMMA TmpUntouched ==
    ASSUME Types, NEW i \in Procs, tmp[i] = Absent,
           UNCHANGED tmp \/ tmp' = [tmp EXCEPT ![i] = Absent]
    PROVE  tmp' = [tmp EXCEPT ![i] = Absent] /\ tmp'[i] = Absent
BY DEF Types

\* A folder is cleared, wholly or in part, with the user's consent or because it
\* had been found empty.
LEMMA DiscardStep ==
    ASSUME Types, NEW d \in Dirs, NEW x \in Folders, x.what # "whole",
           dir' = [dir EXCEPT ![d] = x], d \in Asked \cup Condemned \/ dir[d].what # "whole",
           MarksShrink
    PROVE  HomeStep
<1>1. dir \in [Dirs -> Folders] /\ dir[d] \in Folders
  BY DEF Types
<1>2. CASE dir[d].what = "whole"
  <2>1. PICK v \in Ids : dir[d] = Whole(v)
    BY <1>1, <1>2, FolderFacts
  <2>2. Places' = [Places EXCEPT ![v] = @ \ {d}] /\ d \in Places[v]
    BY <1>1, <2>1, PlaceLost
  <2>3. Home!Discard(v, d) \/ Home!Overrun(v, d)
    BY <1>2, <2>2 DEF Home!Discard, Home!Overrun, MarksShrink
  <2>4. QED
    BY <2>3 DEF HomeStep, Home!HomeNext
<1>3. CASE dir[d].what # "whole"
  <2>1. dir' \in [Dirs -> Folders]
    BY <1>1
  <2>2. \A e \in Dirs : \/ dir'[e] = dir[e]
                        \/ dir[e].what # "whole" /\ dir'[e].what # "whole"
    BY <1>1, <1>3
  <2>3. QED
    BY <1>1, <2>1, <2>2, PlacesSame, MarksStep
<1>4. QED
  BY <1>2, <1>3

\* A copy is given up while another folder holds the vault.
LEMMA GiveUpStep ==
    ASSUME Types, NEW d \in Dirs, NEW e \in Dirs, d # e, NEW x \in Folders, x.what # "whole",
           dir' = [dir EXCEPT ![d] = x], dir[d].what = "whole" => dir[e] = dir[d],
           MarksShrink
    PROVE  HomeStep
<1>1. dir \in [Dirs -> Folders] /\ dir[d] \in Folders
  BY DEF Types
<1>2. CASE dir[d].what = "whole"
  <2>1. PICK v \in Ids : dir[d] = Whole(v)
    BY <1>1, <1>2, FolderFacts
  <2>2. Places' = [Places EXCEPT ![v] = @ \ {d}] /\ d \in Places[v]
    BY <1>1, <2>1, PlaceLost
  <2>3. e \in Places[v]
    BY <1>2, <2>1 DEF Places
  <2>4. Home!GiveUp(v, d)
    BY <2>2, <2>3 DEF Home!GiveUp, MarksShrink
  <2>5. QED
    BY <2>4 DEF HomeStep, Home!HomeNext
<1>3. CASE dir[d].what # "whole"
  BY <1>3, DiscardStep
<1>4. QED
  BY <1>2, <1>3

LEMMA MoveFacts ==
    ASSUME Types, FolderInv, NEW i \in Procs, pr[i].pc \in MovePcs
    PROVE  /\ pr[i].op = "move"
           /\ Src(i) \in Dirs /\ Dst(i) \in Dirs /\ Src(i) # Dst(i)
           /\ dir[Src(i)] \in Folders /\ dir[Dst(i)] \in Folders
           /\ Occupied(Src(i))
           /\ OnlyCommands(i)
<1>1. Formed(pr[i])
  BY TaskFields DEF Types
<1>2. pr[i].op = "move" /\ pr[i].src \in Spellings /\ pr[i].dst \in Spellings
        /\ Real[pr[i].src] # Real[pr[i].dst]
  BY <1>1 DEF Formed, DstPcs
<1>3. Src(i) \in Dirs /\ Dst(i) \in Dirs /\ Src(i) # Dst(i)
  BY <1>2, RealFolder DEF Src, Dst
<1>4. dir[Src(i)] \in Folders /\ dir[Dst(i)] \in Folders
  BY <1>3 DEF Types
<1>5. Occupied(Src(i))
  BY DEF FolderInv, Claim, SourceStays
<1>6. QED
  BY <1>2, <1>3, <1>4, <1>5 DEF OnlyCommands

\* A part of a folder removed: its vault is recorded as taken apart.
LEMMA RemoveSomeFacts ==
    ASSUME Types, FolderInv, PieceInv, NEW i \in Procs, NEW d \in Dirs, RemoveSome(d),
           UNCHANGED made
    PROVE  \E x \in Folders :
              /\ x.what = "half" /\ Lawful(x, i) /\ dir' = [dir EXCEPT ![d] = x]
              /\ pieces \subseteq pieces' /\ dir[d].what = "whole"
<1>1. PICK c \in BOOLEAN : /\ dir[d].what = "whole"
                           /\ dir' = [dir EXCEPT ![d] = Half(@.id, c)]
                           /\ pieces' = pieces \cup {dir[d].id}
  BY DEF RemoveSome
<1> DEFINE x == Half(dir[d].id, c)
<1>2. dir[d] \in Folders /\ dir \in [Dirs -> Folders]
  BY DEF Types
<1>3. dir[d].id \in Ids
  BY <1>1, <1>2, FolderFacts
<1>4. x \in Folders /\ x.what = "half" /\ x.id = dir[d].id
  BY <1>3, FolderKinds
<1>5. dir' = [dir EXCEPT ![d] = x]
  BY <1>1, <1>2
<1> HIDE DEF x
<1>6. x.id <= made'
  BY <1>4 DEF FolderInv, IdsMade
<1>7. Lawful(x, i)
  BY <1>1, <1>4, <1>6 DEF Lawful, Brought
<1>8. QED
  BY <1>1, <1>4, <1>5, <1>7

LEMMA PrepareKeeps ==
    ASSUME Types, Exclusive, FolderInv, PieceInv, SecretInv, NEW i \in Procs,
           prepareDestination(i)
    PROVE  Step(i) /\ Types' /\ FolderInv' /\ PieceInv' /\ HomeStep
<1>1. /\ pr[i].pc = "prepare" /\ UNCHANGED <<stores, secrets>>
      /\ UNCHANGED <<dir, tmp, pieces, made>>
  BY DEF prepareDestination, At, counts, files
<1>2. dir[Dst(i)] \in Folders /\ Occupied(Src(i))
  BY <1>1, MoveFacts DEF MovePcs
<1>3. CASE Stop(i)
  <2>1. Control(i) /\ pr'[i].pc = "idle"
    BY <1>3, StopStep
  <2>2. Step(i)
    BY <1>1, <2>1, PlainStep
  <2>3. Quiet(i)
    BY <1>1, <2>1, QuietAway DEF FilePcs, MovePcs
  <2>4. QED
    BY <2>2, <2>3, QuietKeeps
<1>4. ASSUME NEW x \in {"rename", "rmdst"}, Goto(i, x),
             x = "rmdst" => pr[i].replace \/ dir[Dst(i)].what # "whole"
      PROVE  Step(i) /\ Types' /\ FolderInv' /\ PieceInv' /\ HomeStep
  <2>1. MayFollow(pr[i], x) /\ x \in Pcs
    BY <1>1 DEF MayFollow, MovePcs, Pcs, DstPcs
  <2>2. /\ Control(i) /\ pr'[i].pc = x /\ pr'[i].src = pr[i].src
        /\ pr'[i].dst = pr[i].dst /\ pr'[i].replace = pr[i].replace
    BY <1>4, <2>1, GotoStep
  <2>3. Step(i)
    BY <1>1, <2>2, PlainStep
  <2>4. Quiet(i)
    BY <1>1, <1>2, <1>4, <2>2 DEF Quiet, Src, Dst
  <2>5. QED
    BY <2>3, <2>4, QuietKeeps
<1>5. QED
  BY <1>2, <1>3, <1>4, FolderFacts DEF prepareDestination, Occupied

LEMMA ClearDestinationKeeps ==
    ASSUME Types, Exclusive, FolderInv, PieceInv, SecretInv, NEW i \in Procs,
           clearDestination(i)
    PROVE  Step(i) /\ Types' /\ FolderInv' /\ PieceInv' /\ HomeStep
<1>1. pr[i].pc = "rmdst" /\ UNCHANGED <<stores, secrets>> /\ UNCHANGED made
  BY DEF clearDestination, At, counts
<1>2. /\ pr[i].op = "move" /\ Src(i) \in Dirs /\ Dst(i) \in Dirs /\ Src(i) # Dst(i)
      /\ dir[Dst(i)] \in Folders /\ Occupied(Src(i)) /\ OnlyCommands(i)
  BY <1>1, MoveFacts DEF MovePcs
<1>3. dir \in [Dirs -> Folders] /\ tmp \in [Procs -> Folders]
  BY DEF Types
<1>4. tmp[i] = Absent
  BY <1>1 DEF FolderInv, Claim, TmpInUse
<1>5. ASSUME Stop(i)
      PROVE  Step(i) /\ pr'[i].pc = "idle"
  <2>1. Control(i) /\ pr'[i].pc = "idle"
    BY <1>5, StopStep
  <2>2. QED
    BY <1>1, <2>1, PlainStep
<1>6. Dst(i) \in Asked \cup Condemned
  BY <1>1, <1>2 DEF Asked, Condemned, At
<1>7. CASE Stop(i) /\ UNCHANGED <<dir, pieces>> /\ UNCHANGED tmp
  <2>1. Step(i) /\ pr'[i].pc = "idle"
    BY <1>5, <1>7
  <2>2. UNCHANGED <<dir, tmp, pieces, made>>
    BY <1>1, <1>7
  <2>3. Quiet(i)
    BY <1>1, <2>1, <2>2, QuietAway DEF FilePcs, MovePcs
  <2>4. QED
    BY <2>1, <2>3, QuietKeeps
<1>8. CASE RemoveAll(Dst(i)) /\ Goto(i, "rename") /\ UNCHANGED tmp
  <2>1. MayFollow(pr[i], "rename") /\ "rename" \in Pcs
    BY <1>1 DEF MayFollow, MovePcs, Pcs, DstPcs
  <2>2. Control(i) /\ pr'[i].pc = "rename" /\ pr'[i].src = pr[i].src
    BY <1>8, <2>1, GotoStep
  <2>3. Step(i)
    BY <1>1, <2>2, PlainStep
  <2>4. dir' = [dir EXCEPT ![Dst(i)] = Absent] /\ UNCHANGED <<pieces, tmp>>
    BY <1>8 DEF RemoveAll
  <2>5. Growing
    BY <1>1, <2>4, NoNewVault
  <2>6. Lawful(Absent, i)
    BY <2>5, OldIsLawful
  <2>7. Absent \in Folders /\ Absent.what # "whole"
    BY FolderKinds
  <2>8. tmp' = [tmp EXCEPT ![i] = Absent] /\ tmp'[i] = Absent
    BY <1>4, <2>4, TmpUntouched
  <2>9. Claim(i)'
    <3>1. Src(i)' = Src(i) /\ dir'[Src(i)] = dir[Src(i)]
      BY <1>2, <1>3, <2>2, <2>4 DEF Src
    <3>2. QED
      BY <1>2, <2>2, <2>8, <3>1
         DEF Claim, TmpInUse, SourceStays, Unplaced, InitInPlace, Occupied
  <2>10. Types' /\ FolderInv' /\ PieceInv'
    BY <1>2, <2>3, <2>4, <2>5, <2>6, <2>8, <2>9, OneFolder
  <2>11. MarksShrink
    BY <2>2, AskedShrinks DEF Control
  <2>12. HomeStep
    BY <1>2, <1>6, <2>4, <2>7, <2>11, DiscardStep
  <2>13. QED
    BY <2>3, <2>10, <2>12
<1>9. CASE RemoveSome(Dst(i)) /\ Stop(i) /\ UNCHANGED tmp
  <2>1. Step(i) /\ pr'[i].pc = "idle"
    BY <1>5, <1>9
  <2>2. PICK x \in Folders : /\ x.what = "half" /\ Lawful(x, i)
                             /\ dir' = [dir EXCEPT ![Dst(i)] = x] /\ pieces \subseteq pieces'
    BY <1>1, <1>2, <1>9, RemoveSomeFacts
  <2>3. Growing
    BY <1>1, <2>2, NoNewVault
  <2>4. Lawful(Absent, i)
    BY <2>3, OldIsLawful
  <2>5. tmp' = [tmp EXCEPT ![i] = Absent] /\ tmp'[i] = Absent
    BY <1>4, <1>9, TmpUntouched
  <2>6. Claim(i)'
    BY <2>1, <2>5, NoClaim DEF FilePcs, MovePcs
  <2>7. Types' /\ FolderInv' /\ PieceInv'
    BY <1>2, <2>1, <2>2, <2>3, <2>4, <2>5, <2>6, OneFolder
  <2>8. MarksShrink
    BY <2>1, AskedShrinks DEF Step, Control
  <2>9. HomeStep
    BY <1>2, <1>6, <1>9, <2>2, <2>8, DiscardStep
  <2>10. QED
    BY <2>1, <2>7, <2>9
<1>10. QED
  BY <1>7, <1>8, <1>9 DEF clearDestination

\* The folder is moved; the stores follow.
LEMMA MovedStep ==
    ASSUME Types, NEW i \in Procs, pr[i].op = "move", dir'[Dst(i)] \in Folders, Moved(i)
    PROVE  Control(i) /\ pr'[i].pc = "job"
<1> DEFINE t == pr[i]
           q == Jobs(i)
           k == dir'[Dst(i)].id
           u == [t EXCEPT !.pc = "job", !.jobs = q, !.id = k]
<1>1. t \in Task /\ pr' = [pr EXCEPT ![i] = u]
  BY DEF Types, Moved
<1>2. /\ t \in TaskSet /\ t.src \in Spots /\ t.dst \in Spots /\ t.name \in Names \cup {""}
      /\ t.op = "move"
  BY <1>1, TaskFields
<1>3. k \in 0 .. MaxVaults
  BY FolderFacts
<1>4. q \in Seq(JobSet) /\ q # <<>>
  <2> DEFINE a == Add(pr[i].name, pr[i].dst)
             b == UpdatePathsMatching(pr[i].src, pr[i].dst)
             c == UpdateVaultPathMatching(pr[i].src, pr[i].dst)
  <2>1. a \in JobSet /\ b \in JobSet /\ c \in JobSet
    BY <1>2, StoreJobs
  <2>2. \A x, y, z \in JobSet : /\ <<x>> \o <<y, z>> \in Seq(JobSet) /\ <<x>> \o <<y, z>> # <<>>
                                /\ <<>> \o <<y, z>> \in Seq(JobSet) /\ <<>> \o <<y, z>> # <<>>
    OBVIOUS
  <2>3. q = <<a>> \o <<b, c>> \/ q = <<>> \o <<b, c>>
    BY DEF Jobs
  <2> HIDE DEF q, a, b, c
  <2>4. QED
    BY <2>1, <2>2, <2>3
<1>5. "job" \in Pcs
  BY DEF Pcs, JobPcs
<1> HIDE DEF t, q, k
<1>6. u \in TaskSet /\ u.pc = "job" /\ u.op = t.op /\ u.jobs = q
  BY <1>2, <1>3, <1>4, <1>5 DEF TaskSet
<1> HIDE DEF u
<1>7. Formed(u)
  BY <1>2, <1>4, <1>6 DEF Formed, JobPcs, MovePcs, InitPcs, DstPcs, Creating
<1>8. u \in Task
  BY <1>6, <1>7 DEF Task
<1>9. QED
  BY <1>1, <1>6, <1>8, OneTask DEF Control, t

LEMMA MoveDirKeeps ==
    ASSUME Types, Exclusive, FolderInv, PieceInv, SecretInv, NEW i \in Procs, moveDir(i)
    PROVE  Step(i) /\ Types' /\ FolderInv' /\ PieceInv' /\ HomeStep
<1>1. /\ pr[i].pc = "rename" /\ UNCHANGED <<stores, secrets>> /\ UNCHANGED <<tmp, pieces, made>>
  BY DEF moveDir, At, counts
<1>2. /\ pr[i].op = "move" /\ Src(i) \in Dirs /\ Dst(i) \in Dirs /\ Src(i) # Dst(i)
      /\ dir[Src(i)] \in Folders /\ dir[Dst(i)] \in Folders /\ Occupied(Src(i))
      /\ OnlyCommands(i)
  BY <1>1, MoveFacts DEF MovePcs
<1>3. dir \in [Dirs -> Folders] /\ tmp \in [Procs -> Folders]
  BY DEF Types
<1>4. tmp[i] = Absent
  BY <1>1 DEF FolderInv, Claim, TmpInUse
<1>5. Growing
  BY <1>1, NoNewVault
<1>6. Lawful(Absent, i) /\ \A d \in Dirs : Lawful(dir[d], i)
  BY <1>5, OldIsLawful
<1>7. tmp' = [tmp EXCEPT ![i] = Absent] /\ tmp'[i] = Absent
  BY <1>1, <1>4, TmpUntouched
<1>8. CASE Goto(i, "copy") /\ UNCHANGED dir
  <2>1. MayFollow(pr[i], "copy") /\ "copy" \in Pcs
    BY <1>1 DEF MayFollow, MovePcs, Pcs, DstPcs
  <2>2. Control(i) /\ pr'[i].pc = "copy" /\ pr'[i].src = pr[i].src
    BY <1>8, <2>1, GotoStep
  <2>3. Step(i)
    BY <1>1, <2>2, PlainStep
  <2>4. Claim(i)'
    BY <1>2, <1>7, <1>8, <2>2
       DEF Claim, TmpInUse, SourceStays, Unplaced, InitInPlace, Occupied, Src
  <2>5. QED
    BY <1>5, <1>6, <1>7, <1>8, <2>2, <2>3, <2>4, OnlyTmp
<1>9. CASE /\ ~Occupied(Dst(i)) /\ Moved(i)
           /\ dir' = [dir EXCEPT ![Dst(i)] = dir[Src(i)], ![Src(i)] = Absent]
  <2>1. Absent \in Folders
    BY FolderKinds
  <2>2. /\ dir' \in [Dirs -> Folders]
        /\ \A d \in Dirs : dir'[d] = IF d = Src(i) THEN Absent
                                     ELSE IF d = Dst(i) THEN dir[Src(i)] ELSE dir[d]
    BY <1>2, <1>3, <1>9, <2>1
  <2>3. Control(i) /\ pr'[i].pc = "job"
    BY <1>2, <1>9, <2>2, MovedStep
  <2>4. Step(i)
    BY <1>1, <2>3, PlainStep
  <2>5. \A d \in Dirs : Lawful(dir'[d], i)
    BY <1>2, <1>6, <2>2
  <2>6. Claim(i)'
    BY <1>7, <2>3, NoClaim DEF FilePcs, MovePcs
  <2>7. Types' /\ FolderInv' /\ PieceInv'
    <3>1. tmp' \in [Procs -> Folders] /\ \A j \in Procs \ {i} : tmp'[j] = tmp[j]
      BY <1>1, <1>3
    <3>2. QED
      BY <1>2, <1>5, <1>6, <1>7, <2>2, <2>4, <2>5, <2>6, <3>1, FolderStep
  <2>8. MarksSame
    BY <1>1, <2>3, AskedSame DEF Control
  <2>9. dir[Dst(i)].what # "whole"
    BY <1>9 DEF Occupied
  <2>10. CASE dir[Src(i)].what = "whole"
    <3>1. PICK v \in Ids : dir[Src(i)] = Whole(v)
      BY <1>2, <2>10, FolderFacts
    <3>2. /\ Places' = [Places EXCEPT ![v] = (@ \ {Src(i)}) \cup {Dst(i)}]
          /\ Src(i) \in Places[v] /\ Home!Free(Dst(i))
      BY <1>2, <1>3, <1>9, <2>9, <3>1, PlaceMoved
    <3>3. Home!Relocate(v, Src(i), Dst(i))
      BY <2>8, <3>2 DEF Home!Relocate, MarksSame
    <3>4. HomeStep
      BY <1>2, <3>3 DEF HomeStep, Home!HomeNext
    <3>5. QED
      BY <2>4, <2>7, <3>4
  <2>11. CASE dir[Src(i)].what # "whole"
    <3>1. \A d \in Dirs : \/ dir'[d] = dir[d]
                          \/ dir[d].what # "whole" /\ dir'[d].what # "whole"
      BY <1>2, <2>2, <2>9, <2>11, FolderKinds
    <3>2. Places' = Places
      BY <1>3, <2>2, <3>1, PlacesSame
    <3>3. MarksShrink
      BY <2>8 DEF MarksSame, MarksShrink
    <3>4. QED
      BY <2>4, <2>7, <3>2, <3>3, MarksStep
  <2>12. QED
    BY <2>10, <2>11
<1>10. QED
  BY <1>8, <1>9 DEF moveDir

LEMMA CopyDirKeeps ==
    ASSUME Types, Exclusive, FolderInv, PieceInv, SecretInv, NEW i \in Procs, copyDir(i)
    PROVE  Step(i) /\ Types' /\ FolderInv' /\ PieceInv' /\ HomeStep
<1>1. /\ pr[i].pc = "copy" /\ UNCHANGED <<stores, secrets>> /\ UNCHANGED <<dir, pieces, made>>
  BY DEF copyDir, At, counts
<1>2. Src(i) \in Dirs /\ Occupied(Src(i))
  BY <1>1, MoveFacts DEF MovePcs
<1>3. Growing
  BY <1>1, NoNewVault
<1>4. CASE Stop(i) /\ UNCHANGED tmp
  <2>1. Control(i) /\ pr'[i].pc = "idle"
    BY <1>4, StopStep
  <2>2. Step(i) /\ Quiet(i)
    BY <1>1, <1>4, <2>1, PlainStep, QuietAway DEF FilePcs, MovePcs
  <2>3. QED
    BY <2>2, QuietKeeps
<1>5. CASE tmp' = [tmp EXCEPT ![i] = dir[Src(i)]] /\ Goto(i, "publish")
  <2>1. MayFollow(pr[i], "publish") /\ "publish" \in Pcs
    BY <1>1 DEF MayFollow, MovePcs, Pcs, DstPcs
  <2>2. Control(i) /\ pr'[i].pc = "publish" /\ pr'[i].src = pr[i].src
    BY <1>5, <2>1, GotoStep
  <2>3. Step(i)
    BY <1>1, <2>2, PlainStep
  <2>4. Lawful(dir[Src(i)], i)
    BY <1>2, <1>3, OldIsLawful
  <2>5. tmp'[i] = dir[Src(i)]
    BY <1>5 DEF Types
  <2>6. Claim(i)'
    BY <1>1, <1>2, <2>2, <2>5
       DEF Claim, TmpInUse, SourceStays, Unplaced, InitInPlace, Occupied, Src
  <2>7. QED
    BY <1>1, <1>3, <1>5, <2>2, <2>3, <2>4, <2>6, OnlyTmp
<1>6. QED
  BY <1>4, <1>5 DEF copyDir

LEMMA PublishKeeps ==
    ASSUME Types, Exclusive, FolderInv, PieceInv, SecretInv, NEW i \in Procs, publishCopy(i)
    PROVE  Step(i) /\ Types' /\ FolderInv' /\ PieceInv' /\ HomeStep
<1>1. /\ pr[i].pc = "publish" /\ UNCHANGED <<stores, secrets>> /\ UNCHANGED <<pieces, made>>
      /\ tmp' = [tmp EXCEPT ![i] = Absent]
  BY DEF publishCopy, At, counts
<1>2. /\ pr[i].op = "move" /\ Src(i) \in Dirs /\ Dst(i) \in Dirs /\ Src(i) # Dst(i)
      /\ dir[Src(i)] \in Folders /\ dir[Dst(i)] \in Folders /\ Occupied(Src(i))
      /\ OnlyCommands(i)
  BY <1>1, MoveFacts DEF MovePcs
<1>3. dir \in [Dirs -> Folders] /\ tmp'[i] = Absent
  BY <1>1 DEF Types
<1>4. tmp[i] = dir[Src(i)]
  BY <1>1 DEF FolderInv, Claim, TmpInUse
<1>5. Growing
  BY <1>1, NoNewVault
<1>6. Lawful(Absent, i) /\ Lawful(dir[Src(i)], i)
  BY <1>2, <1>5, OldIsLawful
<1>7. CASE Stop(i) /\ UNCHANGED dir
  <2>1. Control(i) /\ pr'[i].pc = "idle"
    BY <1>7, StopStep
  <2>2. Step(i)
    BY <1>1, <2>1, PlainStep
  <2>3. Claim(i)'
    BY <1>3, <2>1, NoClaim DEF FilePcs, MovePcs
  <2>4. QED
    BY <1>1, <1>5, <1>6, <1>7, <2>1, <2>2, <2>3, OnlyTmp
<1>8. CASE ~Occupied(Dst(i)) /\ dir' = [dir EXCEPT ![Dst(i)] = tmp[i]] /\ Goto(i, "rmsrc")
  <2>1. MayFollow(pr[i], "rmsrc") /\ "rmsrc" \in Pcs
    BY <1>1 DEF MayFollow, MovePcs, Pcs, DstPcs
  <2>2. Control(i) /\ pr'[i].pc = "rmsrc" /\ pr'[i].src = pr[i].src /\ pr'[i].dst = pr[i].dst
    BY <1>8, <2>1, GotoStep
  <2>3. Step(i)
    BY <1>1, <2>2, PlainStep
  <2>4. dir' = [dir EXCEPT ![Dst(i)] = dir[Src(i)]]
    BY <1>4, <1>8
  <2>5. Claim(i)'
    <3>1. /\ Src(i)' = Src(i) /\ Dst(i)' = Dst(i)
          /\ dir'[Src(i)] = dir[Src(i)] /\ dir'[Dst(i)] = dir[Src(i)]
      BY <1>2, <1>3, <2>2, <2>4 DEF Src, Dst
    <3>2. QED
      BY <1>2, <1>3, <2>2, <3>1
         DEF Claim, TmpInUse, SourceStays, Unplaced, InitInPlace, Occupied
  <2>6. Types' /\ FolderInv' /\ PieceInv'
    BY <1>1, <1>2, <1>5, <1>6, <1>8, <2>3, <2>4, <2>5, OneFolder
  <2>7. MarksSame
    BY <1>1, <2>2, AskedSame DEF Control
  <2>8. dir[Dst(i)].what # "whole"
    BY <1>8 DEF Occupied
  <2>9. CASE dir[Src(i)].what = "whole"
    <3>1. PICK v \in Ids : dir[Src(i)] = Whole(v)
      BY <1>2, <2>9, FolderFacts
    <3>2. Places' = [Places EXCEPT ![v] = @ \cup {Dst(i)}] /\ Home!Free(Dst(i))
      BY <1>2, <1>3, <2>4, <2>8, <3>1, PlaceGained
    <3>3. Src(i) \in Places[v]
      BY <1>2, <3>1 DEF Places
    <3>4. Home!Copy(v, Dst(i))
      BY <2>7, <3>2, <3>3 DEF Home!Copy, MarksSame
    <3>5. HomeStep
      BY <1>2, <3>4 DEF HomeStep, Home!HomeNext
    <3>6. QED
      BY <2>3, <2>6, <3>5
  <2>10. CASE dir[Src(i)].what # "whole"
    <3>1. HomeStep
      <4>1. MarksShrink
        BY <2>7 DEF MarksSame, MarksShrink
      <4>2. QED
        BY <1>2, <2>4, <2>8, <2>10, <4>1, DiscardStep
    <3>2. QED
      BY <2>3, <2>6, <3>1
  <2>11. QED
    BY <2>9, <2>10
<1>9. QED
  BY <1>7, <1>8 DEF publishCopy

LEMMA RemoveSourceKeeps ==
    ASSUME Types, Exclusive, FolderInv, PieceInv, SecretInv, NEW i \in Procs, removeSource(i)
    PROVE  Step(i) /\ Types' /\ FolderInv' /\ PieceInv' /\ HomeStep
<1>1. /\ pr[i].pc = "rmsrc" /\ UNCHANGED <<stores, secrets>> /\ UNCHANGED <<tmp, made>>
  BY DEF removeSource, At, counts
<1>2. /\ pr[i].op = "move" /\ Src(i) \in Dirs /\ Dst(i) \in Dirs /\ Src(i) # Dst(i)
      /\ dir[Dst(i)] \in Folders /\ OnlyCommands(i)
  BY <1>1, MoveFacts DEF MovePcs
<1>3. dir \in [Dirs -> Folders]
  BY DEF Types
<1>4. tmp[i] = Absent /\ (dir[Src(i)].what = "whole" => dir[Dst(i)] = dir[Src(i)])
  BY <1>1 DEF FolderInv, Claim, TmpInUse, SourceStays
<1>5. tmp' = [tmp EXCEPT ![i] = Absent] /\ tmp'[i] = Absent
  BY <1>1, <1>4, TmpUntouched
<1>6. CASE RemoveAll(Src(i)) /\ Moved(i)
  <2>1. dir' = [dir EXCEPT ![Src(i)] = Absent] /\ UNCHANGED pieces
    BY <1>6 DEF RemoveAll
  <2>2. dir'[Dst(i)] \in Folders
    BY <1>2, <1>3, <2>1
  <2>3. Control(i) /\ pr'[i].pc = "job"
    BY <1>2, <1>6, <2>2, MovedStep
  <2>4. Step(i)
    BY <1>1, <2>3, PlainStep
  <2>5. Growing
    BY <1>1, <2>1, NoNewVault
  <2>6. Lawful(Absent, i)
    BY <2>5, OldIsLawful
  <2>7. Claim(i)'
    BY <1>5, <2>3, NoClaim DEF FilePcs, MovePcs
  <2>8. Types' /\ FolderInv' /\ PieceInv'
    BY <1>2, <1>5, <2>1, <2>4, <2>5, <2>6, <2>7, OneFolder
  <2>9. MarksShrink
    BY <2>3, AskedShrinks DEF Control
  <2>10. Absent \in Folders /\ Absent.what # "whole"
    BY FolderKinds
  <2>11. HomeStep
    BY <1>2, <1>4, <2>1, <2>9, <2>10, GiveUpStep
  <2>12. QED
    BY <2>4, <2>8, <2>11
<1>7. CASE RemoveSome(Src(i)) /\ UNCHANGED pr
  <2>1. Control(i) /\ pr'[i].pc = "rmsrc"
    BY <1>1, <1>7 DEF Control, Others, Types
  <2>2. Step(i)
    BY <1>1, <2>1, PlainStep
  <2>3. PICK x \in Folders : /\ x.what = "half" /\ Lawful(x, i)
                             /\ dir' = [dir EXCEPT ![Src(i)] = x] /\ pieces \subseteq pieces'
    BY <1>1, <1>2, <1>7, RemoveSomeFacts
  <2>4. Growing
    BY <1>1, <2>3, NoNewVault
  <2>5. Lawful(Absent, i)
    BY <2>4, OldIsLawful
  <2>6. Claim(i)'
    <3>1. Src(i)' = Src(i) /\ dir'[Src(i)].what = "half"
      BY <1>2, <1>3, <1>7, <2>3 DEF Src
    <3>2. QED
      BY <1>5, <2>1, <3>1
         DEF Claim, TmpInUse, SourceStays, Unplaced, InitInPlace, Occupied
  <2>7. Types' /\ FolderInv' /\ PieceInv'
    BY <1>2, <1>5, <2>2, <2>3, <2>4, <2>5, <2>6, OneFolder
  <2>8. MarksShrink
    BY <2>1, AskedShrinks DEF Control
  <2>9. HomeStep
    BY <1>2, <1>4, <2>3, <2>8, GiveUpStep
  <2>10. QED
    BY <2>2, <2>7, <2>9
<1>8. CASE Stop(i) /\ UNCHANGED <<dir, pieces>>
  <2>1. Control(i) /\ pr'[i].pc = "idle"
    BY <1>8, StopStep
  <2>2. Step(i) /\ Quiet(i)
    BY <1>1, <1>8, <2>1, PlainStep, QuietAway DEF FilePcs, MovePcs
  <2>3. QED
    BY <2>2, QuietKeeps
<1>9. QED
  BY <1>6, <1>7, <1>8 DEF removeSource

LEMMA DstFacts ==
    ASSUME Types, NEW i \in Procs, pr[i].pc \in DstPcs
    PROVE  Dst(i) \in Dirs /\ dir[Dst(i)] \in Folders
<1>1. Formed(pr[i])
  BY TaskFields DEF Types
<1>2. pr[i].dst \in Spellings
  BY <1>1 DEF Formed
<1>3. QED
  BY <1>2, RealFolder DEF Dst, Types

LEMMA ConfirmKeeps ==
    ASSUME Types, Exclusive, FolderInv, PieceInv, SecretInv, NEW i \in Procs, confirmLeftovers(i)
    PROVE  Step(i) /\ Types' /\ FolderInv' /\ PieceInv' /\ HomeStep
<1>1. /\ pr[i].pc = "confirm" /\ UNCHANGED <<stores, secrets>> /\ UNCHANGED <<tmp, made>>
  BY DEF confirmLeftovers, At, counts
<1>2. Dst(i) \in Dirs /\ dir[Dst(i)] \in Folders
  BY <1>1, DstFacts DEF DstPcs
<1>3. pr[i].op = "wizard"
  <2>1. Formed(pr[i])
    BY TaskFields DEF Types
  <2>2. QED
    BY <1>1, <2>1 DEF Formed
<1>4. tmp[i] = Absent
  BY <1>1 DEF FolderInv, Claim, TmpInUse
<1>5. CASE UNCHANGED <<dir, pieces>> /\ (Stop(i) \/ stepVaultLocation(i))
  <2>1. Control(i) /\ pr'[i].pc \in {"idle", "probe"}
    BY <1>1, <1>5, StopStep, LocationChosen
  <2>2. Step(i) /\ Quiet(i)
    BY <1>1, <1>5, <2>1, PlainStep, QuietAway DEF FilePcs, MovePcs
  <2>3. QED
    BY <2>2, QuietKeeps
<1>6. CASE RemoveAll(Dst(i)) /\ Goto(i, "probe")
  <2>1. MayFollow(pr[i], "probe") /\ "probe" \in Pcs
    BY <1>1 DEF MayFollow, Pcs, DstPcs
  <2>2. Control(i) /\ pr'[i].pc = "probe"
    BY <1>6, <2>1, GotoStep
  <2>3. Step(i)
    BY <1>1, <2>2, PlainStep
  <2>4. dir' = [dir EXCEPT ![Dst(i)] = Absent] /\ UNCHANGED pieces
    BY <1>6 DEF RemoveAll
  <2>5. Growing
    BY <1>1, <2>4, NoNewVault
  <2>6. Lawful(Absent, i)
    BY <2>5, OldIsLawful
  <2>7. tmp' = [tmp EXCEPT ![i] = Absent] /\ tmp'[i] = Absent
    BY <1>1, <1>4, TmpUntouched
  <2>8. Claim(i)'
    BY <2>2, <2>7, NoClaim DEF FilePcs, MovePcs
  <2>9. Types' /\ FolderInv' /\ PieceInv'
    <3>1. OnlyCommands(i)
      BY <1>3 DEF OnlyCommands
    <3>2. QED
      BY <1>2, <1>3, <2>3, <2>4, <2>5, <2>6, <2>7, <2>8, <3>1, OneFolder
  <2>10. MarksShrink /\ Dst(i) \in Asked
    <3>1. MarksShrink
      BY <2>2, AskedShrinks DEF Control
    <3>2. Dst(i) \in Asked
      BY <1>1, <1>2 DEF Asked, At
    <3>3. QED
      BY <3>1, <3>2
  <2>11. Absent \in Folders /\ Absent.what # "whole"
    BY FolderKinds
  <2>12. HomeStep
    BY <1>2, <2>4, <2>10, <2>11, DiscardStep
  <2>13. QED
    BY <2>3, <2>9, <2>12
<1>7. QED
  BY <1>5, <1>6 DEF confirmLeftovers

\* A new vault is given its id.
TakesId(i, x) == pr' = [pr EXCEPT ![i].pc = x, ![i].id = made + 1]

LEMMA NewIdStep ==
    ASSUME Types, NEW i \in Procs, made < MaxVaults,
           NEW x \in {"clear", "config"},
           pr[i].pc = IF x = "clear" THEN "mktemp" ELSE "dirs",
           TakesId(i, x)
    PROVE  /\ Control(i) /\ pr'[i].pc = x /\ pr'[i].id = made + 1 /\ pr'[i].dst = pr[i].dst
           /\ made + 1 \in Ids /\ made + 1 > made
<1> DEFINE t == pr[i]
           k == made + 1
           u == [t EXCEPT !.pc = x, !.id = k]
<1>1. t \in Task /\ pr' = [pr EXCEPT ![i] = u]
  BY DEF Types, TakesId
<1>2. t \in TaskSet /\ Formed(t)
  BY <1>1, TaskFields
<1>3. k \in 0 .. MaxVaults /\ k \in Ids /\ k > made
  BY MadeNumber DEF Ids
<1>4. x \in Pcs /\ t.pc = (IF x = "clear" THEN "mktemp" ELSE "dirs")
  <2>1. x \in Pcs
    BY DEF Pcs, DstPcs, InitPcs
  <2>2. QED
    BY <2>1
<1> HIDE DEF t, k
<1>5. u \in TaskSet /\ u.pc = x /\ u.op = t.op /\ u.dst = t.dst /\ u.id = k
  BY <1>2, <1>3, <1>4 DEF TaskSet
<1> HIDE DEF u
<1>6. Formed(u)
  BY <1>2, <1>4, <1>5 DEF Formed, JobPcs, MovePcs, InitPcs, DstPcs
<1>7. u \in Task
  BY <1>5, <1>6 DEF Task
<1>8. pr' \in [Procs -> Task] /\ pr'[i] = u /\ Others(i)
  BY <1>1, <1>7, OneTask
<1>9. QED
  BY <1>3, <1>5, <1>8 DEF Control, t, k

LEMMA CreateKeeps ==
    ASSUME Types, Exclusive, FolderInv, PieceInv, SecretInv, NEW i \in Procs, CreateVault(i)
    PROVE  Step(i) /\ Types' /\ FolderInv' /\ PieceInv' /\ HomeStep
<1>1. /\ pr[i].pc = "mktemp" /\ made < MaxVaults
      /\ UNCHANGED <<stores, secrets>> /\ UNCHANGED <<dir, pieces>>
  BY DEF CreateVault, At
<1>2. CASE Stop(i) /\ UNCHANGED <<tmp, made>>
  <2>1. Control(i) /\ pr'[i].pc = "idle"
    BY <1>2, StopStep
  <2>2. Step(i) /\ Quiet(i)
    BY <1>1, <1>2, <2>1, PlainStep, QuietAway DEF FilePcs, MovePcs
  <2>3. QED
    BY <2>2, QuietKeeps
<1>3. CASE /\ made' = made + 1 /\ tmp' = [tmp EXCEPT ![i] = Whole(made + 1)]
           /\ pr' = [pr EXCEPT ![i].pc = "clear", ![i].id = made + 1]
  <2> DEFINE k == made + 1
  <2>1. /\ Control(i) /\ pr'[i].pc = "clear" /\ pr'[i].id = k /\ k \in Ids /\ k > made
        /\ made' = k /\ tmp' = [tmp EXCEPT ![i] = Whole(k)]
    <3>1. TakesId(i, "clear")
      BY <1>3 DEF TakesId
    <3>2. Control(i) /\ pr'[i].pc = "clear" /\ pr'[i].id = k /\ k \in Ids /\ k > made
      BY <1>1, <3>1, NewIdStep
    <3>3. QED
      BY <1>3, <3>2
  <2>2. made \in Nat /\ k \in Nat /\ k <= k /\ k >= made
    BY MadeNumber
  <2> HIDE DEF k
  <2>3. Step(i)
    BY <1>1, <2>1, PlainStep
  <2>4. Growing
    BY <1>1, <2>1, <2>2 DEF Growing, Ids
  <2>5. Whole(k) \in Folders /\ Whole(k).id = k /\ Whole(k).what = "whole"
    BY <2>1, FolderKinds
  <2>6. Lawful(Whole(k), i)
    BY <2>1, <2>2, <2>5 DEF Lawful, Brought
  <2>7. tmp'[i] = Whole(k) /\ \A j \in Procs \ {i} : tmp'[j] = tmp[j]
    BY <2>1 DEF Types
  <2>8. \A m : m <= made => m # k
    BY <2>1, <2>2
  <2>9. (\A d \in Dirs : dir'[d].id # k) /\ \A j \in Procs \ {i} : tmp'[j].id # k
    BY <1>1, <2>7, <2>8 DEF FolderInv, IdsMade
  <2>10. Claim(i)'
    <3>1. Unplaced(i)'
      BY <2>1, <2>2, <2>7, <2>9 DEF Unplaced
    <3>2. QED
      BY <2>1, <3>1 DEF Claim, TmpInUse, SourceStays, InitInPlace, MovePcs
  <2>11. QED
    BY <1>1, <2>1, <2>3, <2>4, <2>6, <2>10, OnlyTmp
<1>4. QED
  BY <1>2, <1>3 DEF CreateVault

\* What setup may rely on until its vault is placed.
LEMMA UnplacedFacts ==
    ASSUME Types, FolderInv, NEW i \in Procs, pr[i].pc \in {"clear", "place"}
    PROVE  /\ Dst(i) \in Dirs /\ dir[Dst(i)] \in Folders /\ OnlyCommands(i)
           /\ pr[i].id \in Ids /\ tmp[i] = Whole(pr[i].id) /\ pr[i].id <= made
           /\ \A d \in Dirs : dir[d].id # pr[i].id
           /\ \A j \in Procs \ {i} : tmp[j].id # pr[i].id
<1>1. Formed(pr[i])
  BY TaskFields DEF Types
<1>2. pr[i].op # ""
  BY <1>1 DEF Formed
<1>3. Dst(i) \in Dirs /\ dir[Dst(i)] \in Folders
  BY DstFacts DEF DstPcs
<1>4. QED
  BY <1>2, <1>3 DEF FolderInv, Claim, Unplaced, OnlyCommands

\* The step ends, and with it the temporary folder.
LEMMA EndsWithoutTmp ==
    ASSUME Types, Exclusive, FolderInv, PieceInv, SecretInv, NEW i \in Procs, Stop(i),
           tmp' = [tmp EXCEPT ![i] = Absent], UNCHANGED <<dir, pieces, made>>,
           UNCHANGED <<stores, secrets>>
    PROVE  Step(i) /\ Types' /\ FolderInv' /\ PieceInv' /\ HomeStep
<1>1. Control(i) /\ pr'[i].pc = "idle"
  BY StopStep
<1>2. Step(i)
  BY <1>1, PlainStep
<1>3. Growing
  BY NoNewVault
<1>4. Lawful(Absent, i)
  BY <1>3, OldIsLawful
<1>5. tmp'[i] = Absent
  BY DEF Types
<1>6. Claim(i)'
  BY <1>1, <1>5, NoClaim DEF FilePcs, MovePcs
<1>7. QED
  BY <1>1, <1>2, <1>3, <1>4, <1>6, OnlyTmp

LEMMA ClearTargetKeeps ==
    ASSUME Types, Exclusive, FolderInv, PieceInv, SecretInv, NEW i \in Procs, clearTarget(i)
    PROVE  Step(i) /\ Types' /\ FolderInv' /\ PieceInv' /\ HomeStep
<1>1. /\ pr[i].pc = "clear" /\ UNCHANGED <<stores, secrets>> /\ UNCHANGED <<pieces, made>>
  BY DEF clearTarget, At, counts
<1>2. CASE Stop(i) /\ tmp' = [tmp EXCEPT ![i] = Absent] /\ UNCHANGED dir
  BY <1>1, <1>2, EndsWithoutTmp
<1>3. CASE /\ ~Occupied(Dst(i)) /\ Goto(i, "place")
           /\ dir' = [dir EXCEPT ![Dst(i)] = Absent] /\ UNCHANGED tmp
  <2>1. MayFollow(pr[i], "place") /\ "place" \in Pcs
    BY <1>1 DEF MayFollow, Pcs, DstPcs
  <2>2. Control(i) /\ pr'[i].pc = "place" /\ pr'[i].id = pr[i].id
    BY <1>3, <2>1, GotoStep
  <2>3. Step(i)
    BY <1>1, <2>2, PlainStep
  <2>4. /\ Dst(i) \in Dirs /\ dir[Dst(i)] \in Folders /\ OnlyCommands(i)
        /\ pr[i].id \in Ids /\ tmp[i] = Whole(pr[i].id) /\ pr[i].id <= made
        /\ \A d \in Dirs : dir[d].id # pr[i].id
        /\ \A j \in Procs \ {i} : tmp[j].id # pr[i].id
    BY <1>1, UnplacedFacts
  <2>5. Growing
    BY <1>1, NoNewVault
  <2>6. Lawful(Absent, i) /\ Lawful(tmp[i], i)
    BY <2>5, OldIsLawful
  <2>7. Absent \in Folders /\ Absent.what # "whole" /\ Absent.id # pr[i].id
    BY <2>4, FolderKinds, IdNumbers
  <2>8. tmp' = [tmp EXCEPT ![i] = tmp[i]]
    BY <1>3 DEF Types
  <2>9. \A d \in Dirs : dir'[d].id # pr[i].id
    BY <1>3, <2>4, <2>7 DEF Types
  <2>10. Claim(i)'
    <3>1. Unplaced(i)'
      BY <1>1, <1>3, <2>2, <2>4, <2>9 DEF Unplaced
    <3>2. QED
      BY <2>2, <3>1 DEF Claim, TmpInUse, SourceStays, InitInPlace, MovePcs
  <2>11. Types' /\ FolderInv' /\ PieceInv'
    BY <1>3, <2>3, <2>4, <2>5, <2>6, <2>8, <2>10, OneFolder
  <2>12. MarksShrink
    BY <2>2, AskedShrinks DEF Control
  <2>13. dir[Dst(i)].what # "whole"
    BY <1>3 DEF Occupied
  <2>14. HomeStep
    BY <1>3, <2>4, <2>7, <2>12, <2>13, DiscardStep
  <2>15. QED
    BY <2>3, <2>11, <2>14
<1>4. QED
  BY <1>2, <1>3 DEF clearTarget

\* A vault that is complete nowhere appears, complete at once.
LEMMA AppearStep ==
    ASSUME Types, NEW d \in Dirs, dir[d].what # "whole", NEW v \in Ids,
           \A e \in Dirs \ {d} : dir[e].id # v, dir' = [dir EXCEPT ![d] = Whole(v)],
           MarksSame
    PROVE  HomeStep
<1>1. dir \in [Dirs -> Folders]
  BY DEF Types
<1>2. Places' = [Places EXCEPT ![v] = @ \cup {d}] /\ Home!Free(d)
  BY <1>1, PlaceGained
<1>3. \A e \in Dirs : dir[e] # Whole(v)
  BY FolderKinds
<1>4. Places[v] = {}
  BY <1>3 DEF Places
<1>5. Places' = [Places EXCEPT ![v] = {d}]
  BY <1>2, <1>4
<1>6. Home!Appear(v, d)
  BY <1>2, <1>4, <1>5 DEF Home!Appear, MarksSame
<1>7. QED
  BY <1>6 DEF HomeStep, Home!HomeNext

LEMMA PlaceKeeps ==
    ASSUME Types, Exclusive, FolderInv, PieceInv, SecretInv, NEW i \in Procs, place(i)
    PROVE  Step(i) /\ Types' /\ FolderInv' /\ PieceInv' /\ HomeStep
<1>1. /\ pr[i].pc = "place" /\ UNCHANGED <<stores, secrets>> /\ UNCHANGED <<pieces, made>>
      /\ tmp' = [tmp EXCEPT ![i] = Absent]
  BY DEF place, At, counts
<1>2. CASE Stop(i) /\ UNCHANGED dir
  BY <1>1, <1>2, EndsWithoutTmp
<1>3. CASE ~Occupied(Dst(i)) /\ dir' = [dir EXCEPT ![Dst(i)] = tmp[i]] /\ Goto(i, "relookup")
  <2>1. MayFollow(pr[i], "relookup") /\ "relookup" \in Pcs
    BY DEF MayFollow, FreePcs, Pcs
  <2>2. Control(i) /\ pr'[i].pc = "relookup"
    BY <1>3, <2>1, GotoStep
  <2>3. Step(i)
    BY <1>1, <2>2, PlainStep
  <2>4. /\ Dst(i) \in Dirs /\ dir[Dst(i)] \in Folders /\ OnlyCommands(i)
        /\ pr[i].id \in Ids /\ tmp[i] = Whole(pr[i].id)
        /\ \A d \in Dirs : dir[d].id # pr[i].id
    BY <1>1, UnplacedFacts
  <2>5. Growing
    BY <1>1, NoNewVault
  <2>6. Lawful(Absent, i) /\ Lawful(tmp[i], i)
    BY <2>5, OldIsLawful
  <2>7. tmp'[i] = Absent
    BY <1>1 DEF Types
  <2>8. Claim(i)'
    BY <2>2, <2>7, NoClaim DEF FilePcs, MovePcs
  <2>9. Types' /\ FolderInv' /\ PieceInv'
    BY <1>1, <1>3, <2>3, <2>4, <2>5, <2>6, <2>8, OneFolder
  <2>10. MarksSame
    BY <1>1, <2>2, AskedSame DEF Control
  <2>11. dir[Dst(i)].what # "whole" /\ dir' = [dir EXCEPT ![Dst(i)] = Whole(pr[i].id)]
    BY <1>3, <2>4 DEF Occupied
  <2>12. HomeStep
    <3> DEFINE v == pr[i].id
               d == Dst(i)
    <3>1. /\ d \in Dirs /\ dir[d].what # "whole" /\ v \in Ids
          /\ \A e \in Dirs \ {d} : dir[e].id # v
          /\ dir' = [dir EXCEPT ![d] = Whole(v)]
      BY <2>4, <2>11
    <3> HIDE DEF v, d
    <3>2. QED
      BY <2>10, <3>1, AppearStep
  <2>13. QED
    BY <2>3, <2>9, <2>12
<1>4. QED
  BY <1>2, <1>3 DEF place

LEMMA InitFacts ==
    ASSUME Types, FolderInv, NEW i \in Procs, pr[i].pc \in InitPcs
    PROVE  /\ pr[i].op = "init" /\ Dst(i) \in Dirs /\ dir[Dst(i)] \in Folders
           /\ OnlyCommands(i) /\ tmp[i] = Absent
<1>1. Formed(pr[i])
  BY TaskFields DEF Types
<1>2. pr[i].op = "init"
  BY <1>1 DEF Formed
<1>3. Dst(i) \in Dirs /\ dir[Dst(i)] \in Folders
  BY DstFacts DEF DstPcs
<1>4. tmp[i] = Absent
  BY DEF FolderInv, Claim, TmpInUse, InitPcs
<1>5. QED
  BY <1>2, <1>3, <1>4 DEF OnlyCommands

\* init has made its directories: the vault is there in part, and recorded so.
LEMMA DirsKeeps ==
    ASSUME Types, Exclusive, FolderInv, PieceInv, SecretInv, NEW i \in Procs,
           CreateWithOptions(i), pr[i].pc = "dirs"
    PROVE  Step(i) /\ Types' /\ FolderInv' /\ PieceInv' /\ HomeStep
<1>1. UNCHANGED <<stores, secrets>> /\ UNCHANGED tmp
  BY DEF CreateWithOptions, At
<1>2. /\ pr[i].op = "init" /\ Dst(i) \in Dirs /\ dir[Dst(i)] \in Folders
      /\ OnlyCommands(i) /\ tmp[i] = Absent
  BY InitFacts DEF InitPcs
<1>3. CASE Stop(i) /\ UNCHANGED <<dir, pieces, made>>
  <2>1. Control(i) /\ pr'[i].pc = "idle"
    BY <1>3, StopStep
  <2>2. Step(i) /\ Quiet(i)
    BY <1>1, <1>3, <2>1, PlainStep, QuietAway DEF FilePcs, MovePcs
  <2>3. QED
    BY <2>2, QuietKeeps
<1>4. CASE /\ ~(vaultDirState(Dst(i)) # "clear" \/ made = MaxVaults)
           /\ made' = made + 1
           /\ dir' = [dir EXCEPT ![Dst(i)] = Half(made + 1, FALSE)]
           /\ pieces' = pieces \cup {made + 1}
           /\ TakesId(i, "config")
  <2> DEFINE k == made + 1
             x == Half(k, FALSE)
  <2>1. made < MaxVaults
    BY <1>4, MadeNumber
  <2>2. ~Occupied(Dst(i))
    BY <1>4 DEF vaultDirState
  <2>3. /\ Control(i) /\ pr'[i].pc = "config" /\ pr'[i].id = k /\ pr'[i].dst = pr[i].dst
        /\ k \in Ids /\ k > made
    BY <1>4, <2>1, NewIdStep
  <2>4. made \in Nat /\ k \in Nat /\ k <= k /\ k >= made
    BY MadeNumber
  <2>5. made' = k /\ dir' = [dir EXCEPT ![Dst(i)] = x] /\ pieces' = pieces \cup {k}
    BY <1>4
  <2>6. x \in Folders /\ x.id = k /\ x.what = "half"
    BY <2>3, FolderKinds
  <2> HIDE DEF k, x
  <2>7. Step(i)
    BY <1>1, <2>3, PlainStep
  <2>8. Growing
    BY <2>3, <2>4, <2>5 DEF Growing, Ids
  <2>9. Lawful(x, i)
    BY <2>3, <2>4, <2>5, <2>6 DEF Lawful, Brought
  <2>10. Lawful(Absent, i)
    BY <2>8, OldIsLawful
  <2>11. tmp' = [tmp EXCEPT ![i] = Absent] /\ tmp'[i] = Absent
    BY <1>1, <1>2, TmpUntouched
  <2>12. Claim(i)'
    <3>1. \A m : m <= made => m # k
      BY <2>3, <2>4
    <3>2. Dst(i)' = Dst(i)
      BY <2>3 DEF Dst
    <3>3. /\ dir'[Dst(i)] = x
          /\ \A d \in Dirs \ {Dst(i)} : dir'[d] = dir[d]
      BY <1>2, <2>5 DEF Types
    <3>4. \A d \in Dirs \ {Dst(i)} : dir'[d].id # k
      BY <3>1, <3>3 DEF FolderInv, IdsMade
    <3>5. InitInPlace(i)'
      BY <2>3, <2>6, <3>2, <3>3, <3>4 DEF InitInPlace
    <3>6. QED
      BY <2>3, <2>11, <3>5 DEF Claim, TmpInUse, SourceStays, Unplaced, MovePcs
  <2>13. Types' /\ FolderInv' /\ PieceInv'
    BY <1>2, <2>5, <2>7, <2>8, <2>9, <2>10, <2>11, <2>12, OneFolder
  <2>14. MarksShrink
    BY <2>3, AskedShrinks DEF Control
  <2>15. dir[Dst(i)].what # "whole"
    BY <2>2 DEF Occupied
  <2>16. HomeStep
    BY <1>2, <2>5, <2>6, <2>14, <2>15, DiscardStep
  <2>17. QED
    BY <2>7, <2>13, <2>16
<1>5. QED
  BY <1>3, <1>4 DEF CreateWithOptions, At, TakesId

\* The folder init is at work on.
LEMMA InitPlaceFacts ==
    ASSUME Types, FolderInv, NEW i \in Procs, pr[i].pc \in {"config", "layout"}
    PROVE  /\ pr[i].id \in Ids
           /\ dir[Dst(i)].what = "half" /\ dir[Dst(i)].id = pr[i].id
           /\ \A d \in Dirs \ {Dst(i)} : dir[d].id # pr[i].id
BY DEF FolderInv, Claim, InitInPlace

LEMMA ConfigKeeps ==
    ASSUME Types, Exclusive, FolderInv, PieceInv, SecretInv, NEW i \in Procs,
           CreateWithOptions(i), pr[i].pc = "config"
    PROVE  Step(i) /\ Types' /\ FolderInv' /\ PieceInv' /\ HomeStep
<1>1. /\ UNCHANGED <<stores, secrets>> /\ UNCHANGED <<tmp, pieces, made>>
      /\ Goto(i, "layout") /\ dir' = [dir EXCEPT ![Dst(i)].cfg = TRUE]
  BY DEF CreateWithOptions, At, counts
<1>2. /\ pr[i].op = "init" /\ Dst(i) \in Dirs /\ dir[Dst(i)] \in Folders
      /\ OnlyCommands(i) /\ tmp[i] = Absent
  BY InitFacts DEF InitPcs
<1>3. /\ pr[i].id \in Ids
      /\ dir[Dst(i)].what = "half" /\ dir[Dst(i)].id = pr[i].id
      /\ \A d \in Dirs \ {Dst(i)} : dir[d].id # pr[i].id
  BY InitPlaceFacts
<1> DEFINE x == Half(pr[i].id, TRUE)
<1>4. dir' = [dir EXCEPT ![Dst(i)] = x]
  <2>1. PICK c \in BOOLEAN : dir[Dst(i)] = Half(pr[i].id, c)
    BY <1>2, <1>3, FolderFacts
  <2>2. [dir[Dst(i)] EXCEPT !.cfg = TRUE] = x
    BY <1>3, <2>1, WritingConfig
  <2>3. dir' = [dir EXCEPT ![Dst(i)] = [dir[Dst(i)] EXCEPT !.cfg = TRUE]]
    BY <1>1
  <2>4. QED
    BY <2>2, <2>3
<1>5. x \in Folders /\ x.what = "half" /\ x.id = pr[i].id
  BY <1>3, FolderKinds
<1> HIDE DEF x
<1>6. MayFollow(pr[i], "layout") /\ "layout" \in Pcs
  BY DEF MayFollow, InitPcs, Pcs, DstPcs
<1>7. /\ Control(i) /\ pr'[i].pc = "layout" /\ pr'[i].dst = pr[i].dst /\ pr'[i].id = pr[i].id
  BY <1>1, <1>6, GotoStep
<1>8. Step(i)
  BY <1>1, <1>7, PlainStep
<1>9. Growing
  BY <1>1, NoNewVault
<1>10. Lawful(Absent, i) /\ Lawful(dir[Dst(i)], i)
  BY <1>2, <1>9, OldIsLawful
<1>11. Lawful(x, i)
  BY <1>3, <1>5, <1>10 DEF Lawful
<1>12. tmp' = [tmp EXCEPT ![i] = Absent] /\ tmp'[i] = Absent
  BY <1>1, <1>2, TmpUntouched
<1>13. Claim(i)'
  <2>1. Dst(i)' = Dst(i)
    BY <1>7 DEF Dst
  <2>2. /\ dir'[Dst(i)] = x
        /\ \A d \in Dirs \ {Dst(i)} : dir'[d] = dir[d]
    BY <1>2, <1>4 DEF Types
  <2>3. InitInPlace(i)'
    BY <1>3, <1>5, <1>7, <2>1, <2>2 DEF InitInPlace
  <2>4. QED
    BY <1>7, <1>12, <2>3 DEF Claim, TmpInUse, SourceStays, Unplaced, MovePcs
<1>14. Types' /\ FolderInv' /\ PieceInv'
  BY <1>2, <1>4, <1>8, <1>9, <1>10, <1>11, <1>12, <1>13, OneFolder
<1>15. MarksShrink
  BY <1>7, AskedShrinks DEF Control
<1>16. HomeStep
  BY <1>2, <1>3, <1>4, <1>5, <1>15, DiscardStep
<1>17. QED
  BY <1>8, <1>14, <1>16

LEMMA LayoutKeeps ==
    ASSUME Types, Exclusive, FolderInv, PieceInv, SecretInv, NEW i \in Procs,
           CreateWithOptions(i), pr[i].pc = "layout"
    PROVE  Step(i) /\ Types' /\ FolderInv' /\ PieceInv' /\ HomeStep
<1>1. /\ UNCHANGED <<stores, secrets>> /\ UNCHANGED <<tmp, pieces, made>>
      /\ dir' = [dir EXCEPT ![Dst(i)] = Whole(pr[i].id)]
  BY DEF CreateWithOptions, At, counts
<1>2. /\ pr[i].op = "init" /\ Dst(i) \in Dirs /\ dir[Dst(i)] \in Folders
      /\ OnlyCommands(i) /\ tmp[i] = Absent
  BY InitFacts DEF InitPcs
<1>3. /\ pr[i].id \in Ids
      /\ dir[Dst(i)].what = "half" /\ dir[Dst(i)].id = pr[i].id
      /\ \A d \in Dirs \ {Dst(i)} : dir[d].id # pr[i].id
  BY InitPlaceFacts
<1>4. Control(i) /\ pr'[i].pc \in {"keychain", "job"} /\ (pr'[i].pc = "keychain" => pr'[i].op = "init")
  <2>1. CASE pr[i].name = ""
    <3>1. Goto(i, "keychain")
      BY <2>1 DEF CreateWithOptions, At, Goto
    <3>2. MayFollow(pr[i], "keychain") /\ "keychain" \in Pcs
      BY DEF MayFollow, FreePcs, Pcs
    <3>3. QED
      BY <1>2, <3>1, <3>2, GotoStep
  <2>2. CASE pr[i].name # ""
    <3>1. pr' = [pr EXCEPT ![i].pc = "job", ![i].jobs = <<Add(pr[i].name, pr[i].dst)>>]
      BY <2>2 DEF CreateWithOptions, At
    <3>2. pr[i].name \in Names \cup {""} /\ pr[i].dst \in Spots
      BY TaskFields DEF Types
    <3>3. Add(pr[i].name, pr[i].dst) \in JobSet /\ Add(pr[i].name, pr[i].dst).do = "add"
      BY <3>2, StoreJobs
    <3>4. QED
      BY <3>1, <3>3, OneJobStep
  <2>3. QED
    BY <2>1, <2>2
<1>5. Step(i)
  BY <1>1, <1>4, PlainStep
<1>6. Growing
  BY <1>1, NoNewVault
<1>7. Lawful(Absent, i) /\ Lawful(dir[Dst(i)], i)
  BY <1>2, <1>6, OldIsLawful
<1>8. Lawful(Whole(pr[i].id), i)
  BY <1>3, <1>7, FolderKinds DEF Lawful
<1>9. tmp' = [tmp EXCEPT ![i] = Absent] /\ tmp'[i] = Absent
  BY <1>1, <1>2, TmpUntouched
<1>10. Claim(i)'
  BY <1>4, <1>9, NoClaim DEF FilePcs, MovePcs
<1>11. Types' /\ FolderInv' /\ PieceInv'
  BY <1>1, <1>2, <1>5, <1>6, <1>7, <1>8, <1>9, <1>10, OneFolder
<1>12. MarksSame
  BY <1>4, AskedSame DEF Control
<1>13. HomeStep
  <2> DEFINE v == pr[i].id
             d == Dst(i)
  <2>1. /\ d \in Dirs /\ dir[d].what # "whole" /\ v \in Ids
        /\ \A e \in Dirs \ {d} : dir[e].id # v
        /\ dir' = [dir EXCEPT ![d] = Whole(v)]
    BY <1>1, <1>2, <1>3
  <2> HIDE DEF v, d
  <2>2. QED
    BY <1>12, <2>1, AppearStep
<1>14. QED
  BY <1>5, <1>11, <1>13

LEMMA CrashKeeps ==
    ASSUME Types, Exclusive, FolderInv, PieceInv, SecretInv, NEW i \in Procs, Crash(i)
    PROVE  Step(i) /\ Types' /\ FolderInv' /\ PieceInv' /\ HomeStep
BY EndsWithoutTmp DEF Crash

-----------------------------------------------------------------------------
(* The invariant and the theorems. *)

LEMMA PlacesStart == PlacesInit => PlacesInv
<1> SUFFICES ASSUME PlacesInit PROVE PlacesInv
  OBVIOUS
<1>1. \A i \in Procs : pr[i] = Idle
  BY DEF PlacesInit
<1>2. 1 \in Ids /\ made = 1
  BY PlacesAssumption DEF Ids, PlacesInit
<1>3. {Absent, Empty, Junk, Whole(1)} \subseteq Folders
  BY <1>2 DEF Folders
<1>4. PICK f \in {Absent, Empty, Junk} : dir = [d \in Dirs |-> IF d = "a" THEN Whole(1) ELSE f]
  BY DEF PlacesInit
<1>5. f.what # "half" /\ f.what # "whole" /\ f.id = 0
  BY <1>4 DEF Absent, Empty, Junk
<1>6. dir \in [Dirs -> Folders] /\ tmp \in [Procs -> Folders]
  BY <1>3, <1>4 DEF PlacesInit
<1>7. prof \in Stores /\ rem \in Stores
  BY DEF PlacesInit, Stores, Spots
<1>8. pr \in [Procs -> Task]
  BY IdleTask DEF PlacesInit
<1>9. Types
  BY <1>2, <1>6, <1>7, <1>8, PlacesAssumption DEF Types, Ids
<1>10. Exclusive
  BY <1>1, IdleTask DEF Exclusive
<1>11. \A d \in Dirs : dir[d].what # "half" /\ dir[d].id \in {0, 1}
  BY <1>2, <1>4, <1>5, FolderKinds
<1>12. \A i \in Procs : tmp[i] = Absent
  BY DEF PlacesInit
<1>13. IdsMade
  BY <1>2, <1>11, <1>12, FolderKinds DEF IdsMade
<1>14. \A i \in Procs : Claim(i)
  BY <1>1, <1>12, IdleTask DEF Claim, TmpInUse, SourceStays, Unplaced, InitInPlace, MovePcs
<1>15. PieceInv
  BY <1>11, <1>12, FolderKinds DEF PieceInv, SetupAllOrNothing
<1>16. SecretInv
  BY <1>1, IdleTask DEF SecretInv, NoOrphanSecret, PlacesInit
<1>17. QED
  BY <1>9, <1>10, <1>13, <1>14, <1>15, <1>16 DEF PlacesInv, FolderInv

\* Every step keeps the invariant and is a step of VaultHome.
LEMMA PlacesStep == PlacesInv /\ [PlacesNext]_vars => PlacesInv' /\ HomeStep
<1> SUFFICES ASSUME PlacesInv, [PlacesNext]_vars
             PROVE  PlacesInv' /\ HomeStep
  OBVIOUS
<1>1. Types /\ Exclusive /\ FolderInv /\ PieceInv /\ SecretInv
  BY DEF PlacesInv
<1>2. CASE UNCHANGED vars
  <2>1. UNCHANGED <<dir, tmp, prof, rem, pr, made, listed, keys, card, commit, pieces>>
    BY <1>2 DEF vars
  <2>2. UNCHANGED <<Places, Asked, Condemned>>
    BY <2>1 DEF Places, Asked, Condemned, At, Src, Dst
  <2>3. Types' /\ Exclusive' /\ SecretInv' /\ PieceInv'
    BY <1>1, <2>1 DEF Types, Exclusive, SecretInv, NoOrphanSecret, PieceInv, SetupAllOrNothing
  <2>4. FolderInv'
    BY <1>1, <2>1 DEF FolderInv, IdsMade, Claim, TmpInUse, SourceStays, Unplaced, InitInPlace,
                      Src, Dst, Occupied
  <2>5. QED
    BY <2>2, <2>3, <2>4 DEF PlacesInv, HomeStep
<1>3. ASSUME NEW i \in Procs, Step(i), Types' /\ FolderInv' /\ PieceInv' /\ HomeStep
      PROVE  PlacesInv' /\ HomeStep
  <2>1. Exclusive'
    BY <1>1, <1>3, ExclusiveKept DEF Step
  <2>2. SecretInv'
    BY <1>1, <1>3, SecretInvKept
  <2>3. QED
    BY <1>3, <2>1, <2>2 DEF PlacesInv
<1>4. ASSUME NEW i \in Procs, Step(i), Quiet(i)
      PROVE  PlacesInv' /\ HomeStep
  BY <1>1, <1>3, <1>4, QuietKeeps
<1>5. CASE PlacesNext
  <2>1. PICK i \in Procs :
        \/ cmdMove(i) \/ MoveProfile(i) \/ Move(i) \/ prepareDestination(i)
        \/ clearDestination(i) \/ moveDir(i) \/ copyDir(i) \/ publishCopy(i) \/ removeSource(i)
        \/ cmdSetup(i)
        \/ resolveLocationConflicts(i) \/ confirmLeftovers(i) \/ Validate(i)
        \/ CreateVault(i) \/ clearTarget(i) \/ place(i) \/ register(i)
        \/ KeychainSet(i) \/ cloudStep(i) \/ RemoteTest(i) \/ showPhrase(i) \/ deferRecovery(i)
        \/ commitRecovery(i) \/ stampCard(i) \/ cmdInit(i) \/ CreateWithOptions(i)
        \/ handleProfile(i) \/ handleRemote(i)
        \/ Load(i) \/ writeDeviceLocalFile(i) \/ Save(i) \/ SaveStore(i) \/ SaveFails(i)
        \/ Crash(i)
    BY <1>5 DEF PlacesNext
  <2>2. CASE \/ cmdMove(i) \/ MoveProfile(i) \/ cmdSetup(i) \/ cmdInit(i)
             \/ handleProfile(i) \/ handleRemote(i)
    BY <1>1, <1>4, <2>2, CommandsStart
  <2>3. CASE Move(i)
    BY <1>1, <1>4, <2>3, MoveChecks
  <2>4. CASE \/ resolveLocationConflicts(i) \/ Validate(i) \/ register(i)
             \/ cloudStep(i) \/ RemoteTest(i)
    BY <1>1, <1>4, <2>4, WizardAndSetup
  <2>5. CASE \/ KeychainSet(i) \/ showPhrase(i) \/ deferRecovery(i) \/ commitRecovery(i)
             \/ stampCard(i)
    BY <1>1, <1>4, <2>5, SecretSteps
  <2>6. CASE \/ Load(i) \/ writeDeviceLocalFile(i) \/ Save(i) \/ SaveStore(i) \/ SaveFails(i)
    BY <1>1, <1>4, <2>6, StoreSteps
  <2>7. CASE prepareDestination(i)
    BY <1>1, <1>3, <2>7, PrepareKeeps
  <2>8. CASE moveDir(i)
    BY <1>1, <1>3, <2>8, MoveDirKeeps
  <2>9. CASE copyDir(i)
    BY <1>1, <1>3, <2>9, CopyDirKeeps
  <2>10. CASE publishCopy(i)
    BY <1>1, <1>3, <2>10, PublishKeeps
  <2>11. CASE removeSource(i)
    BY <1>1, <1>3, <2>11, RemoveSourceKeeps
  <2>12. CASE confirmLeftovers(i)
    BY <1>1, <1>3, <2>12, ConfirmKeeps
  <2>13. CASE CreateVault(i)
    BY <1>1, <1>3, <2>13, CreateKeeps
  <2>14. CASE clearTarget(i)
    BY <1>1, <1>3, <2>14, ClearTargetKeeps
  <2>15. CASE place(i)
    BY <1>1, <1>3, <2>15, PlaceKeeps
  <2>16. CASE CreateWithOptions(i)
    <3>1. pr[i].pc \in {"dirs", "config", "layout"}
      BY <2>16 DEF CreateWithOptions, At
    <3>2. QED
      BY <1>1, <1>3, <2>16, <3>1, DirsKeeps, ConfigKeeps, LayoutKeeps
  <2>17. CASE Crash(i)
    BY <1>1, <1>3, <2>17, CrashKeeps
  <2>18. CASE clearDestination(i)
    BY <1>1, <1>3, <2>18, ClearDestinationKeeps
  <2>19. QED
    BY <2>1, <2>2, <2>3, <2>4, <2>5, <2>6, <2>7, <2>8, <2>9, <2>10, <2>11, <2>12, <2>13,
       <2>14, <2>15, <2>16, <2>17, <2>18
<1>6. QED
  BY <1>2, <1>5

LEMMA PlacesInvariant == PlacesSpec => []PlacesInv
<1>1. PlacesInv /\ [PlacesNext]_vars => PlacesInv'
  BY PlacesStep
<1>2. QED
  BY <1>1, PlacesStart, PTL DEF PlacesSpec

\* The first folders are a first state of VaultHome.
LEMMA HomeStart == PlacesInit => Home!HomeInit
<1> SUFFICES ASSUME PlacesInit PROVE Home!HomeInit
  OBVIOUS
<1>1. Places \in [Ids -> SUBSET Dirs]
  BY DEF Places
<1>2. \A v, w \in Ids : v # w => Whole(v) # Whole(w)
  BY FolderKinds
<1>3. \A v, w \in Ids : v # w => Places[v] \cap Places[w] = {}
  BY <1>2 DEF Places
<1>4. \A i \in Procs : pr[i].pc = "idle"
  BY IdleTask DEF PlacesInit
<1>5. Asked = {} /\ Condemned = {}
  BY <1>4 DEF Asked, Condemned, At
<1>6. QED
  BY <1>1, <1>3, <1>5 DEF Home!HomeInit

(* Moving and creating vaults, in steps that fail, crash and interleave,   *)
(* implements VaultHome: a complete vault appears, is copied or changes    *)
(* folder at once, and the last complete copy goes only from a folder the  *)
(* user agreed to clear, or from one it came into after a move had found   *)
(* it empty and before that move's removal (vaultmove.prepareDestination,  *)
(* moveDir, setup.Execute).                                                *)
THEOREM VaultsAreNotLost == PlacesSpec => VaultsKeepAHome
<1>1. PlacesInv /\ [PlacesNext]_vars => [Home!HomeNext]_<<Places, Asked, Condemned>>
  BY PlacesStep DEF HomeStep
<1>2. QED
  BY <1>1, HomeStart, PlacesInvariant, PTL DEF PlacesSpec, VaultsKeepAHome, Home!HomeSpec

(* setup.Execute leaves a complete vault or nothing: what is incomplete in *)
(* a final folder was built there by init or taken apart by a removal.     *)
THEOREM NoHalfSetup == PlacesSpec => []SetupAllOrNothing
<1>1. PlacesInv => SetupAllOrNothing
  BY DEF PlacesInv, PieceInv
<1>2. QED
  BY <1>1, PlacesInvariant, PTL

(* setup stores a password only for a vault whose profile was added, and a *)
(* recovery card loses its DRAFT stamp only after the key was committed.   *)
THEOREM SecretsHaveOwners == PlacesSpec => []NoOrphanSecret
<1>1. PlacesInv => NoOrphanSecret
  BY DEF PlacesInv, SecretInv
<1>2. QED
  BY <1>1, PlacesInvariant, PTL
=============================================================================
