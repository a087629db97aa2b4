---------------------------- MODULE VaultPlaces ----------------------------
(***************************************************************************)
(* Vault folders and the records that point at them: the commands and the  *)
(* handlers that create a vault (init, setup --preset, the wizard), move   *)
(* it, and keep the saved vault locations (profiles.json) and the remote   *)
(* profiles, as processes that interleave at every file-system call, fail  *)
(* and crash.                                                              *)
(*                                                                         *)
(* A folder is abstracted to whether it is absent, empty, holds files that *)
(* are no vault, or holds the vault id, complete or not, with or without   *)
(* its vault.json.  Two spellings may name one folder (Real): profiles are *)
(* compared by spelling, the file system by folder.                        *)
(***************************************************************************)
EXTENDS Naturals, Sequences, FiniteSets

CONSTANTS Spellings,   \* paths as the user and the stores write them
          Real,        \* the folder a spelling names
          Names,       \* profile and remote names
          Procs,       \* processes and requests
          MaxVaults,   \* bound on vault identities
          MaxOps,      \* bound on commands
          MaxCrashes   \* bound on crashes

Nowhere == "-"

ASSUME PlacesAssumption ==
    /\ Nowhere \notin Spellings
    /\ Real \in [Spellings -> Spellings]
    /\ \A s \in Spellings : Real[Real[s]] = Real[s]
    /\ {MaxVaults, MaxOps, MaxCrashes} \subseteq Nat
    /\ MaxVaults > 0

Dirs == {Real[s] : s \in Spellings}
Ids == 1..MaxVaults

Absent == [what |-> "absent", id |-> 0, cfg |-> FALSE]
Empty == [what |-> "empty", id |-> 0, cfg |-> FALSE]
Junk == [what |-> "junk", id |-> 0, cfg |-> FALSE]
Half(v, c) == [what |-> "half", id |-> v, cfg |-> c]
Whole(v) == [what |-> "whole", id |-> v, cfg |-> TRUE]
Folders == {Absent, Empty, Junk} \cup {Half(v, c) : v \in Ids, c \in BOOLEAN}
           \cup {Whole(v) : v \in Ids}

VARIABLES dir,       \* the folders
          tmp,       \* the temporary sibling a process builds or copies into
          prof,      \* profiles.json
          torn,      \* profiles.json is truncated or mixed
          rem,       \* the remote profiles' store
          pr,        \* what each process is doing
          made,      \* vault identities used
          ops, crashes,
          listed,    \* vaults whose profile was added
          keys,      \* vaults whose password setup stored in the keychain
          card,      \* the recovery card the wizard saved
          commit,    \* vaults whose recovery key was committed
          pieces     \* vaults an init wrote in place or a removal took apart

vars == <<dir, tmp, prof, torn, rem, pr, made, ops, crashes, listed, keys, card,
          commit, pieces>>
files == <<dir, tmp, pieces>>
stores == <<prof, torn, rem>>
secrets == <<listed, keys, card, commit>>
counts == <<made, ops, crashes>>

NoStore == [n \in Names |-> Nowhere]
Idle == [pc |-> "idle", op |-> "", src |-> Nowhere, dst |-> Nowhere,
         name |-> "", replace |-> FALSE, id |-> 0, jobs |-> <<>>, got |-> NoStore]

PlacesInit ==
    /\ \E f \in {Absent, Empty, Junk} :
         dir = [d \in Dirs |-> IF d = "a" THEN Whole(1) ELSE f]
    /\ tmp = [i \in Procs |-> Absent]
    /\ prof \in {[n \in Names |-> IF n = m THEN s ELSE Nowhere] :
                   m \in Names, s \in {t \in Spellings : Real[t] = "a"}}
    /\ torn = FALSE
    /\ rem = [n \in Names |-> Nowhere]
    /\ pr = [i \in Procs |-> Idle]
    /\ made = 1
    /\ ops = 0 /\ crashes = 0
    /\ listed = {1} /\ keys = {} /\ commit = {} /\ pieces = {}
    /\ card = [v \in Ids |-> "none"]

Running(kinds) == {i \in Procs : pr[i].op \in kinds}

(* Which commands are started while others run: moves one at a time; an    *)
(* init alone; the wizard, which may ask to clear a folder, not beside a   *)
(* move.                                                                   *)
Alone(op) ==
    /\ Running({"init"}) = {}
    /\ op = "init" => \A i \in Procs : pr[i].pc = "idle"
    /\ op \in {"move", "wizard"} => Running({"move"}) = {}
    /\ op = "move" => Running({"wizard"}) = {}

Start(i, op, pc, r) ==
    /\ pr[i].pc = "idle"
    /\ ops < MaxOps
    /\ Alone(op)
    /\ ops' = ops + 1
    /\ pr' = [pr EXCEPT ![i] = [r EXCEPT !.op = op, !.pc = pc]]
    /\ UNCHANGED <<files, stores, secrets, made, crashes>>

Goto(i, pc) == pr' = [pr EXCEPT ![i].pc = pc]
Stop(i) == pr' = [pr EXCEPT ![i] = Idle]
Src(i) == Real[pr[i].src]
Dst(i) == Real[pr[i].dst]
At(i, pc) == pr[i].pc = pc
----------------------------------------------------------------------------
(* The stores: load, change, save.  profiles.json is truncated and then    *)
(* written in place; the remote store is replaced by a rename.             *)

Add(n, p) == [on |-> "prof", do |-> "add", name |-> n, from |-> Nowhere, to |-> p]
Remove(n) == [on |-> "prof", do |-> "remove", name |-> n, from |-> Nowhere, to |-> Nowhere]
UpdatePathsMatching(p, q) == [on |-> "prof", do |-> "match", name |-> "", from |-> p, to |-> q]
RemoteAdd(n, p) == [Add(n, p) EXCEPT !.on = "rem"]
RemoteRemove(n) == [Remove(n) EXCEPT !.on = "rem"]
UpdateVaultPathMatching(p, q) == [UpdatePathsMatching(p, q) EXCEPT !.on = "rem"]

Applied(j, s) ==
    CASE j.do = "match" -> [n \in Names |-> IF s[n] = j.from THEN j.to ELSE s[n]]
      [] OTHER -> [s EXCEPT ![j.name] = j.to]

\* Removing a name that is not there is an error; a match that finds nothing
\* saves nothing.
Wanted(j, s) ==
    CASE j.do = "match" -> j.from \in {s[n] : n \in Names}
      [] j.do = "remove" -> s[j.name] # Nowhere
      [] OTHER -> TRUE

Job(i) == Head(pr[i].jobs)

\* After its last job a creating command goes on to the keychain.
Rest(i) ==
    LET left == Tail(pr[i].jobs) IN
    IF left # <<>> THEN [pr[i] EXCEPT !.jobs = left, !.pc = "job"]
    ELSE IF pr[i].op \in {"setup", "wizard", "init"} /\ Job(i).on = "prof"
         THEN [pr[i] EXCEPT !.jobs = <<>>, !.pc = "keychain"]
    ELSE IF pr[i].op \in {"setup", "wizard"}
         THEN [pr[i] EXCEPT !.jobs = <<>>, !.pc = "test"]
    ELSE Idle

\* A failed store step: a move warns and goes on, every other command stops.
JobFails(i) ==
    pr' = [pr EXCEPT ![i] = IF pr[i].op = "move" THEN Rest(i) ELSE Idle]

Load(i) ==
    /\ At(i, "job")
    /\ IF Job(i).on = "prof" /\ torn THEN JobFails(i)
       ELSE LET s == IF Job(i).on = "prof" THEN prof ELSE rem IN
            IF Wanted(Job(i), s)
            THEN pr' = [pr EXCEPT ![i].pc = "save", ![i].got = s]
            ELSE JobFails(i)
    /\ UNCHANGED <<files, stores, secrets, counts>>

writeDeviceLocalFile(i) ==
    /\ At(i, "save") /\ Job(i).on = "prof"
    /\ torn' = TRUE
    /\ Goto(i, "write")
    /\ UNCHANGED <<files, prof, rem, secrets, counts>>

Save(i) ==
    /\ At(i, "write")
    /\ prof' = Applied(Job(i), pr[i].got)
    /\ IF \E k \in Procs \ {i} : At(k, "write") THEN torn' \in BOOLEAN ELSE torn' = FALSE
    /\ listed' = IF Job(i).do = "add" THEN listed \cup {pr[i].id} ELSE listed
    /\ pr' = [pr EXCEPT ![i] = Rest(i)]
    /\ UNCHANGED <<files, rem, keys, card, commit, counts>>

SaveStore(i) ==
    /\ At(i, "save") /\ Job(i).on = "rem"
    /\ rem' = Applied(Job(i), pr[i].got)
    /\ pr' = [pr EXCEPT ![i] = Rest(i)]
    /\ UNCHANGED <<files, prof, torn, secrets, counts>>

SaveFails(i) ==
    /\ At(i, "save")
    /\ JobFails(i)
    /\ UNCHANGED <<files, stores, secrets, counts>>
----------------------------------------------------------------------------
(* Removing a folder: os.RemoveAll unlinks one file after another, may     *)
(* stop with an error, and works on the folder it found when it began.     *)

RemoveSome(d) ==
    \E c \in BOOLEAN :
        /\ dir[d].what = "whole"
        /\ dir' = [dir EXCEPT ![d] = Half(@.id, c)]
        /\ pieces' = pieces \cup {dir[d].id}

RemoveAll(d) ==
    /\ dir' = [dir EXCEPT ![d] = Absent]
    /\ UNCHANGED pieces
----------------------------------------------------------------------------
(* vaultmove.Move *)

cmdMove(i) ==
    \E s, d \in Spellings, n \in Names \cup {""}, r \in BOOLEAN :
        Start(i, "move", "check", [Idle EXCEPT !.src = s, !.dst = d, !.name = n, !.replace = r])

Resolve(n) == prof[n]

MoveProfile(i) ==
    \E n \in Names, d \in Spellings, r \in BOOLEAN :
        /\ ~torn
        /\ Resolve(n) # Nowhere
        /\ Start(i, "move", "check", [Idle EXCEPT !.src = Resolve(n), !.dst = d, !.name = n, !.replace = r])

validateSource(d) == dir[d].cfg

\* Mutant: only the spellings are compared.
validateNotSameDirectoryText(s, d) == s # d

\* validateRelationship compares spellings, this one the folders themselves.
validateNotSameDirectory(s, d) == Real[s] # Real[d]

Move(i) ==
    /\ At(i, "check")
    /\ IF /\ pr[i].src # pr[i].dst
          /\ validateSource(Src(i))
          /\ validateNotSameDirectory(pr[i].src, pr[i].dst)
       THEN Goto(i, "prepare")
       ELSE Stop(i)
    /\ UNCHANGED <<files, stores, secrets, counts>>

Occupied(d) == dir[d].what \in {"junk", "half", "whole"}

\* The look at the destination: only an absent or empty one is taken unasked.
prepareDestination(i) ==
    /\ At(i, "prepare")
    /\ \/ dir[Dst(i)] = Absent /\ Goto(i, "rename")
       \/ Occupied(Dst(i)) /\ ~pr[i].replace /\ Stop(i)
       \/ dir[Dst(i)] # Absent /\ (Occupied(Dst(i)) => pr[i].replace) /\ Goto(i, "rmdst")
    /\ UNCHANGED <<files, stores, secrets, counts>>

\* The removal that follows takes what the folder holds by then, whatever the
\* look saw.
clearDestination(i) ==
    /\ At(i, "rmdst")
    /\ \/ RemoveAll(Dst(i)) /\ Goto(i, "rename")
       \/ RemoveSome(Dst(i)) /\ Stop(i)
       \/ Stop(i) /\ UNCHANGED <<dir, pieces>>
    /\ UNCHANGED <<tmp, stores, secrets, counts>>

Jobs(i) ==
    (IF pr[i].name # "" THEN <<Add(pr[i].name, pr[i].dst)>> ELSE <<>>)
    \o <<UpdatePathsMatching(pr[i].src, pr[i].dst), UpdateVaultPathMatching(pr[i].src, pr[i].dst)>>

Moved(i) == pr' = [pr EXCEPT ![i].pc = "job", ![i].jobs = Jobs(i), ![i].id = dir'[Dst(i)].id]

\* os.Rename: it needs the source and an absent or empty destination, and it
\* does not cross file systems.
moveDir(i) ==
    /\ At(i, "rename")
    /\ \/ /\ dir[Src(i)] # Absent /\ ~Occupied(Dst(i))
          /\ dir' = [dir EXCEPT ![Dst(i)] = dir[Src(i)], ![Src(i)] = Absent]
          /\ Moved(i)
       \/ Goto(i, "copy") /\ UNCHANGED dir
    /\ UNCHANGED <<tmp, pieces, stores, secrets, counts>>

\* The copy goes to a sibling of the destination; a copy that fails is removed.
copyDir(i) ==
    /\ At(i, "copy")
    /\ \/ /\ dir[Src(i)] # Absent
          /\ tmp' = [tmp EXCEPT ![i] = dir[Src(i)]]
          /\ Goto(i, "publish")
       \/ Stop(i) /\ UNCHANGED tmp
    /\ UNCHANGED <<dir, pieces, stores, secrets, counts>>

publishCopy(i) ==
    /\ At(i, "publish")
    /\ \/ /\ ~Occupied(Dst(i))
          /\ dir' = [dir EXCEPT ![Dst(i)] = tmp[i]]
          /\ Goto(i, "rmsrc")
       \/ Stop(i) /\ UNCHANGED dir
    /\ tmp' = [tmp EXCEPT ![i] = Absent]
    /\ UNCHANGED <<pieces, stores, secrets, counts>>

\* A source that cannot be removed ends the move with an error: the profiles
\* keep the old folder.
removeSource(i) ==
    /\ At(i, "rmsrc")
    /\ \/ RemoveAll(Src(i)) /\ Moved(i)
       \/ RemoveSome(Src(i)) /\ UNCHANGED pr
       \/ Stop(i) /\ UNCHANGED <<dir, pieces>>
    /\ UNCHANGED <<tmp, stores, secrets, counts>>
----------------------------------------------------------------------------
(* Creating a vault: setup.Execute, the wizard around it, the preset, init *)

vaultDirState(d) ==
    IF dir[d].cfg THEN "vault" ELSE IF Occupied(d) THEN "leftovers" ELSE "clear"

ProfileFree(i) == Resolve(pr[i].name) \in {Nowhere, pr[i].dst}

\* A preset that finds its vault registers the missing profile and stops.
setupIdempotentRerun(i) ==
    \E d \in Spellings, n \in Names :
        /\ vaultDirState(Real[d]) = "vault"
        /\ ~torn /\ Resolve(n) = Nowhere
        /\ Start(i, "preset", "job", [Idle EXCEPT !.dst = d, !.name = n, !.id = dir[Real[d]].id,
                                                    !.jobs = <<Add(n, d)>>])

runSetupPreset(i) ==
    \E d \in Spellings, n \in Names :
        /\ vaultDirState(Real[d]) # "vault"
        /\ Start(i, "setup", "lookup", [Idle EXCEPT !.dst = d, !.name = n])

RunInteractive(i) ==
    \E d \in Spellings, n \in Names :
        Start(i, "wizard", "probe", [Idle EXCEPT !.dst = d, !.name = n])

cmdSetup(i) == setupIdempotentRerun(i) \/ runSetupPreset(i) \/ RunInteractive(i)

stepVaultLocation(i) == \E d \in Spellings : pr' = [pr EXCEPT ![i].dst = d, ![i].pc = "probe"]

suffixedProfileName(i) ==
    \E n \in Names : Resolve(n) = Nowhere /\ pr' = [pr EXCEPT ![i].name = n]

\* The wizard's remedies: another folder for one that holds a vault, another
\* name for one in use, or the question whether leftovers may be removed.
resolveLocationConflicts(i) ==
    /\ At(i, "probe")
    /\ CASE vaultDirState(Dst(i)) = "vault" ->
              Stop(i) \/ stepVaultLocation(i)
         [] vaultDirState(Dst(i)) = "leftovers" -> Goto(i, "confirm")
         [] torn -> Stop(i)
         [] ~ProfileFree(i) ->
              Stop(i) \/ suffixedProfileName(i)
         [] OTHER -> Goto(i, "lookup")
    /\ UNCHANGED <<files, stores, secrets, counts>>

\* The answer comes when the user gives it; the folder is not looked at again.
confirmLeftovers(i) ==
    /\ At(i, "confirm")
    /\ \/ RemoveAll(Dst(i)) /\ Goto(i, "probe")
       \/ /\ UNCHANGED <<dir, pieces>>
          /\ Stop(i) \/ stepVaultLocation(i)
    /\ UNCHANGED <<tmp, stores, secrets, counts>>

Validate(i) ==
    /\ At(i, "lookup")
    /\ IF ~torn /\ ProfileFree(i) /\ vaultDirState(Dst(i)) = "clear"
       THEN Goto(i, "mktemp") ELSE Stop(i)
    /\ UNCHANGED <<files, stores, secrets, counts>>

\* Mutant: the vault is built in its final folder.
CreateVaultInPlace(i) ==
    /\ At(i, "mktemp")
    /\ made < MaxVaults
    /\ made' = made + 1
    /\ tmp' = [tmp EXCEPT ![i] = Whole(made + 1)]
    /\ dir' = [dir EXCEPT ![Dst(i)] = Half(made + 1, FALSE)]
    /\ pr' = [pr EXCEPT ![i].pc = "place", ![i].id = made + 1]
    /\ UNCHANGED <<pieces, stores, secrets, ops, crashes>>

\* The vault is built in a temporary sibling.
CreateVault(i) ==
    /\ At(i, "mktemp")
    /\ made < MaxVaults
    /\ \/ /\ made' = made + 1
          /\ tmp' = [tmp EXCEPT ![i] = Whole(made + 1)]
          /\ pr' = [pr EXCEPT ![i].pc = "clear", ![i].id = made + 1]
       \/ Stop(i) /\ UNCHANGED <<tmp, made>>
    /\ UNCHANGED <<dir, pieces, stores, secrets, ops, crashes>>

\* os.Remove takes an empty folder only.
clearTarget(i) ==
    /\ At(i, "clear")
    /\ IF Occupied(Dst(i))
       THEN Stop(i) /\ tmp' = [tmp EXCEPT ![i] = Absent] /\ UNCHANGED dir
       ELSE Goto(i, "place") /\ dir' = [dir EXCEPT ![Dst(i)] = Absent] /\ UNCHANGED tmp
    /\ UNCHANGED <<pieces, stores, secrets, counts>>

place(i) ==
    /\ At(i, "place")
    /\ tmp' = [tmp EXCEPT ![i] = Absent]
    /\ \/ /\ ~Occupied(Dst(i))
          /\ dir' = [dir EXCEPT ![Dst(i)] = tmp[i]]
          /\ Goto(i, "relookup")
       \/ Stop(i) /\ UNCHANGED dir
    /\ UNCHANGED <<pieces, stores, secrets, counts>>

\* Mutant: the password is stored before the profile is added.
registerKeyFirst(i) ==
    /\ At(i, "relookup")
    /\ keys' = keys \cup {pr[i].id}
    /\ IF dir[Dst(i)].cfg /\ ~torn /\ ProfileFree(i)
       THEN pr' = [pr EXCEPT ![i].pc = "job", ![i].jobs = <<Add(pr[i].name, pr[i].dst)>>]
       ELSE Stop(i)
    /\ UNCHANGED <<files, stores, listed, card, commit, counts>>

\* The second look at the name; the vault exists whatever it says.
register(i) ==
    /\ At(i, "relookup")
    /\ IF dir[Dst(i)].cfg /\ ~torn /\ ProfileFree(i)
       THEN pr' = [pr EXCEPT ![i].pc = "job", ![i].jobs = <<Add(pr[i].name, pr[i].dst)>>]
       ELSE Stop(i)
    /\ UNCHANGED <<files, stores, secrets, counts>>

\* The keychain is optional and its failure is a note.
KeychainSet(i) ==
    /\ At(i, "keychain")
    /\ IF pr[i].op = "init" THEN Stop(i) /\ UNCHANGED keys
       ELSE Goto(i, "cloud") /\ keys' \in {keys, keys \cup {pr[i].id}}
    /\ UNCHANGED <<files, stores, listed, card, commit, counts>>

Finish(i) == IF pr[i].op = "wizard" THEN Goto(i, "phrase") ELSE Stop(i)

\* A synced folder or none needs no transport; a remote needs the rclone
\* runtime, which may be refused or fail to install.
cloudStep(i) ==
    /\ At(i, "cloud")
    /\ \/ Finish(i)
       \/ Stop(i)
       \/ \E n \in Names : pr' = [pr EXCEPT ![i].pc = "job", ![i].jobs = <<RemoteAdd(n, pr[i].dst)>>]
    /\ UNCHANGED <<files, stores, secrets, counts>>

RemoteTest(i) ==
    /\ At(i, "test")
    /\ Finish(i) \/ Stop(i)
    /\ UNCHANGED <<files, stores, secrets, counts>>

\* The wizard's ceremony: the card is written, as a draft, before the phrase is
\* typed back.
showPhrase(i) ==
    /\ At(i, "phrase")
    /\ card' \in {card, [card EXCEPT ![pr[i].id] = "draft"]}
    /\ Goto(i, "readback")
    /\ UNCHANGED <<files, stores, listed, keys, commit, counts>>

\* Deferred, mistyped or failed: the draft is deleted or kept, as the user says.
deferRecovery(i) ==
    /\ At(i, "readback")
    /\ card' \in {card, [card EXCEPT ![pr[i].id] = "none"]}
    /\ Stop(i)
    /\ UNCHANGED <<files, stores, listed, keys, commit, counts>>

commitRecovery(i) ==
    /\ At(i, "readback")
    /\ dir[Dst(i)] = Whole(pr[i].id)
    /\ commit' = commit \cup {pr[i].id}
    /\ Goto(i, "stamp")
    /\ UNCHANGED <<files, stores, listed, keys, card, counts>>

stampCard(i) ==
    /\ At(i, "stamp")
    /\ card' \in {card, [card EXCEPT ![pr[i].id] = IF @ = "draft" THEN "confirmed" ELSE @]}
    /\ Stop(i)
    /\ UNCHANGED <<files, stores, listed, keys, commit, counts>>

\* init refuses leftovers and an existing vault, then builds in the folder
\* itself: directories, vault.json, content layout.
cmdInit(i) ==
    \E d \in Spellings, n \in Names \cup {""} :
        Start(i, "init", "dirs", [Idle EXCEPT !.dst = d, !.name = n])

CreateWithOptions(i) ==
    \/ /\ At(i, "dirs")
       /\ IF vaultDirState(Dst(i)) # "clear" \/ made = MaxVaults
          THEN Stop(i) /\ UNCHANGED <<dir, pieces, made>>
          ELSE /\ made' = made + 1
               /\ dir' = [dir EXCEPT ![Dst(i)] = Half(made + 1, FALSE)]
               /\ pieces' = pieces \cup {made + 1}
               /\ pr' = [pr EXCEPT ![i].pc = "config", ![i].id = made + 1]
       /\ UNCHANGED <<tmp, stores, secrets, ops, crashes>>
    \/ /\ At(i, "config")
       /\ dir' = [dir EXCEPT ![Dst(i)].cfg = TRUE]
       /\ Goto(i, "layout")
       /\ UNCHANGED <<tmp, pieces, stores, secrets, counts>>
    \/ /\ At(i, "layout")
       /\ dir' = [dir EXCEPT ![Dst(i)] = Whole(pr[i].id)]
       /\ pr' = [pr EXCEPT ![i] = IF pr[i].name = "" THEN [@ EXCEPT !.pc = "keychain"]
                                 ELSE [@ EXCEPT !.pc = "job", !.jobs = <<Add(pr[i].name, pr[i].dst)>>]]
       /\ UNCHANGED <<tmp, pieces, stores, secrets, counts>>
----------------------------------------------------------------------------
(* Saved locations and remotes, from the command line and from the web     *)

execProfile(i) ==
    \/ \E n \in Names, s \in Spellings :
         Start(i, "profile", "job", [Idle EXCEPT !.jobs = <<Add(n, s)>>, !.id = dir[Real[s]].id])
    \/ \E n \in Names : Start(i, "profile", "job", [Idle EXCEPT !.jobs = <<Remove(n)>>])

handleProfile(i) == execProfile(i)

execRemote(i) ==
    \/ \E n \in Names, s \in Spellings : Start(i, "remote", "job", [Idle EXCEPT !.jobs = <<RemoteAdd(n, s)>>])
    \/ \E n \in Names : Start(i, "remote", "job", [Idle EXCEPT !.jobs = <<RemoteRemove(n)>>])

handleRemote(i) == execRemote(i)

Crash(i) ==
    /\ pr[i].pc # "idle"
    /\ crashes < MaxCrashes
    /\ crashes' = crashes + 1
    /\ Stop(i)
    /\ tmp' = [tmp EXCEPT ![i] = Absent]
    /\ UNCHANGED <<dir, pieces, stores, secrets, made, ops>>

PlacesNext ==
    \E i \in Procs :
        \/ cmdMove(i) \/ MoveProfile(i) \/ Move(i) \/ prepareDestination(i)
        \/ clearDestination(i) \/ moveDir(i) \/ copyDir(i) \/ publishCopy(i) \/ removeSource(i)
        \/ cmdSetup(i)
        \/ resolveLocationConflicts(i) \/ confirmLeftovers(i) \/ Validate(i)
        \/ CreateVault(i) \/ clearTarget(i) \/ place(i) \/ register(i)
        \/ KeychainSet(i) \/ cloudStep(i) \/ RemoteTest(i) \/ showPhrase(i) \/ deferRecovery(i)
        \/ commitRecovery(i) \/ stampCard(i) \/ cmdInit(i) \/ CreateWithOptions(i)
        \/ handleProfile(i) \/ handleRemote(i)
        \/ Load(i) \/ writeDeviceLocalFile(i) \/ Save(i) \/ SaveStore(i) \/ SaveFails(i)
        \/ Crash(i)

PlacesSpec == PlacesInit /\ [][PlacesNext]_vars
----------------------------------------------------------------------------
\* The folders that hold each vault complete; the ones the user has just agreed
\* to clear: the destination of a move --replace, never its source, and the
\* folder of the wizard's leftovers question; and the ones a move without
\* --replace has found empty and is about to remove.
Places == [v \in Ids |-> {d \in Dirs : dir[d] = Whole(v)}]
Asked ==
    {d \in Dirs : \E i \in Procs :
        /\ \/ pr[i].pc \in {"prepare", "rmdst"} /\ pr[i].replace /\ d # Src(i)
           \/ At(i, "confirm")
        /\ d = Dst(i)}
Condemned == {d \in Dirs : \E i \in Procs : At(i, "rmdst") /\ ~pr[i].replace /\ d = Dst(i)}

Home == INSTANCE VaultHome WITH Vaults <- Ids, places <- Places, asked <- Asked,
                                condemned <- Condemned

(* Whatever fails, crashes or interleaves, the steps of a move and of a    *)
(* create amount to a vault appearing, being copied or changing folder at  *)
(* once: no folder is taken from another vault, and no complete vault      *)
(* disappears unless the user agreed to clear its folder, or it arrived    *)
(* there after a move had found the folder empty and before that move's    *)
(* RemoveAll (vaultmove.prepareDestination, moveDir, setup.Execute).       *)
VaultsKeepAHome == Home!HomeSpec

(* "An interrupted create leaves either a complete vault or nothing"       *)
(* (setup.Execute): an incomplete vault in a final folder was built by     *)
(* init, or a removal took it apart.                                       *)
SetupAllOrNothing ==
    \A d \in Dirs : dir[d].what = "half" => dir[d].id \in pieces

(* setup leaves no secret behind for nothing: a password it stored in the  *)
(* keychain is that of a vault whose profile was added, and a recovery     *)
(* card without the DRAFT stamp has its key committed in the vault.        *)
NoOrphanSecret ==
    /\ keys \subseteq listed
    /\ \A v \in Ids : card[v] = "confirmed" => v \in commit
=============================================================================
