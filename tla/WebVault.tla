------------------------------ MODULE WebVault ------------------------------
(***************************************************************************)
(* The vault the GUI server has open (internal/webui/server.go): opening,  *)
(* closing, moving and redeeming it, its recovery keys, the /dav/ requests *)
(* and the background imports, with the seavault command line working on   *)
(* the same folders.                                                       *)
(*                                                                         *)
(* Every opening makes a new handle with its own copy of vault.json; a     *)
(* request keeps the handle it read under s.mu whatever happens to s.vault *)
(* afterwards.  A request is split wherever the handler releases s.mu, and *)
(* mu is the request that holds it across vault I/O.                       *)
(* A vault.json is the set of its recovery entries: the password entry is  *)
(* always there.                                                           *)
(***************************************************************************)
EXTENDS Integers, Sequences, FiniteSets

CONSTANTS Slots,        \* requests and commands that may run at once
          Paths,        \* vault folders
          Existing,     \* those that hold a vault at the start
          MaxHandles,   \* bound on openings
          MaxPhrases,   \* bound on recovery phrases minted
          MaxTokens,    \* bound on rotations of the DAV token
          MaxEntries,   \* files an import finds
          MaxRequests   \* bound on requests and commands

ASSUME WebVaultAssumption ==
    {MaxHandles, MaxPhrases, MaxTokens, MaxEntries, MaxRequests} \subseteq Nat

VARIABLES vault,      \* s.vault, a handle or 0
          vaultPath,  \* s.vaultPath
          pending,    \* s.pendingRecovery
          era,        \* how often the vault was closed or the application reset
          token,      \* s.davToken, named by the era it was minted in
          presence,   \* s.presence, a cache number, with s.presenceVault
          caches,     \* the handles whose sweeps each presence cache holds
          handles,    \* every handle opened: its folder and its vault.json
          disk,       \* the vault.json in each folder
          phrases,    \* recovery phrases minted so far
          typed,      \* phrases that were typed back
          entries,    \* recovery entries written so far
          jobs,       \* the import jobs
          mu,         \* the request that holds s.mu while it works, or 0
          req, left

webState == <<vault, vaultPath, pending, era, token>>
davState == <<presence, caches>>
keyState == <<disk, phrases, typed, entries>>
webVars == <<webState, davState, keyState, handles, jobs, mu, req, left>>

NoPath == "none"
NoVault == [there |-> FALSE, keys |-> {}]
NoPending == [phrase |-> 0, h |-> 0]
Idle == [pc |-> "free", h |-> 0, path |-> NoPath, arg |-> 0, pend |-> NoPending]

WebInit ==
    /\ vault = 0 /\ vaultPath = NoPath /\ pending = NoPending /\ era = 0 /\ token = 0
    /\ presence = [cache |-> 1, of |-> 0] /\ caches = <<{}>>
    /\ handles = <<>>
    /\ disk = [p \in Paths |-> [there |-> p \in Existing, keys |-> {}]]
    /\ phrases = 0 /\ typed = {} /\ entries = 0 /\ jobs = <<>>
    /\ mu = 0 /\ req = [s \in Slots |-> Idle] /\ left = MaxRequests

-----------------------------------------------------------------------------
MuFree == mu = 0
Starts(s) == req[s].pc = "free" /\ left > 0 /\ left' = left - 1
At(s, pc) == req[s].pc = pc /\ UNCHANGED left
Becomes(s, r) == req' = [req EXCEPT ![s] = r]
Goto(s, pc) == req' = [req EXCEPT ![s].pc = pc]
Answer(s) == Becomes(s, Idle)

\* currentVault: the request is bound to the handle that is active now.
currentVault(s, pc) ==
    /\ Starts(s) /\ MuFree
    /\ IF vault = 0 THEN UNCHANGED req ELSE Becomes(s, [Idle EXCEPT !.pc = pc, !.h = vault])

\* vault.Open: a new handle with the vault.json that is there now.
OpenHandle(s, p, pc, pend) ==
    /\ Len(handles) < MaxHandles
    /\ disk[p].there
    /\ handles' = Append(handles, [path |-> p, keys |-> disk[p].keys, at |-> era])
    /\ Becomes(s, [Idle EXCEPT !.pc = pc, !.h = Len(handles) + 1, !.path = p, !.pend = pend])

\* rewriteConfig: starts from the handle's copy, writes it and keeps it.  It
\* fails when the folder was moved away.
rewriteConfig(h, keys) ==
    LET p == handles[h].path
    IN  IF disk[p].there
        THEN /\ disk' = [disk EXCEPT ![p].keys = keys]
             /\ handles' = [handles EXCEPT ![h].keys = keys]
        ELSE UNCHANGED <<disk, handles>>

-----------------------------------------------------------------------------
(* Opening and closing. *)

\* handleOpen up to the assignment of s.vault; "drop" forgets the pending phrase.
handleOpen(s, p) ==
    /\ Starts(s) /\ OpenHandle(s, p, "adopt", NoPending)
    /\ UNCHANGED <<webState, davState, keyState, jobs, mu>>

\* handleInit and handleSetupRun create the folder's vault, then open it.
Create(s, p) ==
    /\ Starts(s) /\ ~disk[p].there
    /\ disk' = [disk EXCEPT ![p].there = TRUE]
    /\ UNCHANGED <<webState, davState, phrases, typed, entries, handles, jobs, mu>>

handleInit(s, p) ==
    Create(s, p) /\ Becomes(s, [Idle EXCEPT !.pc = "init", !.path = p])

handleSetupRun(s, p) ==
    Create(s, p) /\ Becomes(s, [Idle EXCEPT !.pc = "setup", !.path = p])

OpenCreated(s) ==
    /\ \/ At(s, "init") /\ OpenHandle(s, req[s].path, "adoptKeepPending", NoPending)
       \/ At(s, "setup") /\ OpenHandle(s, req[s].path, "adopt", NoPending)
       \/ At(s, req[s].pc) /\ req[s].pc \in {"init", "setup"} /\ Answer(s) /\ UNCHANGED handles
    /\ UNCHANGED <<webState, davState, keyState, jobs, mu>>

AdoptForgetsPath(s) ==
    /\ At(s, req[s].pc) /\ req[s].pc \in {"adopt", "adoptKeepPending"} /\ MuFree
    /\ vault' = req[s].h
    /\ vaultPath' = IF vault = 0 THEN req[s].path ELSE vaultPath
    /\ pending' = IF req[s].pc = "adopt" THEN NoPending ELSE pending
    /\ handles' = [handles EXCEPT ![req[s].h].at = era]
    /\ Answer(s)
    /\ UNCHANGED <<era, token, davState, keyState, jobs, mu>>

\* The handle becomes s.vault, with its path, in one critical section.
Adopt(s) ==
    /\ At(s, req[s].pc) /\ req[s].pc \in {"adopt", "adoptKeepPending"} /\ MuFree
    /\ vault' = req[s].h
    /\ vaultPath' = req[s].path
    /\ pending' = IF req[s].pc = "adopt" THEN NoPending ELSE pending
    /\ handles' = [handles EXCEPT ![req[s].h].at = era]
    /\ Answer(s)
    /\ UNCHANGED <<era, token, davState, keyState, jobs, mu>>

handleCloseKeepsURL(s) ==
    /\ Starts(s) /\ MuFree /\ era < MaxTokens
    /\ vault' = 0 /\ pending' = NoPending /\ era' = era + 1
    /\ UNCHANGED <<vaultPath, token, davState, keyState, handles, jobs, mu, req>>

handleClose(s) ==
    /\ Starts(s) /\ MuFree /\ era < MaxTokens
    /\ vault' = 0 /\ pending' = NoPending /\ era' = era + 1 /\ token' = era'
    /\ UNCHANGED <<vaultPath, davState, keyState, handles, jobs, mu, req>>

\* The reset of the application (WebSession) rotates the token, too.
ResetRotates(s) ==
    /\ Starts(s) /\ MuFree /\ era < MaxTokens
    /\ era' = era + 1 /\ token' = era'
    /\ UNCHANGED <<vault, vaultPath, pending, davState, keyState, handles, jobs, mu, req>>

\* handleVaultMove: vaultmove.Move (the module VaultPlaces) ...
MoveFolder(s, p, q) ==
    /\ Starts(s) /\ disk[p].there /\ ~disk[q].there
    /\ disk' = [disk EXCEPT ![q] = disk[p], ![p] = NoVault]
    /\ Becomes(s, [Idle EXCEPT !.pc = "moved", !.path = q, !.h = 0, !.arg = p])
    /\ UNCHANGED <<webState, davState, phrases, typed, entries, handles, jobs, mu>>

\* ... then the active vault is let go if it was the one that moved ...
MoveDetach(s) ==
    /\ At(s, "moved") /\ MuFree
    /\ IF vault # 0 /\ vaultPath = req[s].arg
       THEN vault' = 0 /\ vaultPath' = req[s].path /\ Goto(s, "reopen")
       ELSE UNCHANGED <<vault, vaultPath>> /\ Answer(s)
    /\ UNCHANGED <<pending, era, token, davState, keyState, handles, jobs, mu>>

\* ... and opened again when the OS keychain has its password.
MoveReopen(s) ==
    /\ At(s, "reopen")
    /\ \/ OpenHandle(s, req[s].path, "adoptKeepPending", NoPending)
       \/ Answer(s) /\ UNCHANGED handles
    /\ UNCHANGED <<webState, davState, keyState, jobs, mu>>

\* vaultForVerify: the active vault when it is the one asked for, else a new one.
vaultForVerify(s, p) ==
    /\ Starts(s) /\ MuFree
    /\ \/ /\ vault # 0 /\ vaultPath = p
          /\ Becomes(s, [Idle EXCEPT !.pc = "verify", !.h = vault, !.path = p])
          /\ UNCHANGED handles
       \/ OpenHandle(s, p, "verify", NoPending)
    /\ UNCHANGED <<webState, davState, keyState, jobs, mu>>

\* VerifyReport of that handle; nothing of this state changes.
handleVerify(s) ==
    /\ At(s, "verify") /\ Answer(s)
    /\ UNCHANGED <<webState, davState, keyState, handles, jobs, mu>>

-----------------------------------------------------------------------------
(* Recovery keys. *)

\* handlePasswordChange, after currentVault: the entries are written as they are.
handlePasswordChange(s) ==
    /\ currentVault(s, "rewrap")
    /\ UNCHANGED <<webState, davState, keyState, handles, jobs, mu>>

ChangePassword(s) ==
    /\ At(s, "rewrap")
    /\ rewriteConfig(req[s].h, handles[req[s].h].keys)
    /\ Answer(s)
    /\ UNCHANGED <<webState, davState, phrases, typed, entries, jobs, mu>>

\* PrepareRecovery: a phrase and a commit that is bound to the handle.
PrepareRecovery(s, pc) ==
    /\ phrases < MaxPhrases
    /\ phrases' = phrases + 1
    /\ req' = [req EXCEPT ![s].pc = pc,
                          ![s].pend = [phrase |-> phrases + 1, h |-> req[s].h]]

handleRecoveryGenerate(s) ==
    /\ \/ currentVault(s, "mint") /\ UNCHANGED <<phrases, pending>>
       \/ At(s, "mint") /\ PrepareRecovery(s, "park") /\ UNCHANGED pending
       \/ /\ At(s, "park") /\ MuFree
          /\ pending' = req[s].pend /\ Answer(s) /\ UNCHANGED phrases
    /\ UNCHANGED <<vault, vaultPath, era, token, davState, disk, typed, entries, handles, jobs, mu>>

\* handleRecoveryCommit takes the pending phrase and checks what was typed.
handleRecoveryCommit(s, text) ==
    /\ \/ currentVault(s, "take") /\ UNCHANGED typed
       \/ /\ At(s, "take") /\ MuFree
          /\ IF pending # NoPending /\ pending.phrase = text
             THEN /\ typed' = typed \cup {text}
                  /\ req' = [req EXCEPT ![s].pc = "commit", ![s].pend = pending]
             ELSE Answer(s) /\ UNCHANGED typed
    /\ UNCHANGED <<webState, davState, disk, phrases, entries, handles, jobs, mu>>

Entry(pend) == [id |-> entries + 1, phrase |-> pend.phrase]

CommitWriteRereads(s) ==
    /\ At(s, req[s].pc) /\ req[s].pc \in {"commit", "cliCommit"} /\ entries < MaxPhrases
    /\ LET pend == IF pending = NoPending THEN req[s].pend ELSE pending
       IN  rewriteConfig(pend.h, handles[pend.h].keys \cup {Entry(pend)})
    /\ entries' = entries + 1
    /\ IF req[s].pc = "commit" THEN Goto(s, "forget") ELSE Answer(s)
    /\ UNCHANGED <<webState, davState, phrases, typed, jobs, mu>>

\* pend.commit(): the entry is written through the handle that minted it.
CommitWrite(s) ==
    /\ At(s, req[s].pc) /\ req[s].pc \in {"commit", "cliCommit"} /\ entries < MaxPhrases
    /\ LET pend == req[s].pend
       IN  rewriteConfig(pend.h, handles[pend.h].keys \cup {Entry(pend)})
    /\ entries' = entries + 1
    /\ IF req[s].pc = "commit" THEN Goto(s, "forget") ELSE Answer(s)
    /\ UNCHANGED <<webState, davState, phrases, typed, jobs, mu>>

\* An error of the mint or of the commit ends the request; a pending phrase stays.
KeyError(s) ==
    /\ At(s, req[s].pc) /\ req[s].pc \in {"mint", "cliMint", "commit", "cliCommit"} /\ Answer(s)
    /\ UNCHANGED <<webState, davState, keyState, handles, jobs, mu>>

CommitForgets(s) ==
    /\ At(s, "forget") /\ MuFree
    /\ pending' = NoPending /\ Answer(s)
    /\ UNCHANGED <<vault, vaultPath, era, token, davState, keyState, handles, jobs, mu>>

\* handleRecoveryRevoke: the last key goes only with a confirmation.
handleRecoveryRevoke(s, id, confirm) ==
    /\ \/ currentVault(s, "revoke")
       \/ /\ At(s, "revoke")
          /\ IF Cardinality(handles[req[s].h].keys) <= 1 /\ ~confirm
             THEN Answer(s)
             ELSE req' = [req EXCEPT ![s].pc = "strike", ![s].arg = id]
    /\ UNCHANGED <<webState, davState, keyState, handles, jobs, mu>>

RevokeRecovery(s) ==
    /\ At(s, "strike")
    /\ LET keys == handles[req[s].h].keys
           kept == {e \in keys : e.id # req[s].arg}
       IN  IF kept = keys THEN UNCHANGED <<disk, handles>> ELSE rewriteConfig(req[s].h, kept)
    /\ Answer(s)
    /\ UNCHANGED <<webState, davState, phrases, typed, entries, jobs, mu>>

\* handleRecoveryRedeem: the phrase opens the vault, its entry is used up with
\* the new password, and the vault becomes the active one.
handleRecoveryRedeem(s, p, text) ==
    /\ \/ /\ Starts(s)
          /\ \E e \in disk[p].keys : e.phrase = text
          /\ OpenHandle(s, p, "redeem", [NoPending EXCEPT !.phrase = text])
          /\ UNCHANGED disk
       \/ /\ At(s, "redeem") /\ req[s].path = p /\ req[s].pend.phrase = text
          /\ rewriteConfig(req[s].h, LET keys == handles[req[s].h].keys
                                     IN keys \ {CHOOSE e \in keys : e.phrase = text})
          /\ IF disk[p].there THEN Goto(s, "adopt") ELSE Answer(s)
    /\ UNCHANGED <<webState, davState, phrases, typed, entries, jobs, mu>>

-----------------------------------------------------------------------------
(* The command line: its own process, its own handle, the same folders. *)

openVaultForCLI(s, p, pc) ==
    /\ Starts(s) /\ OpenHandle(s, p, pc, NoPending)
    /\ UNCHANGED <<webState, davState, keyState, jobs, mu>>

cmdPasswordChange(s, p) == openVaultForCLI(s, p, "rewrap")

\* recovery generate: the phrase must be typed back before the commit.
cmdRecoveryGenerate(s, p) ==
    \/ openVaultForCLI(s, p, "cliMint")
    \/ /\ At(s, "cliMint") /\ PrepareRecovery(s, "cliTyped")
       /\ UNCHANGED <<webState, davState, disk, typed, entries, handles, jobs, mu>>
    \/ /\ At(s, "cliTyped")
       /\ \/ Answer(s) /\ UNCHANGED typed
          \/ typed' = typed \cup {req[s].pend.phrase} /\ Goto(s, "cliCommit")
       /\ UNCHANGED <<webState, davState, disk, phrases, entries, handles, jobs, mu>>

cmdRecoveryRevoke(s, p) == openVaultForCLI(s, p, "revoke")

\* recovery redeem does not make the vault active.
cmdRecoveryRedeem(s, p, text) ==
    /\ \/ /\ Starts(s)
          /\ \E e \in disk[p].keys : e.phrase = text
          /\ OpenHandle(s, p, "cliRedeem", [NoPending EXCEPT !.phrase = text])
          /\ UNCHANGED disk
       \/ /\ At(s, "cliRedeem") /\ req[s].path = p /\ req[s].pend.phrase = text
          /\ rewriteConfig(req[s].h, LET keys == handles[req[s].h].keys
                                     IN keys \ {CHOOSE e \in keys : e.phrase = text})
          /\ Answer(s)
    /\ UNCHANGED <<webState, davState, phrases, typed, entries, jobs, mu>>

-----------------------------------------------------------------------------
(* Files: what a handler does to the vault it is bound to is VaultSync,    *)
(* GarbageCollect and DavTree; here it is which vault that is, and s.mu.   *)

Bound(s, pc) ==
    /\ currentVault(s, pc)
    /\ UNCHANGED <<webState, davState, keyState, handles, jobs, mu>>

handleFiles(s) == Bound(s, "read")
handleDownload(s) == Bound(s, "read")
handleExport(s) == Bound(s, "read")
handleExportZipDownload(s) == Bound(s, "read")
handleCompact(s) == Bound(s, "read")
handleGC(s) == Bound(s, "read")
handleRecoveryList(s) == Bound(s, "read")

\* These take s.mu after they read the vault, and keep it while they write.
handleUpload(s) == Bound(s, "upload")
handleUploadPath(s) == Bound(s, "upload")
handleFile(s) == Bound(s, "upload")

LockMuAgain(s) ==
    /\ At(s, "upload") /\ MuFree /\ mu' = s /\ Goto(s, "upload")
    /\ UNCHANGED <<webState, davState, keyState, handles, jobs>>

LockMu(s) ==
    /\ At(s, "upload") /\ MuFree /\ mu' = s /\ Goto(s, "io")
    /\ UNCHANGED <<webState, davState, keyState, handles, jobs>>

\* The vault I/O, with or without an error; s.mu is released by the defer.
VaultIO(s) ==
    /\ At(s, req[s].pc) /\ req[s].pc \in {"read", "io"}
    /\ mu' = IF req[s].pc = "io" THEN 0 ELSE mu
    /\ Answer(s)
    /\ UNCHANGED <<webState, davState, keyState, handles, jobs>>

-----------------------------------------------------------------------------
(* /dav/ requests.  A presence cache is keyed by path and generation only,  *)
(* so it must never serve two handles.                                      *)

handleWebDAVByPath(s, tok) ==
    /\ Starts(s) /\ MuFree
    /\ LET new == vault # 0 /\ (presence.of = 0 \/ handles[presence.of].path # vaultPath)
           c == IF new THEN Len(caches) + 1 ELSE presence.cache
       IN  /\ caches' = IF new THEN Append(caches, {}) ELSE caches
           /\ presence' = IF new THEN [cache |-> c, of |-> vault] ELSE presence
           /\ IF tok = token /\ vault # 0
              THEN Becomes(s, [Idle EXCEPT !.pc = "dav", !.h = vault, !.arg = c,
                                           !.pend = [phrase |-> tok, h |-> 0]])
              ELSE UNCHANGED req
    /\ UNCHANGED <<webState, keyState, handles, jobs, mu>>

\* handleWebDAV reads token, vault and cache together; the cache is replaced
\* when the vault is another handle than before.  pend.phrase keeps the token.
handleWebDAV(s, tok) ==
    /\ Starts(s) /\ MuFree
    /\ LET new == vault # 0 /\ presence.of # vault
           c == IF new THEN Len(caches) + 1 ELSE presence.cache
       IN  /\ caches' = IF new THEN Append(caches, {}) ELSE caches
           /\ presence' = IF new THEN [cache |-> c, of |-> vault] ELSE presence
           /\ IF tok = token /\ vault # 0
              THEN Becomes(s, [Idle EXCEPT !.pc = "dav", !.h = vault, !.arg = c,
                                           !.pend = [phrase |-> tok, h |-> 0]])
              ELSE UNCHANGED req
    /\ UNCHANGED <<webState, keyState, handles, jobs, mu>>

\* openFileReader: a sweep of this vault's chunks, unless the cache answers.
DavSweep(s) ==
    /\ At(s, "dav")
    /\ caches' = [caches EXCEPT ![req[s].arg] = IF @ = {} THEN {req[s].h} ELSE @]
    /\ Answer(s)
    /\ UNCHANGED <<webState, presence, keyState, handles, jobs, mu>>

-----------------------------------------------------------------------------
(* Background imports (internal/importer): they outlive request and close. *)

handleLargeImportStart(s) ==
    /\ \/ currentVault(s, "import") /\ UNCHANGED jobs
       \/ /\ At(s, "import") /\ Answer(s)
          /\ \E n \in 1..MaxEntries :
                jobs' = Append(jobs, [h |-> req[s].h, pc |-> "queued", files |-> n,
                                      cancelled |-> FALSE, after |-> 0])
    /\ UNCHANGED <<webState, davState, keyState, handles, mu>>

handleLargeImportCancel(s, j) ==
    /\ Starts(s)
    /\ jobs' = [jobs EXCEPT ![j].cancelled = TRUE]
    /\ UNCHANGED <<webState, davState, keyState, handles, mu, req>>

\* ImportPath up to the walk: the preflight may fail.
ImportBegin(j) ==
    /\ jobs[j].pc = "queued"
    /\ \E pc \in {"walk", "failed"} : jobs' = [jobs EXCEPT ![j].pc = pc]
    /\ UNCHANGED <<webState, davState, keyState, handles, mu, req, left>>

ImportEntryUnasked(j) ==
    /\ jobs[j].pc = "walk"
    /\ IF jobs[j].files = 0 THEN jobs' = [jobs EXCEPT ![j].pc = "completed"]
       ELSE \E pc \in {"walk", "put"} :
               jobs' = [jobs EXCEPT ![j].pc = pc, ![j].files = @ - 1]
    /\ UNCHANGED <<webState, davState, keyState, handles, mu, req, left>>

\* The walk: every entry first asks whether the job was cancelled; it may be
\* skipped or put.
ImportEntry(j) ==
    /\ jobs[j].pc = "walk"
    /\ IF jobs[j].files = 0 THEN jobs' = [jobs EXCEPT ![j].pc = "completed"]
       ELSE IF jobs[j].cancelled THEN jobs' = [jobs EXCEPT ![j].pc = "cancelled"]
       ELSE \E pc \in {"walk", "put"} :
               jobs' = [jobs EXCEPT ![j].pc = pc, ![j].files = @ - 1]
    /\ UNCHANGED <<webState, davState, keyState, handles, mu, req, left>>

\* The put that is under way is finished whatever happens.
ImportPut(j) ==
    /\ jobs[j].pc = "put"
    /\ jobs' = [jobs EXCEPT ![j].pc = "walk", ![j].after = IF jobs[j].cancelled THEN @ + 1 ELSE @]
    /\ UNCHANGED <<webState, davState, keyState, handles, mu, req, left>>

-----------------------------------------------------------------------------
Requests(s) ==
    \/ \E p \in Paths : \/ handleOpen(s, p) \/ handleInit(s, p) \/ handleSetupRun(s, p)
                        \/ vaultForVerify(s, p) \/ cmdPasswordChange(s, p) \/ cmdRecoveryRevoke(s, p)
    \/ \E p, q \in Paths : MoveFolder(s, p, q)
    \/ handleClose(s) \/ ResetRotates(s) \/ handlePasswordChange(s)
    \/ handleFiles(s) \/ handleDownload(s) \/ handleExport(s) \/ handleExportZipDownload(s)
    \/ handleCompact(s) \/ handleGC(s) \/ handleRecoveryList(s)
    \/ handleUpload(s) \/ handleUploadPath(s) \/ handleFile(s)
    \/ \E tok \in 0..token : handleWebDAV(s, tok)
    \/ \E j \in DOMAIN jobs : handleLargeImportCancel(s, j)

Continues(s) ==
    \/ OpenCreated(s) \/ Adopt(s) \/ MoveDetach(s) \/ MoveReopen(s) \/ handleVerify(s)
    \/ ChangePassword(s) \/ CommitWrite(s) \/ KeyError(s) \/ CommitForgets(s) \/ RevokeRecovery(s)
    \/ LockMu(s) \/ VaultIO(s) \/ DavSweep(s)

\* Handlers written as one definition with their first and later steps.
Staged(s) ==
    \/ handleRecoveryGenerate(s) \/ handleLargeImportStart(s)
    \/ \E text \in 0..phrases : handleRecoveryCommit(s, text)
    \/ \E id \in 0..entries, confirm \in BOOLEAN : handleRecoveryRevoke(s, id, confirm)
    \/ \E p \in Paths : cmdRecoveryGenerate(s, p)
    \/ \E p \in Paths, text \in 1..phrases :
          handleRecoveryRedeem(s, p, text) \/ cmdRecoveryRedeem(s, p, text)

ImportStep(j) == ImportBegin(j) \/ ImportEntry(j) \/ ImportPut(j)

WebNext == \/ \E s \in Slots : Requests(s) \/ Continues(s) \/ Staged(s)
           \/ \E j \in DOMAIN jobs : ImportStep(j)

\* A request that was accepted goes on: goroutines are scheduled fairly.
WebFairness == \A s \in Slots : WF_webVars(req[s].pc # "free" /\ (Continues(s) \/ Staged(s)))

WebSpec == WebInit /\ [][WebNext]_webVars /\ WebFairness

-----------------------------------------------------------------------------
(* Properties. *)

\* A verify of a folder checks a handle on that folder, never the vault that
\* happened to be active (vaultForVerify's shortcut by path).
VerifiesItsTarget ==
    \A s \in Slots : req[s].pc = "verify" => handles[req[s].h].path = req[s].path

\* A /dav/ URL handed out before a close never reaches a vault opened after it.
DavTokenScope ==
    \A s \in Slots : req[s].pc = "dav" => handles[req[s].h].at <= req[s].pend.phrase

\* A /dav/ request never gets the presence sweep of another handle.
PresenceOwn ==
    \A s \in Slots : req[s].pc = "dav" => caches[req[s].arg] \subseteq {req[s].h}

\* Every recovery entry on disk is for a phrase that was typed back in full
\* before it was written (handleRecoveryCommit, recovery generate).
ReadBackFirst ==
    \A p \in Paths : \A e \in disk[p].keys : e.phrase \in typed

\* A cancelled import puts at most the file that was under way.
CancelStops == \A j \in DOMAIN jobs : jobs[j].after <= 1

\* No request waits for ever, although uploads hold s.mu over their I/O.
RequestsAnswered == \A s \in Slots : req[s].pc # "free" ~> req[s].pc = "free"

=============================================================================
