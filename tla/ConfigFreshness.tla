---------------------------- MODULE ConfigFreshness ----------------------------
(***************************************************************************)
(* vault.json: its integrity tag, the device-local freshness anchor, and   *)
(* the operations that rewrite it (internal/vault: configmac.go,           *)
(* anchor.go, rotation.go, seal.go and the open paths of vault.go).        *)
(*                                                                         *)
(* Several processes on several devices hold the vault open, each with the *)
(* config it read; the file of a device may at any time be replaced by any *)
(* config ever written (a sync client, a restored backup).  A config is    *)
(* published before the anchor advances, and the process may stop between. *)
(* The anchor is a file as well: it is checked, cleared, loaded and saved  *)
(* in steps of their own, and no lock keeps two processes apart.           *)
(* The anchors can be read and written (an unusable app-data directory     *)
(* turns the freshness checks off, with a note).                           *)
(*                                                                         *)
(* A wrap is known by the password that opens it, a recovery entry by the  *)
(* secret it was minted with; both are numbered by the write that made     *)
(* them, 0 for the password of the new vault.  A tag verifies exactly for  *)
(* the values it was computed over, so it is those values.                 *)
(***************************************************************************)
EXTENDS Integers, FiniteSets

CONSTANTS
    Devices,
    Procs,       \* processes that use the vault
    Home,        \* the device of each
    MaxWrites    \* config writes in a behaviour

ASSUME ConfigAssumption ==
    /\ Home \in [Procs -> Devices]
    /\ MaxWrites \in Nat

VARIABLES
    file,      \* file[d]: vault.json on device d
    anchor,    \* anchor[d]: its freshness anchor
    proc,      \* proc[s]: the vault of process s
    loaded,    \* loaded[s]: the anchor s has read and is about to save
    written,   \* every config ever written
    writes,    \* how many
    opened,    \* history: the tagged configs whose opening, and
    changed,   \*   those whose writing, was recorded on d without overlap since the
               \*   last accepted rollback
    overlapped \* history: processes whose update of the anchor met another one

vars == <<file, anchor, proc, loaded, written, writes, opened, changed, overlapped>>

None == -1

graceVersion == 2
sealedVersion == 3

Numbers == 0 .. MaxWrites

\* VaultConfig.  `mark' is the last write that drew a fresh salt, nonce or entry id;
\* `legacy' is the top-level wrap, `entry' the password WrapEntry.  History, not
\* in the file: the password last set and the changes made on the way here.
Config == [epoch : Nat, tagged : BOOLEAN, version : {graceVersion, sealedVersion},
           mark : Numbers, legacy : Numbers \cup {None}, entry : Numbers \cup {None},
           recoveries : SUBSET Numbers, password : Numbers,
           past : SUBSET [what : {"password", "recovery", "redeem", "revoke", "seal", "unseal"},
                          arg : Nat]]

\* CreateWithOptions.
NewConfig == [epoch |-> 0, tagged |-> FALSE, version |-> graceVersion, mark |-> 0,
              legacy |-> 0, entry |-> None, recoveries |-> {}, password |-> 0, past |-> {}]

\* computeConfigTag: the MAC over every field of the file.
computeConfigTag(c) ==
    <<c.epoch, c.version, c.mark, c.legacy, c.entry, c.recoveries>>

\* unlockWith: the passwords that open a config, the password entries first and
\* the legacy wrap when there is one.
Passwords(c) == ({c.entry} \cup {c.legacy}) \ {None}

\* A 0.16 client opens version 2 alone, through the legacy wrap.
LegacyPasswords(c) == IF c.version = graceVersion THEN {c.legacy} \ {None} ELSE {}

--------------------------------------------------------------------------------
(* The anchor.                                                             *)

NoAnchor == [epoch |-> 0, hasTag |-> FALSE, tag |-> <<>>]

\* Mutant of recordAnchor: the tag at the high-water is not kept.
recordAnchorUntied(a, c) ==
    [epoch |-> IF c.epoch > a.epoch THEN c.epoch ELSE a.epoch, hasTag |-> TRUE, tag |-> <<>>]

\* recordAnchor, always of a tagged config: the epoch only rises, and the tag is the
\* one first seen at that epoch.
recordAnchor(a, c) ==
    [epoch  |-> IF c.epoch > a.epoch THEN c.epoch ELSE a.epoch,
     hasTag |-> TRUE,
     tag    |-> IF c.epoch > a.epoch \/ (c.epoch = a.epoch /\ a.tag = <<>>)
                THEN computeConfigTag(c) ELSE a.tag]

RolledBack(a, c) == c.epoch < a.epoch

Diverged(a, c) == c.epoch = a.epoch /\ a.tag # <<>> /\ computeConfigTag(c) # a.tag

\* checkConfigIntegrity and checkFreshness: what becomes of an open of config c?
Verdict(a, c, accept) ==
    CASE ~c.tagged                        -> IF a.hasTag THEN "refused" ELSE "open"
      [] c.tagged /\ RolledBack(a, c)     -> IF accept THEN "clear" ELSE "refused"
      [] c.tagged /\ Diverged(a, c)       -> "refused"
      [] OTHER                            -> "load"

--------------------------------------------------------------------------------
\* "clear", "load" and "save": the anchor is about to be removed, loaded and saved;
\* "published": a rewritten config is in the file.
Stages == {"closed", "clear", "load", "save", "open", "published"}

Closed == [stage |-> "closed", config |-> NewConfig, redeeming |-> None, opening |-> FALSE]

Init ==
    /\ file = [d \in Devices |-> NewConfig]
    /\ anchor = [d \in Devices |-> NoAnchor]
    /\ proc = [s \in Procs |-> Closed]
    /\ loaded = [s \in Procs |-> NoAnchor]
    /\ written = {NewConfig}
    /\ writes = 0
    /\ opened = [d \in Devices |-> {}]
    /\ changed = [d \in Devices |-> {}]
    /\ overlapped = {}

\* Between the first look at the anchor and its saving.
Updating(s) == proc[s].stage \in {"clear", "load", "save"}

\* Process s begins an update of the anchor.
Enter(s) ==
    LET others == {t \in Procs \ {s} : Home[t] = Home[s] /\ Updating(t)}
    IN  overlapped' = overlapped \cup others \cup IF others = {} THEN {} ELSE {s}

\* OpenWithOptions and OpenWithRecovery: the config is read, the key unwrapped and the
\* gate of checkConfigIntegrity looks at the anchor; the recovery entry that opened
\* the vault is remembered for RedeemRecovery.  (One step: what the file held
\* when it was read, a delivery can put there when the anchor is looked at.)
OpenVault(s, accept, recovery) ==
    LET d       == Home[s]
        c       == file[d]
        verdict == Verdict(anchor[d], c, accept)
    IN  /\ proc[s].stage = "closed"
        /\ verdict # "refused"
        /\ proc' = [proc EXCEPT ![s] = [stage |-> verdict, config |-> c, redeeming |-> recovery,
                                        opening |-> verdict # "open"]]
        /\ IF verdict = "open" THEN UNCHANGED overlapped ELSE Enter(s)
        /\ UNCHANGED <<file, anchor, loaded, written, writes, opened, changed>>

Open(s, accept) ==
    /\ Passwords(file[Home[s]]) # {}
    /\ OpenVault(s, accept, None)

OpenWithRecovery(s, accept) ==
    \E r \in file[Home[s]].recoveries : OpenVault(s, accept, r)

\* clearAnchor, when the operator has accepted a rollback; the histories start afresh.
clearAnchor(s) ==
    LET d == Home[s]
    IN  /\ proc[s].stage = "clear"
        /\ anchor' = [anchor EXCEPT ![d] = NoAnchor]
        /\ opened' = [opened EXCEPT ![d] = {}]
        /\ changed' = [changed EXCEPT ![d] = {}]
        /\ proc' = [proc EXCEPT ![s].stage = "load"]
        /\ UNCHANGED <<file, loaded, written, writes, overlapped>>

\* recordAnchor loads the anchor: on the way of an open, or after a rewrite.
LoadAnchor(s) ==
    /\ proc[s].stage \in {"load", "published"}
    /\ loaded' = [loaded EXCEPT ![s] = anchor[Home[s]]]
    /\ proc' = [proc EXCEPT ![s].stage = "save"]
    /\ IF proc[s].stage = "published" THEN Enter(s) ELSE UNCHANGED overlapped
    /\ UNCHANGED <<file, anchor, written, writes, opened, changed>>

\* And saves it, if it changed what it loaded.
SaveAnchor(s) ==
    LET d    == Home[s]
        c    == proc[s].config
        next == recordAnchor(loaded[s], c)
        new  == IF s \in overlapped THEN {} ELSE {c}
    IN  /\ proc[s].stage = "save"
        /\ anchor' = [anchor EXCEPT ![d] = IF next = loaded[s] THEN @ ELSE next]
        /\ opened' = [opened EXCEPT ![d] = IF proc[s].opening THEN @ \cup new ELSE @]
        /\ changed' = [changed EXCEPT ![d] = IF proc[s].opening THEN @ ELSE @ \cup new]
        /\ proc' = [proc EXCEPT ![s].stage = "open", ![s].opening = FALSE]
        /\ loaded' = [loaded EXCEPT ![s] = NoAnchor]
        /\ overlapped' = overlapped \ {s}
        /\ UNCHANGED <<file, written, writes>>

\* The vault is closed, or its process ends, at any time: also between the two
\* writes of rewriteConfig and between the steps of the anchor.
Close(s) ==
    /\ proc[s].stage # "closed"
    /\ proc' = [proc EXCEPT ![s] = Closed]
    /\ loaded' = [loaded EXCEPT ![s] = NoAnchor]
    /\ overlapped' = overlapped \ {s}
    /\ UNCHANGED <<file, anchor, written, writes, opened, changed>>

--------------------------------------------------------------------------------
(* rewriteConfig: from the config in memory, whatever the file holds now.  *)

Change(what, arg) == {[what |-> what, arg |-> arg]}

\* The config is tagged at the next epoch and published; the anchor follows.
rewriteConfig(s, mutated, change) ==
    LET d    == Home[s]
        next == [mutated EXCEPT !.epoch = proc[s].config.epoch + 1, !.tagged = TRUE,
                                !.past = @ \cup change]
    IN  /\ proc[s].stage = "open"
        /\ writes < MaxWrites
        /\ file' = [file EXCEPT ![d] = next]
        /\ proc' = [proc EXCEPT ![s].config = next, ![s].stage = "published"]
        /\ written' = written \cup {next}
        /\ writes' = writes + 1
        /\ UNCHANGED <<anchor, loaded, opened, changed, overlapped>>

Fresh == writes + 1

\* The ratchet of a write-capable open of an untagged vault.
EnsureConfigMAC(s) ==
    /\ ~proc[s].config.tagged
    /\ rewriteConfig(s, proc[s].config, {})

\* Mutant of applyPasswordRewrap: the legacy wrap is left behind.
applyPasswordRewrapEntryOnly(c) ==
    [c EXCEPT !.entry = Fresh, !.password = Fresh, !.mark = Fresh]

\* applyPasswordRewrap: one password entry and the legacy wrap, both fresh.
applyPasswordRewrap(c) ==
    [c EXCEPT !.entry = Fresh, !.legacy = Fresh, !.password = Fresh, !.mark = Fresh]

ChangePassword(s) ==
    rewriteConfig(s, applyPasswordRewrap(proc[s].config), Change("password", Fresh))

\* The commit of PrepareRecovery.
CommitRecovery(s) ==
    rewriteConfig(s, [proc[s].config EXCEPT !.recoveries = @ \cup {Fresh}, !.mark = Fresh],
                  Change("recovery", Fresh))

RedeemRecovery(s) ==
    LET r == proc[s].redeeming
    IN  /\ r \in proc[s].config.recoveries
        /\ rewriteConfig(s, [applyPasswordRewrap(proc[s].config) EXCEPT !.recoveries = @ \ {r}],
                         Change("redeem", Fresh))

RevokeRecovery(s) ==
    \E r \in proc[s].config.recoveries :
        rewriteConfig(s, [proc[s].config EXCEPT !.recoveries = @ \ {r}], Change("revoke", r))

\* SealFormat: the legacy wrap moves into a password entry if there is none, and goes.
SealFormat(s) ==
    LET c == proc[s].config
        migrate == c.legacy # None /\ c.entry = None
    IN  /\ c.version # sealedVersion
        /\ rewriteConfig(s, [c EXCEPT !.entry = IF migrate THEN c.legacy ELSE @,
                                      !.mark = IF migrate THEN Fresh ELSE @,
                                      !.legacy = None, !.version = sealedVersion],
                         Change("seal", c.epoch))

\* Mutant of Unsealed: the version drops below the grace version.
UnsealedTooFar(c) ==
    [c EXCEPT !.legacy = IF @ = None THEN c.entry ELSE @, !.version = graceVersion - 1]

Unsealed(c) == [c EXCEPT !.legacy = IF @ = None THEN c.entry ELSE @, !.version = graceVersion]

\* UnsealFormat (no directory-ID re-key exists in this release).
UnsealFormat(s) ==
    LET c == proc[s].config
    IN  /\ c.version = sealedVersion
        /\ rewriteConfig(s, Unsealed(c), Change("unseal", c.epoch))

\* The file is replaced by another version of it.
Deliver(d, c) ==
    /\ file[d] # c
    /\ file' = [file EXCEPT ![d] = c]
    /\ UNCHANGED <<anchor, proc, loaded, written, writes, opened, changed, overlapped>>

Next ==
    \/ \E s \in Procs :
          \/ \E accept \in BOOLEAN : Open(s, accept) \/ OpenWithRecovery(s, accept)
          \/ clearAnchor(s)
          \/ LoadAnchor(s)
          \/ SaveAnchor(s)
          \/ Close(s)
          \/ EnsureConfigMAC(s)
          \/ ChangePassword(s)
          \/ CommitRecovery(s)
          \/ RedeemRecovery(s)
          \/ RevokeRecovery(s)
          \/ SealFormat(s)
          \/ UnsealFormat(s)
    \/ \E d \in Devices, c \in written : Deliver(d, c)

Spec == Init /\ [][Next]_vars

--------------------------------------------------------------------------------
TypeOK ==
    /\ file \in [Devices -> Config]
    /\ written \subseteq Config /\ writes \in Numbers
    /\ \A d \in Devices : anchor[d].epoch \in Nat /\ anchor[d].hasTag \in BOOLEAN
    /\ \A s \in Procs : loaded[s].epoch \in Nat /\ loaded[s].hasTag \in BOOLEAN
    /\ proc \in [Procs -> [stage : Stages, config : Config, redeeming : Numbers \cup {None},
                           opening : BOOLEAN]]
    /\ opened \in [Devices -> SUBSET Config] /\ changed \in [Devices -> SUBSET Config]
    /\ overlapped \subseteq Procs

\* rotation.go:80-88: every config that any sequence of rotations, redemptions, seals
\* and unseals produces opens with the password set last and with no other, and an
\* unsealed one opens with it on a 0.16 peer too.
OnePassword ==
    \A c \in written :
        /\ Passwords(c) = {c.password}
        /\ c.version = graceVersion => LegacyPasswords(c) = {c.password}

\* configmac.go:110-128: unless the operator accepts a rollback, no open is let in with
\* a config older than one opened or written on the device before, with an untagged
\* one after a tagged one, or with a different one of an epoch opened before;
\* wherever the writers stop and however two processes mix.  What two processes
\* record at the same time is not protected: the save of one may undo the other's.
OpensAgree ==
    [][\A s \in Procs :
        LET c == proc'[s].config
            d == Home[s]
        IN  proc[s].stage = "closed" /\ proc'[s].stage \in {"load", "open"} =>
                /\ \A o \in opened[d] \cup changed[d] : c.tagged /\ c.epoch >= o.epoch
                /\ \A o \in opened[d] :
                      c.epoch = o.epoch => computeConfigTag(c) = computeConfigTag(o)]_vars

\* "The high-water and HasTag are monotone -- recordAnchor never lowers the epoch nor
\* clears HasTag" (anchor.go:126-127).  Not so of two processes at once: README,
\* section 4.
AnchorMonotone ==
    [][\A s \in Procs : SaveAnchor(s) =>
           anchor'[Home[s]].epoch >= anchor[Home[s]].epoch]_vars

\* "the concurrent-divergence case is caught at the NEXT Open" (rotation.go:22-24): with
\* one process per device, a config that opens contains every change completed on
\* its device since the operator last accepted a rollback.
DivergenceCaught ==
    \A s \in Procs : proc[s].stage = "open" =>
        \A c \in changed[Home[s]] : c.past \subseteq proc[s].config.past
================================================================================
