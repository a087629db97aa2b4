------------------------- MODULE ConfigFreshness_proof -------------------------
(***************************************************************************)
(* Proofs about ConfigFreshness, for any devices and processes and any     *)
(* number of config writes.                                                *)
(***************************************************************************)
EXTENDS ConfigFreshness, TLAPS

--------------------------------------------------------------------------------
(* What the operations make of a config.                                   *)

Changes == [what : {"password", "recovery", "redeem", "revoke", "seal", "unseal"}, arg : Nat]

\* Every wrap is of the password set last, and there is one where the version
\* looks for it.
Sound(c) ==
    /\ c.legacy \in {None, c.password}
    /\ c.entry \in {None, c.password}
    /\ c.version = graceVersion => c.legacy = c.password
    /\ c.version = sealedVersion => c.entry = c.password

\* Write numbers are integers, and None is none of them.
LEMMA NumberFacts ==
    /\ Numbers \subseteq Nat
    /\ \A n \in Numbers : n # None
    /\ 0 \in Numbers
    /\ MaxWrites \in Nat
BY ConfigAssumption DEF Numbers, None

\* The vault as created is sound.
LEMMA NewConfigFacts == NewConfig \in Config /\ Sound(NewConfig)
BY NumberFacts DEF NewConfig, Config, Sound, None, graceVersion, sealedVersion

\* Publishing tags the config and counts the epoch; the wraps stay as they are.
LEMMA PublishedFacts ==
    ASSUME NEW c \in Config, NEW e \in Nat, NEW ch \in SUBSET Changes, Sound(c),
           NEW next, next = [c EXCEPT !.epoch = e, !.tagged = TRUE, !.past = @ \cup ch]
    PROVE  next \in Config /\ Sound(next)
<1>1. next = [epoch |-> e, tagged |-> TRUE, version |-> c.version, mark |-> c.mark,
              legacy |-> c.legacy, entry |-> c.entry, recoveries |-> c.recoveries,
              password |-> c.password, past |-> c.past \cup ch]
  BY DEF Config
<1>2. next \in Config
  BY <1>1 DEF Config, Changes
<1>3. Sound(next)
  BY <1>1 DEF Sound
<1> QED
  BY <1>2, <1>3

\* A new password: every wrap is of it.
LEMMA RewrapFacts ==
    ASSUME NEW c \in Config, Fresh \in Numbers
    PROVE  applyPasswordRewrap(c) \in Config /\ Sound(applyPasswordRewrap(c))
<1>1. applyPasswordRewrap(c) \in Config
  BY Zenon DEF Config, applyPasswordRewrap
<1>2. /\ applyPasswordRewrap(c).legacy = Fresh
      /\ applyPasswordRewrap(c).entry = Fresh
      /\ applyPasswordRewrap(c).password = Fresh
  BY DEF Config, applyPasswordRewrap
<1> QED
  BY <1>1, <1>2 DEF Sound

\* Recovery entries come and go without touching the wraps.
LEMMA RecoveriesFacts ==
    ASSUME NEW c \in Config, Sound(c), NEW R \in SUBSET Numbers, NEW n \in Numbers
    PROVE  /\ [c EXCEPT !.recoveries = R] \in Config
           /\ Sound([c EXCEPT !.recoveries = R])
           /\ [c EXCEPT !.recoveries = R, !.mark = n] \in Config
           /\ Sound([c EXCEPT !.recoveries = R, !.mark = n])
<1>1. [c EXCEPT !.recoveries = R] =
        [epoch |-> c.epoch, tagged |-> c.tagged, version |-> c.version, mark |-> c.mark,
         legacy |-> c.legacy, entry |-> c.entry, recoveries |-> R,
         password |-> c.password, past |-> c.past]
  BY DEF Config
<1> DEFINE d == [c EXCEPT !.recoveries = R, !.mark = n]
<1>2. d \in Config
  BY Zenon DEF Config
<1>3. /\ d.legacy = c.legacy /\ d.entry = c.entry
      /\ d.password = c.password /\ d.version = c.version
  BY DEF Config
<1>4. Sound(d)
  BY <1>3 DEF Sound
<1> QED
  BY <1>1, <1>2, <1>4 DEF Config, Sound

\* Sealing moves the only wrap of the password into the entry.
LEMMA SealFacts ==
    ASSUME NEW c \in Config, Sound(c), c.version # sealedVersion, Fresh \in Numbers,
           NEW migrate \in BOOLEAN, migrate = (c.legacy # None /\ c.entry = None),
           NEW sealed,
           sealed = [c EXCEPT !.entry = IF migrate THEN c.legacy ELSE @,
                              !.mark = IF migrate THEN Fresh ELSE @,
                              !.legacy = None, !.version = sealedVersion]
    PROVE  sealed \in Config /\ Sound(sealed)
<1> DEFINE e == IF migrate THEN c.legacy ELSE c.entry
           n == IF migrate THEN Fresh ELSE c.mark
<1>1. c.legacy = c.password /\ c.password \in Numbers
  BY DEF Config, Sound
<1>2. e = c.password
  BY <1>1, NumberFacts DEF Sound
<1>3. /\ e \in Numbers \cup {None} /\ n \in Numbers /\ None \in Numbers \cup {None}
      /\ sealedVersion \in {graceVersion, sealedVersion}
  BY <1>1, <1>2 DEF Config
<1>4. sealed = [c EXCEPT !.entry = e, !.mark = n, !.legacy = None, !.version = sealedVersion]
  OBVIOUS
<1> HIDE DEF e, n
<1>5. sealed \in Config
  BY <1>3, <1>4, Zenon DEF Config
<1>6. /\ sealed.legacy = None /\ sealed.entry = e /\ sealed.password = c.password
      /\ sealed.version = sealedVersion
  BY <1>4 DEF Config
<1> QED
  BY <1>2, <1>5, <1>6 DEF Sound, graceVersion, sealedVersion

\* Unsealing puts the entry's wrap back at the top level.
LEMMA UnsealFacts ==
    ASSUME NEW c \in Config, Sound(c), c.version = sealedVersion
    PROVE  Unsealed(c) \in Config /\ Sound(Unsealed(c))
<1> DEFINE l == IF c.legacy = None THEN c.entry ELSE c.legacy
<1>1. c.entry = c.password /\ l = c.password /\ c.password \in Numbers
  BY DEF Config, Sound
<1>2. l \in Numbers \cup {None} /\ graceVersion \in {graceVersion, sealedVersion}
  BY <1>1
<1>3. Unsealed(c) = [c EXCEPT !.legacy = l, !.version = graceVersion]
  BY DEF Unsealed
<1> HIDE DEF l
<1>4. Unsealed(c) \in Config
  BY <1>2, <1>3, Zenon DEF Config
<1>5. /\ Unsealed(c).legacy = l /\ Unsealed(c).entry = c.entry
      /\ Unsealed(c).password = c.password /\ Unsealed(c).version = graceVersion
  BY <1>3 DEF Config
<1> QED
  BY <1>1, <1>4, <1>5 DEF Sound, graceVersion, sealedVersion

--------------------------------------------------------------------------------
(* The inductive invariant.                                                *)

\* Every config that is read or held was written by somebody.
Known ==
    /\ NewConfig \in written
    /\ \A d \in Devices : file[d] \in written
    /\ \A s \in Procs : proc[s].config \in written

AllSound == \A c \in written : Sound(c)

\* An anchor at or above every config of O and C, with the tag of those of O at
\* its own epoch.
AnchorHolds(a, O, C) ==
    /\ \A o \in O \cup C : a.hasTag /\ a.epoch >= o.epoch
    /\ \A o \in O : o.epoch = a.epoch => a.tag = computeConfigTag(o)

\* A config that the gate lets in.
Fits(a, c) == c.epoch >= a.epoch /\ (c.epoch = a.epoch => a.tag \in {<<>>, computeConfigTag(c)})

\* The anchor of a device, and what a process has loaded of it, stand for everything
\* recorded there without overlap.
Anchored ==
    /\ anchor = [d \in Devices |-> anchor[d]]
    /\ loaded = [s \in Procs |-> loaded[s]]
    /\ \A d \in Devices : AnchorHolds(anchor[d], opened[d], changed[d])
    /\ \A s \in Procs : proc[s].stage = "save" =>
          AnchorHolds(loaded[s], opened[Home[s]], changed[Home[s]])
    /\ \A d \in Devices : \A o \in opened[d] \cup changed[d] : o.tagged

\* A process alone in its update has seen the anchor as it still is.
Alone ==
    /\ \A s \in Procs : proc[s].stage \in {"load", "save"} /\ proc[s].opening /\ s \notin overlapped
          => Fits(anchor[Home[s]], proc[s].config)
    /\ \A s \in Procs : proc[s].stage = "save" /\ s \notin overlapped => loaded[s] = anchor[Home[s]]

\* What the stage of a process says: its config is tagged when it is to be recorded,
\* and of two updates at once both are known to overlap.
Staged ==
    /\ \A s \in Procs : proc[s].stage \in {"clear", "load", "save", "published"} => proc[s].config.tagged
    /\ \A s \in Procs : proc[s].stage \in {"open", "published"} => ~proc[s].opening
    /\ \A s, t \in Procs : s # t /\ Home[s] = Home[t] /\ Updating(s) /\ Updating(t) => s \in overlapped

IInv == TypeOK /\ Known /\ AllSound /\ Anchored /\ Alone /\ Staged

\* An empty tag is the tag of no config.
LEMMA TagNotEmpty == ASSUME NEW c PROVE computeConfigTag(c) # <<>>
BY DEF computeConfigTag

\* A rise of the anchor keeps what it covers.
LEMMA RecordHolds ==
    ASSUME NEW a, a.epoch \in Nat, a.hasTag \in BOOLEAN, NEW c \in Config,
           NEW O \in SUBSET Config, NEW C \in SUBSET Config, AnchorHolds(a, O, C)
    PROVE  /\ recordAnchor(a, c).epoch \in Nat
           /\ recordAnchor(a, c).hasTag \in BOOLEAN
           /\ AnchorHolds(recordAnchor(a, c), O, C \cup {c})
           /\ Fits(a, c) => AnchorHolds(recordAnchor(a, c), O \cup {c}, C)
<1> DEFINE b == recordAnchor(a, c)
<1>1. /\ b.epoch = IF c.epoch > a.epoch THEN c.epoch ELSE a.epoch
      /\ b.hasTag = TRUE
      /\ b.tag = IF c.epoch > a.epoch \/ (c.epoch = a.epoch /\ a.tag = <<>>)
                 THEN computeConfigTag(c) ELSE a.tag
  BY DEF recordAnchor
<1>2. c.epoch \in Nat /\ \A o \in O \cup C : o.epoch \in Nat
  BY DEF Config
<1> HIDE DEF b
<1>3. b.epoch \in Nat /\ b.hasTag \in BOOLEAN /\ b.epoch >= a.epoch /\ b.epoch >= c.epoch
  <2>1. b.epoch = IF c.epoch > a.epoch THEN c.epoch ELSE a.epoch
    BY <1>1
  <2>2. b.hasTag \in BOOLEAN
    BY <1>1, Zenon
  <2> QED
    BY <1>2, <2>1, <2>2
<1>4. \A o \in O \cup C \cup {c} : b.hasTag /\ b.epoch >= o.epoch
  BY <1>1, <1>2, <1>3 DEF AnchorHolds
<1>5. ASSUME NEW o \in O, o.epoch = b.epoch
      PROVE  b.tag = computeConfigTag(o)
  <2>1. o.epoch <= a.epoch
    BY <1>2, <1>5 DEF AnchorHolds
  <2>2. o.epoch = a.epoch /\ ~(c.epoch > a.epoch)
    BY <1>1, <1>2, <1>3, <1>5, <2>1
  <2>3. a.tag = computeConfigTag(o) /\ a.tag # <<>>
    BY <1>5, <2>2, TagNotEmpty DEF AnchorHolds
  <2> QED
    BY <1>1, <2>2, <2>3
<1>6. ASSUME Fits(a, c)
      PROVE  b.tag = computeConfigTag(c)
  BY <1>1, <1>2, <1>6 DEF Fits
<1>7. AnchorHolds(b, O, C \cup {c})
  BY <1>4, <1>5 DEF AnchorHolds
<1>8. ASSUME Fits(a, c)
      PROVE  AnchorHolds(b, O \cup {c}, C)
  BY <1>4, <1>5, <1>6, <1>8 DEF AnchorHolds
<1> QED
  BY <1>3, <1>7, <1>8 DEF b

--------------------------------------------------------------------------------
(* The steps.                                                              *)

ProcType == [stage : Stages, config : Config, redeeming : Numbers \cup {None}, opening : BOOLEAN]

\* What a process holds, field by field.
LEMMA ProcFacts ==
    ASSUME TypeOK, NEW s \in Procs
    PROVE  /\ proc[s].config \in Config
           /\ proc[s].stage \in Stages /\ proc[s].opening \in BOOLEAN
           /\ proc[s].redeeming \in Numbers \cup {None}
           /\ Home[s] \in Devices
BY ConfigAssumption DEF TypeOK

\* Any rewrite of a config that keeps it sound keeps the invariant.
LEMMA RewriteStep ==
    ASSUME IInv, NEW s \in Procs, NEW m \in Config, Sound(m), NEW ch \in SUBSET Changes,
           rewriteConfig(s, m, ch)
    PROVE  IInv'
<1> DEFINE d == Home[s]
           e == proc[s].config.epoch + 1
           next == [m EXCEPT !.epoch = e, !.tagged = TRUE, !.past = @ \cup ch]
<1>1. /\ proc[s].stage = "open"
      /\ writes < MaxWrites
      /\ file' = [file EXCEPT ![d] = next]
      /\ proc' = [proc EXCEPT ![s].config = next, ![s].stage = "published"]
      /\ written' = written \cup {next}
      /\ writes' = writes + 1
      /\ UNCHANGED <<anchor, loaded, opened, changed, overlapped>>
  BY DEF rewriteConfig
<1>2. d \in Devices /\ e \in Nat
  BY ProcFacts DEF IInv, Config
<1>3. next \in Config /\ Sound(next) /\ next.tagged
  BY <1>2, PublishedFacts DEF Config
<1> HIDE DEF next, d, e
<1>4. TypeOK'
  <2>1. file' \in [Devices -> Config] /\ written' \subseteq Config
    BY <1>1, <1>2, <1>3 DEF IInv, TypeOK
  <2>2. writes' \in Numbers
    BY <1>1, NumberFacts DEF IInv, TypeOK, Numbers
  <2>3. proc' \in [Procs -> ProcType]
    <3>1. "published" \in Stages
      BY DEF Stages
    <3> QED
      BY <1>1, <1>3, <3>1, Zenon DEF IInv, TypeOK, ProcType
  <2> QED
    BY <1>1, <2>1, <2>2, <2>3 DEF IInv, TypeOK, ProcType
<1>5. Known'
  <2>1. \A x \in Devices : file'[x] \in written'
    BY <1>1 DEF IInv, TypeOK, Known
  <2>2. \A p \in Procs : proc'[p].config = proc[p].config \/ proc'[p].config = next
    BY <1>1 DEF IInv, TypeOK
  <2>3. \A p \in Procs : proc'[p].config \in written'
    <3>1. written \subseteq written' /\ next \in written'
      BY <1>1
    <3>2. \A p \in Procs : proc[p].config \in written
      BY DEF IInv, Known
    <3> QED
      BY <2>2, <3>1, <3>2, Zenon
  <2> QED
    BY <1>1, <2>1, <2>3 DEF IInv, Known
<1>6. AllSound'
  BY <1>1, <1>3 DEF IInv, AllSound
<1>7. /\ proc'[s].stage = "published" /\ proc'[s].config.tagged /\ proc'[s].opening = proc[s].opening
      /\ \A p \in Procs \ {s} : proc'[p] = proc[p]
  BY <1>1, <1>3 DEF IInv, TypeOK
<1>8. Anchored'
  BY <1>1, <1>7 DEF IInv, Anchored
<1>9. Alone'
  BY <1>1, <1>7 DEF IInv, Alone
<1>10. Staged'
  <2>1. \A p \in Procs : Updating(p)' => Updating(p)
    BY <1>7 DEF Updating
  <2> QED
    BY <1>1, <1>7, <2>1 DEF IInv, Staged
<1> QED
  BY <1>4, <1>5, <1>6, <1>8, <1>9, <1>10 DEF IInv

\* Beginning an update marks it, and those it meets.
LEMMA EnterFacts ==
    ASSUME NEW s \in Procs, Enter(s), overlapped \subseteq Procs
    PROVE  /\ overlapped \subseteq overlapped' /\ overlapped' \subseteq Procs
           /\ \A t \in Procs \ {s} : Home[t] = Home[s] /\ Updating(t)
                 => s \in overlapped' /\ t \in overlapped'
<1> DEFINE others == {t \in Procs \ {s} : Home[t] = Home[s] /\ Updating(t)}
<1>1. overlapped' = overlapped \cup others \cup IF others = {} THEN {} ELSE {s}
  BY DEF Enter
<1> QED
  BY <1>1

\* The gate lets in what fits the anchor.
LEMMA VerdictFacts ==
    ASSUME NEW a, a.epoch \in Nat, NEW c \in Config, NEW accept \in BOOLEAN
    PROVE  /\ Verdict(a, c, accept) \in {"refused", "open", "clear", "load"}
           /\ Verdict(a, c, accept) = "open" => ~c.tagged /\ ~a.hasTag
           /\ Verdict(a, c, accept) \in {"clear", "load"} => c.tagged
           /\ Verdict(a, c, accept) = "load" => Fits(a, c)
<1>1. c.epoch \in Nat /\ c.tagged \in BOOLEAN
  BY DEF Config
<1>2. CASE ~c.tagged
  BY <1>2 DEF Verdict
<1>3. CASE c.tagged /\ RolledBack(a, c)
  BY <1>3 DEF Verdict
<1>4. CASE c.tagged /\ ~RolledBack(a, c) /\ Diverged(a, c)
  BY <1>4 DEF Verdict
<1>5. CASE c.tagged /\ ~RolledBack(a, c) /\ ~Diverged(a, c)
  <2>1. Verdict(a, c, accept) = "load"
    BY <1>5 DEF Verdict
  <2>2. Fits(a, c)
    BY <1>1, <1>5 DEF Fits, RolledBack, Diverged
  <2> QED
    BY <1>5, <2>1, <2>2
<1> QED
  BY <1>1, <1>2, <1>3, <1>4, <1>5

\* An open takes what the file holds and the gate lets in.
LEMMA OpenStep ==
    ASSUME IInv, NEW s \in Procs, NEW accept \in BOOLEAN,
           NEW recovery \in Numbers \cup {None}, OpenVault(s, accept, recovery)
    PROVE  IInv'
<1> DEFINE d == Home[s]
           c == file[d]
           v == Verdict(anchor[d], c, accept)
           opens == v # "open"
<1>1. /\ proc[s].stage = "closed" /\ v # "refused"
      /\ proc' = [proc EXCEPT ![s] = [stage |-> v, config |-> c, redeeming |-> recovery,
                                      opening |-> opens]]
      /\ IF v = "open" THEN UNCHANGED overlapped ELSE Enter(s)
      /\ UNCHANGED <<file, anchor, loaded, written, writes, opened, changed>>
  BY DEF OpenVault
<1>2. d \in Devices /\ c \in Config /\ c \in written /\ anchor[d].epoch \in Nat
  BY ProcFacts DEF IInv, TypeOK, Known
<1>3. /\ v \in {"open", "clear", "load"} /\ opens \in BOOLEAN
      /\ v \in {"clear", "load"} => c.tagged
      /\ v = "load" => Fits(anchor[d], c)
  BY <1>1, <1>2, VerdictFacts
<1>4. opens <=> v # "open"
  OBVIOUS
<1> HIDE DEF v, c, d, opens
<1>5. /\ proc'[s].stage = v /\ proc'[s].config = c /\ proc'[s].opening = opens
      /\ \A p \in Procs \ {s} : proc'[p] = proc[p]
  BY <1>1 DEF IInv, TypeOK
<1>6. /\ overlapped \subseteq overlapped' /\ overlapped' \subseteq Procs
      /\ v # "open" => \A t \in Procs \ {s} : Home[t] = Home[s] /\ Updating(t)
                          => s \in overlapped' /\ t \in overlapped'
  BY <1>1, EnterFacts DEF IInv, TypeOK
<1>7. TypeOK'
  <2>1. proc' \in [Procs -> ProcType]
    <3>1. v \in Stages
      BY <1>3 DEF Stages
    <3> QED
      BY <1>1, <1>2, <1>3, <3>1, Zenon DEF IInv, TypeOK, ProcType
  <2> QED
    BY <1>1, <1>6, <2>1 DEF IInv, TypeOK, ProcType
<1>8. Known'
  BY <1>1, <1>2, <1>5 DEF IInv, TypeOK, Known
<1>9. AllSound'
  BY <1>1 DEF IInv, AllSound
<1>10. Anchored'
  BY <1>1, <1>3, <1>5 DEF IInv, Anchored
<1>11. Alone'
  BY <1>1, <1>3, <1>5, <1>6 DEF IInv, Alone, d
<1>12. Staged'
  <2>1. \A p \in Procs \ {s} : Updating(p)' => Updating(p)
    BY <1>5 DEF Updating
  <2>2. Updating(s)' => v # "open"
    BY <1>5 DEF Updating
  <2>3. \A p, t \in Procs : p # t /\ Home[p] = Home[t] /\ Updating(p)' /\ Updating(t)'
           => p \in overlapped'
    BY <1>6, <2>1, <2>2 DEF IInv, Staged
  <2>4. \A p \in Procs : proc'[p].stage \in {"clear", "load", "save", "published"}
           => proc'[p].config.tagged
    BY <1>3, <1>5 DEF IInv, Staged
  <2>5. \A p \in Procs : proc'[p].stage \in {"open", "published"} => ~proc'[p].opening
    BY <1>3, <1>4, <1>5 DEF IInv, Staged
  <2> QED
    BY <2>3, <2>4, <2>5 DEF Staged
<1> QED
  BY <1>7, <1>8, <1>9, <1>10, <1>11, <1>12 DEF IInv

\* While a process updates the anchor, the others that do are marked.
LEMMA OthersOverlap ==
    ASSUME IInv, NEW s \in Procs, Updating(s)
    PROVE  /\ \A t \in Procs \ {s} : Home[t] = Home[s] /\ Updating(t) => t \in overlapped
           /\ s \notin overlapped => \A t \in Procs \ {s} : Home[t] = Home[s] => ~Updating(t)
BY DEF IInv, Staged

\* A cleared anchor is below everything, and nothing is recorded any more.
LEMMA ClearStep ==
    ASSUME IInv, NEW s \in Procs, clearAnchor(s)
    PROVE  IInv'
<1> DEFINE d == Home[s]
<1>1. /\ proc[s].stage = "clear"
      /\ anchor' = [anchor EXCEPT ![d] = NoAnchor]
      /\ opened' = [opened EXCEPT ![d] = {}]
      /\ changed' = [changed EXCEPT ![d] = {}]
      /\ proc' = [proc EXCEPT ![s].stage = "load"]
      /\ UNCHANGED <<file, loaded, written, writes, overlapped>>
  BY DEF clearAnchor
<1>2. d \in Devices /\ proc[s].config \in Config
  BY ProcFacts DEF IInv
<1>3. NoAnchor.epoch = 0 /\ NoAnchor.tag = <<>>
  BY DEF NoAnchor
<1>4. NoAnchor.hasTag \in BOOLEAN
  BY Zenon DEF NoAnchor
<1>5. Fits(NoAnchor, proc[s].config)
  BY <1>2, <1>3 DEF Fits, Config
<1>6. /\ proc'[s].stage = "load" /\ proc'[s].config = proc[s].config
      /\ proc'[s].opening = proc[s].opening
      /\ \A p \in Procs \ {s} : proc'[p] = proc[p]
  BY <1>1 DEF IInv, TypeOK
<1>7. \A t \in Procs \ {s} : Home[t] = d /\ Updating(t) => t \in overlapped
  BY <1>1, OthersOverlap DEF Updating
<1>8. \A x \in Devices :
        /\ anchor'[x] = (IF x = d THEN NoAnchor ELSE anchor[x])
        /\ opened'[x] = (IF x = d THEN {} ELSE opened[x])
        /\ changed'[x] = (IF x = d THEN {} ELSE changed[x])
  BY <1>1 DEF IInv, TypeOK, Anchored
<1>9. anchor' = [x \in Devices |-> anchor'[x]]
  BY <1>1 DEF IInv, Anchored
<1>10. \A t \in Procs : Home[t] \in Devices
  BY ConfigAssumption
<1> HIDE DEF d
<1>11. TypeOK'
  <2>1. proc' \in [Procs -> ProcType]
    <3>1. "load" \in Stages
      BY DEF Stages
    <3> QED
      BY <1>1, <3>1, Zenon DEF IInv, TypeOK, ProcType
  <2>2. opened' \in [Devices -> SUBSET Config] /\ changed' \in [Devices -> SUBSET Config]
    BY <1>1 DEF IInv, TypeOK
  <2>3. \A x \in Devices : anchor'[x].epoch \in Nat /\ anchor'[x].hasTag \in BOOLEAN
    BY <1>3, <1>4, <1>8 DEF IInv, TypeOK
  <2> QED
    BY <1>1, <2>1, <2>2, <2>3 DEF IInv, TypeOK, ProcType
<1>12. Known' /\ AllSound'
  BY <1>1, <1>6 DEF IInv, TypeOK, Known, AllSound
<1>13. Anchored'
  <2>1. \A x \in Devices : AnchorHolds(anchor'[x], opened'[x], changed'[x])
    BY <1>8 DEF IInv, Anchored, AnchorHolds
  <2>2. ASSUME NEW p \in Procs, proc'[p].stage = "save"
        PROVE  AnchorHolds(loaded'[p], opened'[Home[p]], changed'[Home[p]])
    BY <1>1, <1>6, <1>8, <1>10, <2>2 DEF IInv, Anchored, AnchorHolds
  <2>3. \A x \in Devices : \A o \in opened'[x] \cup changed'[x] : o.tagged
    BY <1>8 DEF IInv, Anchored
  <2> QED
    BY <1>1, <1>9, <2>1, <2>2, <2>3 DEF IInv, Anchored
<1>14. Alone'
  <2>1. ASSUME NEW p \in Procs, proc'[p].stage \in {"load", "save"}, proc'[p].opening, p \notin overlapped
        PROVE  Fits(anchor'[Home[p]], proc'[p].config)
    <3>1. CASE p = s
      BY <1>2, <1>5, <1>6, <1>8, <3>1 DEF d
    <3>2. CASE p # s
      <4>1. Updating(p) /\ Home[p] # d
        BY <1>6, <1>7, <2>1, <3>2 DEF Updating
      <4> QED
        BY <1>6, <1>8, <1>10, <2>1, <3>2, <4>1 DEF IInv, Alone
    <3> QED
      BY <3>1, <3>2
  <2>2. ASSUME NEW p \in Procs, proc'[p].stage = "save", p \notin overlapped
        PROVE  loaded'[p] = anchor'[Home[p]]
    <3>1. p # s /\ Updating(p) /\ proc[p].stage = "save"
      BY <1>6, <2>2 DEF Updating
    <3>2. Home[p] # d
      BY <1>7, <2>2, <3>1
    <3> QED
      BY <1>1, <1>8, <1>10, <2>2, <3>1, <3>2 DEF IInv, Alone
  <2> QED
    BY <1>1, <2>1, <2>2 DEF Alone
<1>15. Staged'
  <2>1. \A p \in Procs : Updating(p)' => Updating(p)
    BY <1>1, <1>6 DEF Updating
  <2> QED
    BY <1>1, <1>6, <2>1 DEF IInv, Staged
<1> QED
  BY <1>11, <1>12, <1>13, <1>14, <1>15 DEF IInv

\* What a process loads is the anchor.
LEMMA LoadStep ==
    ASSUME IInv, NEW s \in Procs, LoadAnchor(s)
    PROVE  IInv'
<1> DEFINE d == Home[s]
<1>1. /\ proc[s].stage \in {"load", "published"}
      /\ loaded' = [loaded EXCEPT ![s] = anchor[d]]
      /\ proc' = [proc EXCEPT ![s].stage = "save"]
      /\ IF proc[s].stage = "published" THEN Enter(s) ELSE UNCHANGED overlapped
      /\ UNCHANGED <<file, anchor, written, writes, opened, changed>>
  BY DEF LoadAnchor
<1>2. d \in Devices
  BY ProcFacts DEF IInv
<1>3. /\ proc'[s].stage = "save" /\ proc'[s].config = proc[s].config
      /\ proc'[s].opening = proc[s].opening
      /\ \A p \in Procs \ {s} : proc'[p] = proc[p]
  BY <1>1 DEF IInv, TypeOK
<1>4. /\ overlapped \subseteq overlapped' /\ overlapped' \subseteq Procs
      /\ proc[s].stage = "published" =>
            \A t \in Procs \ {s} : Home[t] = Home[s] /\ Updating(t) => s \in overlapped' /\ t \in overlapped'
  BY <1>1, EnterFacts DEF IInv, TypeOK
<1>5. \A p \in Procs : loaded'[p] = IF p = s THEN anchor[d] ELSE loaded[p]
  BY <1>1 DEF IInv, Anchored
<1>6. loaded' = [p \in Procs |-> loaded'[p]]
  BY <1>1 DEF IInv, Anchored
<1>7. TypeOK'
  <2>1. proc' \in [Procs -> ProcType]
    <3>1. "save" \in Stages
      BY DEF Stages
    <3> QED
      BY <1>1, <3>1, Zenon DEF IInv, TypeOK, ProcType
  <2>2. \A p \in Procs : loaded'[p].epoch \in Nat /\ loaded'[p].hasTag \in BOOLEAN
    BY <1>2, <1>5 DEF IInv, TypeOK
  <2> QED
    BY <1>1, <1>4, <2>1, <2>2 DEF IInv, TypeOK, ProcType
<1>8. Known' /\ AllSound'
  BY <1>1, <1>3 DEF IInv, TypeOK, Known, AllSound
<1>9. Anchored'
  <2>1. \A p \in Procs : proc'[p].stage = "save" =>
           AnchorHolds(loaded'[p], opened[Home[p]], changed[Home[p]])
    BY <1>2, <1>3, <1>5 DEF IInv, Anchored
  <2> QED
    BY <1>1, <1>6, <2>1 DEF IInv, Anchored
<1>10. Alone'
  <2>1. ASSUME NEW p \in Procs, proc'[p].stage \in {"load", "save"}, proc'[p].opening, p \notin overlapped'
        PROVE  Fits(anchor[Home[p]], proc'[p].config)
    <3>1. p = s => proc[s].stage = "load"
      BY <1>1, <1>3, <2>1 DEF IInv, Staged
    <3> QED
      BY <1>3, <1>4, <2>1, <3>1 DEF IInv, Alone
  <2>2. \A p \in Procs : proc'[p].stage = "save" /\ p \notin overlapped' => loaded'[p] = anchor[Home[p]]
    BY <1>3, <1>4, <1>5 DEF IInv, Alone
  <2> QED
    BY <1>1, <2>1, <2>2 DEF Alone
<1>11. Staged'
  <2>1. \A p \in Procs \ {s} : Updating(p)' <=> Updating(p)
    BY <1>3 DEF Updating
  <2>2. proc[s].stage = "load" => Updating(s)
    BY DEF Updating
  <2>3. ASSUME NEW p \in Procs, NEW t \in Procs, p # t, Home[p] = Home[t], Updating(p)', Updating(t)'
        PROVE  p \in overlapped'
    <3>1. CASE p # s /\ t # s
      BY <1>4, <2>1, <2>3, <3>1 DEF IInv, Staged
    <3>2. CASE proc[s].stage = "load"
      BY <1>4, <2>1, <2>2, <2>3, <3>2 DEF IInv, Staged
    <3>3. CASE proc[s].stage = "published" /\ (p = s \/ t = s)
      BY <1>4, <2>1, <2>3, <3>3
    <3> QED
      BY <1>1, <3>1, <3>2, <3>3
  <2>4. \A p \in Procs : proc'[p].stage \in {"clear", "load", "save", "published"}
           => proc'[p].config.tagged
    BY <1>1, <1>3 DEF IInv, Staged
  <2>5. \A p \in Procs : proc'[p].stage \in {"open", "published"} => ~proc'[p].opening
    BY <1>3 DEF IInv, Staged
  <2> QED
    BY <2>3, <2>4, <2>5 DEF Staged
<1> QED
  BY <1>7, <1>8, <1>9, <1>10, <1>11 DEF IInv

\* What is saved stands for what was loaded and, if nobody was in the way, for the
\* config recorded.
LEMMA SaveStep ==
    ASSUME IInv, NEW s \in Procs, SaveAnchor(s)
    PROVE  IInv'
<1> DEFINE d == Home[s]
           c == proc[s].config
           next == recordAnchor(loaded[s], c)
           new == IF s \in overlapped THEN {} ELSE {c}
           a == IF next = loaded[s] THEN anchor[d] ELSE next
           O == IF proc[s].opening THEN opened[d] \cup new ELSE opened[d]
           C == IF proc[s].opening THEN changed[d] ELSE changed[d] \cup new
<1>1. /\ proc[s].stage = "save"
      /\ anchor' = [anchor EXCEPT ![d] = a]
      /\ opened' = [opened EXCEPT ![d] = O]
      /\ changed' = [changed EXCEPT ![d] = C]
      /\ proc' = [proc EXCEPT ![s].stage = "open", ![s].opening = FALSE]
      /\ loaded' = [loaded EXCEPT ![s] = NoAnchor]
      /\ overlapped' = overlapped \ {s}
      /\ UNCHANGED <<file, written, writes>>
  BY DEF SaveAnchor
<1>2. /\ d \in Devices /\ c \in Config /\ c.tagged
      /\ opened[d] \in SUBSET Config /\ changed[d] \in SUBSET Config
      /\ loaded[s].epoch \in Nat /\ loaded[s].hasTag \in BOOLEAN
      /\ anchor[d].epoch \in Nat /\ anchor[d].hasTag \in BOOLEAN
      /\ AnchorHolds(anchor[d], opened[d], changed[d])
      /\ AnchorHolds(loaded[s], opened[d], changed[d])
      /\ s \notin overlapped => loaded[s] = anchor[d]
      /\ s \notin overlapped /\ proc[s].opening => Fits(loaded[s], c)
  BY <1>1, ProcFacts DEF IInv, TypeOK, Anchored, Alone, Staged
<1>3. /\ next.epoch \in Nat /\ next.hasTag \in BOOLEAN
      /\ AnchorHolds(next, opened[d], changed[d] \cup {c})
      /\ Fits(loaded[s], c) => AnchorHolds(next, opened[d] \cup {c}, changed[d])
  <2> HIDE DEF c, d
  <2> QED
    BY <1>2, RecordHolds, Zenon
<1> HIDE DEF next, c, d
<1>4. a.epoch \in Nat /\ a.hasTag \in BOOLEAN
  <2>1. CASE next = loaded[s]
    BY <1>2, <2>1
  <2>2. CASE next # loaded[s]
    BY <1>3, <2>2
  <2> QED
    BY <2>1, <2>2
<1>5. AnchorHolds(next, opened[d], changed[d])
  BY <1>3 DEF AnchorHolds
<1>6. AnchorHolds(a, O, C)
  <2>1. CASE s \in overlapped
    <3>1. O = opened[d] /\ C = changed[d]
      BY <2>1
    <3> QED
      BY <1>2, <1>5, <3>1
  <2>2. CASE s \notin overlapped /\ proc[s].opening
    <3>1. O = opened[d] \cup {c} /\ C = changed[d] /\ a = next
      BY <1>2, <2>2
    <3> QED
      BY <1>2, <1>3, <2>2, <3>1
  <2>3. CASE s \notin overlapped /\ ~proc[s].opening
    <3>1. O = opened[d] /\ C = changed[d] \cup {c} /\ a = next
      BY <1>2, <2>3
    <3> QED
      BY <1>3, <3>1
  <2> QED
    BY <2>1, <2>2, <2>3
<1>7. O \in SUBSET Config /\ C \in SUBSET Config
  BY <1>2
<1>8. /\ O \cup C \subseteq opened[d] \cup changed[d] \cup {c}
      /\ s \in overlapped => O = opened[d] /\ C = changed[d]
  OBVIOUS
<1> HIDE DEF O, C, a, new
<1>9. /\ proc'[s].stage = "open" /\ proc'[s].config = proc[s].config /\ proc'[s].opening = FALSE
      /\ \A p \in Procs \ {s} : proc'[p] = proc[p]
  BY <1>1 DEF IInv, TypeOK
<1>10. \A x \in Devices :
         /\ anchor'[x] = (IF x = d THEN a ELSE anchor[x])
         /\ opened'[x] = (IF x = d THEN O ELSE opened[x])
         /\ changed'[x] = (IF x = d THEN C ELSE changed[x])
  BY <1>1 DEF IInv, TypeOK, Anchored
<1>11. /\ anchor' = [x \in Devices |-> anchor'[x]]
       /\ loaded' = [p \in Procs |-> loaded'[p]]
       /\ \A p \in Procs : loaded'[p] = IF p = s THEN NoAnchor ELSE loaded[p]
  BY <1>1 DEF IInv, Anchored
<1>12. \A t \in Procs : Home[t] \in Devices
  BY ConfigAssumption
<1>13. /\ \A t \in Procs \ {s} : Home[t] = d /\ Updating(t) => t \in overlapped
       /\ s \notin overlapped => \A t \in Procs \ {s} : Home[t] = d => ~Updating(t)
  BY <1>1, OthersOverlap DEF Updating, d
<1>14. TypeOK'
  <2>1. proc' \in [Procs -> ProcType]
    <3>1. "open" \in Stages /\ FALSE \in BOOLEAN
      BY DEF Stages
    <3> QED
      BY <1>1, <3>1, Zenon DEF IInv, TypeOK, ProcType
  <2>2. opened' \in [Devices -> SUBSET Config] /\ changed' \in [Devices -> SUBSET Config]
    BY <1>1, <1>7 DEF IInv, TypeOK
  <2>3. \A x \in Devices : anchor'[x].epoch \in Nat /\ anchor'[x].hasTag \in BOOLEAN
    BY <1>4, <1>10 DEF IInv, TypeOK
  <2>4. NoAnchor.epoch = 0 /\ NoAnchor.hasTag \in BOOLEAN
    BY Zenon DEF NoAnchor
  <2>5. \A p \in Procs : loaded'[p].epoch \in Nat /\ loaded'[p].hasTag \in BOOLEAN
    BY <1>11, <2>4 DEF IInv, TypeOK
  <2> QED
    BY <1>1, <2>1, <2>2, <2>3, <2>5 DEF IInv, TypeOK, ProcType
<1>15. Known' /\ AllSound'
  BY <1>1, <1>9 DEF IInv, TypeOK, Known, AllSound
<1>16. Anchored'
  <2>1. \A x \in Devices : AnchorHolds(anchor'[x], opened'[x], changed'[x])
    BY <1>6, <1>10 DEF IInv, Anchored
  <2>2. ASSUME NEW p \in Procs, proc'[p].stage = "save"
        PROVE  AnchorHolds(loaded'[p], opened'[Home[p]], changed'[Home[p]])
    <3>1. p # s /\ proc[p].stage = "save" /\ Updating(p)
      BY <1>9, <2>2 DEF Updating
    <3>2. Home[p] = d => O = opened[d] /\ C = changed[d]
      BY <1>8, <1>13, <3>1
    <3> QED
      BY <1>10, <1>11, <1>12, <3>1, <3>2 DEF IInv, Anchored
  <2>3. \A x \in Devices : \A o \in opened'[x] \cup changed'[x] : o.tagged
    BY <1>2, <1>8, <1>10 DEF IInv, Anchored
  <2> QED
    BY <1>11, <2>1, <2>2, <2>3 DEF Anchored
<1>17. Alone'
  <2>1. ASSUME NEW p \in Procs, proc'[p].stage \in {"load", "save"}, p \notin overlapped'
        PROVE  p # s /\ p \notin overlapped /\ proc'[p] = proc[p] /\ Home[p] # d
    BY <1>1, <1>9, <1>13, <2>1 DEF Updating
  <2>2. \A p \in Procs : proc'[p].stage \in {"load", "save"} /\ proc'[p].opening /\ p \notin overlapped'
           => Fits(anchor'[Home[p]], proc'[p].config)
    BY <1>10, <1>12, <2>1 DEF IInv, Alone
  <2>3. \A p \in Procs : proc'[p].stage = "save" /\ p \notin overlapped'
           => loaded'[p] = anchor'[Home[p]]
    BY <1>10, <1>11, <1>12, <2>1 DEF IInv, Alone
  <2> QED
    BY <2>2, <2>3 DEF Alone
<1>18. Staged'
  <2>1. ~Updating(s)' /\ \A p \in Procs : Updating(p)' => Updating(p)
    BY <1>9 DEF Updating
  <2> QED
    BY <1>1, <1>9, <2>1 DEF IInv, Staged
<1> QED
  BY <1>14, <1>15, <1>16, <1>17, <1>18 DEF IInv

\* A process that ends leaves no trace but what it wrote.
LEMMA CloseStep ==
    ASSUME IInv, NEW s \in Procs, Close(s)
    PROVE  IInv'
<1>1. /\ proc' = [proc EXCEPT ![s] = Closed]
      /\ loaded' = [loaded EXCEPT ![s] = NoAnchor]
      /\ overlapped' = overlapped \ {s}
      /\ UNCHANGED <<file, anchor, written, writes, opened, changed>>
  BY DEF Close
<1>2. /\ Closed \in ProcType /\ Closed.config = NewConfig /\ Closed.stage = "closed"
      /\ NoAnchor.epoch = 0
  BY NewConfigFacts DEF Closed, ProcType, Stages, NoAnchor
<1>3. NoAnchor.hasTag \in BOOLEAN
  BY Zenon DEF NoAnchor
<1>4. /\ proc'[s] = Closed /\ loaded' = [p \in Procs |-> loaded'[p]]
      /\ \A p \in Procs \ {s} : proc'[p] = proc[p] /\ loaded'[p] = loaded[p]
      /\ loaded'[s] = NoAnchor
  BY <1>1 DEF IInv, TypeOK, Anchored
<1> HIDE DEF Closed
<1>5. TypeOK'
  BY <1>1, <1>2, <1>3, <1>4 DEF IInv, TypeOK, ProcType
<1>6. Known' /\ AllSound'
  BY <1>1, <1>2, <1>4 DEF IInv, Known, AllSound
<1>7. Anchored'
  BY <1>1, <1>2, <1>4 DEF IInv, Anchored
<1>8. Alone'
  BY <1>1, <1>2, <1>4 DEF IInv, Alone
<1>9. Staged'
  <2>1. ~Updating(s)' /\ \A p \in Procs \ {s} : Updating(p)' => Updating(p)
    BY <1>2, <1>4 DEF Updating
  <2> QED
    BY <1>1, <1>2, <1>4, <2>1 DEF IInv, Staged
<1> QED
  BY <1>5, <1>6, <1>7, <1>8, <1>9 DEF IInv

\* A delivery touches the file alone.
LEMMA DeliverStep ==
    ASSUME IInv, NEW d \in Devices, NEW c \in written, Deliver(d, c)
    PROVE  IInv'
<1>1. /\ file' = [file EXCEPT ![d] = c]
      /\ UNCHANGED <<anchor, proc, loaded, written, writes, opened, changed, overlapped>>
  BY DEF Deliver
<1>2. TypeOK' /\ Known' /\ AllSound'
  BY <1>1 DEF IInv, TypeOK, Known, AllSound
<1>3. Anchored' /\ Alone' /\ Staged'
  BY <1>1 DEF IInv, Anchored, Alone, Staged, Updating
<1> QED
  BY <1>2, <1>3 DEF IInv

\* A new vault satisfies the invariant.
LEMMA InvInit == Init => IInv
<1> SUFFICES ASSUME Init PROVE IInv
  OBVIOUS
<1>1. Closed \in ProcType /\ Closed.config = NewConfig /\ Closed.stage = "closed"
  BY NewConfigFacts DEF Closed, ProcType, Stages
<1> HIDE DEF Closed
<1>2. NoAnchor.epoch = 0 /\ NoAnchor.hasTag \in BOOLEAN
  BY Zenon DEF NoAnchor
<1>3. TypeOK
  BY <1>1, <1>2, NewConfigFacts, NumberFacts DEF Init, TypeOK, ProcType
<1>4. Known /\ AllSound
  BY <1>1, NewConfigFacts DEF Init, Known, AllSound
<1>5. Anchored
  BY <1>1, ConfigAssumption DEF Init, Anchored, AnchorHolds
<1>6. Alone /\ Staged
  BY <1>1 DEF Init, Alone, Staged, Updating
<1> QED
  BY <1>3, <1>4, <1>5, <1>6 DEF IInv

\* Every action keeps the invariant.
LEMMA InvStep ==
    ASSUME IInv, [Next]_vars
    PROVE  IInv'
<1> DEFINE cfg(s) == proc[s].config
<1>1. ASSUME NEW s \in Procs PROVE cfg(s) \in Config /\ Sound(cfg(s)) /\ cfg(s).epoch \in Nat
  BY ProcFacts DEF IInv, Known, AllSound, Config
<1>2. ASSUME NEW s \in Procs, NEW m, NEW ch, rewriteConfig(s, m, ch)
      PROVE  Fresh \in Numbers /\ Fresh \in Nat
  BY <1>2, NumberFacts DEF rewriteConfig, Fresh, Numbers, IInv, TypeOK
<1>3. ASSUME NEW s \in Procs, NEW accept \in BOOLEAN, Open(s, accept) PROVE IInv'
  BY <1>3, OpenStep DEF Open
<1>4. ASSUME NEW s \in Procs, NEW accept \in BOOLEAN, OpenWithRecovery(s, accept) PROVE IInv'
  <2>1. Home[s] \in Devices
    BY ProcFacts DEF IInv
  <2>2. file[Home[s]].recoveries \in SUBSET Numbers
    BY <2>1 DEF IInv, TypeOK, Config
  <2> QED
    BY <1>4, <2>2, OpenStep DEF OpenWithRecovery
<1>5. ASSUME NEW s \in Procs, clearAnchor(s) \/ LoadAnchor(s) \/ SaveAnchor(s) PROVE IInv'
  BY <1>5, ClearStep, LoadStep, SaveStep
<1>6. ASSUME NEW s \in Procs, Close(s) PROVE IInv'
  BY <1>6, CloseStep
<1>7. ASSUME NEW s \in Procs, EnsureConfigMAC(s) PROVE IInv'
  BY <1>1, <1>7, RewriteStep DEF EnsureConfigMAC
<1>8. ASSUME NEW s \in Procs, ChangePassword(s) PROVE IInv'
  <2>1. Fresh \in Numbers /\ Fresh \in Nat
    BY <1>2, <1>8 DEF ChangePassword
  <2>2. Change("password", Fresh) \in SUBSET Changes
    BY <2>1 DEF Change, Changes
  <2>3. applyPasswordRewrap(cfg(s)) \in Config /\ Sound(applyPasswordRewrap(cfg(s)))
    BY <1>1, <2>1, RewrapFacts
  <2> QED
    BY <1>8, <2>2, <2>3, RewriteStep DEF ChangePassword
<1>9. ASSUME NEW s \in Procs, CommitRecovery(s) PROVE IInv'
  <2>1. Fresh \in Numbers /\ Fresh \in Nat
    BY <1>2, <1>9 DEF CommitRecovery
  <2>2. Change("recovery", Fresh) \in SUBSET Changes
    BY <2>1 DEF Change, Changes
  <2> DEFINE R == cfg(s).recoveries \cup {Fresh}
             m == [cfg(s) EXCEPT !.recoveries = R, !.mark = Fresh]
  <2>3. R \in SUBSET Numbers
    BY <1>1, <2>1 DEF Config
  <2>4. m \in Config /\ Sound(m)
    BY <1>1, <2>1, <2>3, RecoveriesFacts
  <2>5. rewriteConfig(s, m, Change("recovery", Fresh))
    BY <1>9 DEF CommitRecovery
  <2> HIDE DEF m
  <2> QED
    BY <2>2, <2>4, <2>5, RewriteStep
<1>10. ASSUME NEW s \in Procs, RedeemRecovery(s) PROVE IInv'
  <2> DEFINE w == applyPasswordRewrap(cfg(s))
             R == w.recoveries \ {proc[s].redeeming}
             m == [w EXCEPT !.recoveries = R]
  <2>1. Fresh \in Numbers /\ Fresh \in Nat
    BY <1>2, <1>10 DEF RedeemRecovery
  <2>2. Change("redeem", Fresh) \in SUBSET Changes
    BY <2>1 DEF Change, Changes
  <2>3. w \in Config /\ Sound(w)
    BY <1>1, <2>1, RewrapFacts
  <2>4. rewriteConfig(s, m, Change("redeem", Fresh))
    BY <1>10 DEF RedeemRecovery
  <2> HIDE DEF w
  <2>5. R \in SUBSET Numbers
    BY <2>3 DEF Config
  <2>6. m \in Config /\ Sound(m)
    BY <2>1, <2>3, <2>5, RecoveriesFacts
  <2> HIDE DEF m
  <2> QED
    BY <2>2, <2>4, <2>6, RewriteStep
<1>11. ASSUME NEW s \in Procs, RevokeRecovery(s) PROVE IInv'
  <2>1. PICK r \in cfg(s).recoveries :
           rewriteConfig(s, [cfg(s) EXCEPT !.recoveries = @ \ {r}], Change("revoke", r))
    BY <1>11 DEF RevokeRecovery
  <2> DEFINE R == cfg(s).recoveries \ {r}
             m == [cfg(s) EXCEPT !.recoveries = R]
  <2>2. R \in SUBSET Numbers /\ r \in Nat
    BY <1>1, NumberFacts DEF Config
  <2>3. Change("revoke", r) \in SUBSET Changes
    BY <2>2 DEF Change, Changes
  <2>4. m \in Config /\ Sound(m)
    BY <1>1, <2>2, NumberFacts, RecoveriesFacts
  <2>5. rewriteConfig(s, m, Change("revoke", r))
    BY <2>1
  <2> HIDE DEF m
  <2> QED
    BY <2>3, <2>4, <2>5, RewriteStep
<1>12. ASSUME NEW s \in Procs, SealFormat(s) PROVE IInv'
  <2> DEFINE c == cfg(s)
             migrate == c.legacy # None /\ c.entry = None
             m == [c EXCEPT !.entry = IF migrate THEN c.legacy ELSE @,
                            !.mark = IF migrate THEN Fresh ELSE @,
                            !.legacy = None, !.version = sealedVersion]
  <2>1. c.version # sealedVersion /\ rewriteConfig(s, m, Change("seal", c.epoch))
    BY <1>12 DEF SealFormat
  <2>2. Fresh \in Numbers /\ migrate \in BOOLEAN
    BY <1>2, <2>1
  <2>3. Change("seal", c.epoch) \in SUBSET Changes
    BY <1>1 DEF Change, Changes
  <2>4. m \in Config /\ Sound(m)
    BY <1>1, <2>1, <2>2, SealFacts, Zenon
  <2> HIDE DEF m, c
  <2> QED
    BY <2>1, <2>3, <2>4, RewriteStep
<1>13. ASSUME NEW s \in Procs, UnsealFormat(s) PROVE IInv'
  <2>1. /\ cfg(s).version = sealedVersion
        /\ rewriteConfig(s, Unsealed(cfg(s)), Change("unseal", cfg(s).epoch))
    BY <1>13 DEF UnsealFormat
  <2>2. Change("unseal", cfg(s).epoch) \in SUBSET Changes
    BY <1>1 DEF Change, Changes
  <2>3. Unsealed(cfg(s)) \in Config /\ Sound(Unsealed(cfg(s)))
    BY <1>1, <2>1, UnsealFacts
  <2> QED
    BY <2>1, <2>2, <2>3, RewriteStep
<1>14. ASSUME NEW d \in Devices, NEW c \in written, Deliver(d, c) PROVE IInv'
  BY <1>14, DeliverStep
<1>15. CASE UNCHANGED vars
  BY <1>15 DEF vars, IInv, TypeOK, Known, AllSound, Anchored, Alone, Staged, Updating
<1> QED
  BY <1>3, <1>4, <1>5, <1>6, <1>7, <1>8, <1>9, <1>10, <1>11, <1>12, <1>13, <1>14, <1>15
     DEF Next

\* The invariant holds throughout.
LEMMA Invariant == Spec => []IInv
BY InvInit, InvStep, PTL DEF Spec

--------------------------------------------------------------------------------
(* The theorems.                                                           *)

\* Configs, anchors and processes keep their types through every sequence of opens,
\* rewrites, seals, unseals and deliveries.
THEOREM ConfigTypeCorrect == Spec => []TypeOK
<1>1. IInv => TypeOK
  BY DEF IInv
<1> QED
  BY <1>1, Invariant, PTL

\* Whatever rotations, redemptions, seals and unseals are done by whichever processes,
\* from whatever delivered config, every config written opens with the password set
\* last and with no other (rotation.go: applyPasswordRewrap; seal.go).
THEOREM OnePasswordOpens == Spec => []OnePassword
<1>1. ASSUME IInv PROVE OnePassword
  <2> SUFFICES ASSUME NEW c \in written
               PROVE  /\ Passwords(c) = {c.password}
                      /\ c.version = graceVersion => LegacyPasswords(c) = {c.password}
    BY DEF OnePassword
  <2>1. c \in Config /\ Sound(c)
    BY <1>1 DEF IInv, TypeOK, AllSound
  <2>2. c.version \in {graceVersion, sealedVersion} /\ c.password # None
    BY <2>1, NumberFacts DEF Config
  <2> QED
    BY <2>1, <2>2 DEF Sound, Passwords, LegacyPasswords
<1> QED
  BY <1>1, Invariant, PTL

\* What a step that lets an open of s in must respect.
OpenAgrees(s) ==
    LET c == proc'[s].config
        d == Home[s]
    IN  proc[s].stage = "closed" /\ proc'[s].stage \in {"load", "open"} =>
            /\ \A o \in opened[d] \cup changed[d] : c.tagged /\ c.epoch >= o.epoch
            /\ \A o \in opened[d] : c.epoch = o.epoch => computeConfigTag(c) = computeConfigTag(o)

\* An open is measured against the anchor, and the anchor stands for all that was
\* recorded before.
LEMMA OpenRespects ==
    ASSUME IInv, NEW s \in Procs, NEW accept \in BOOLEAN, NEW recovery,
           OpenVault(s, accept, recovery)
    PROVE  OpenAgrees(s)
<1> DEFINE d == Home[s]
           c == file[d]
           a == anchor[d]
           v == Verdict(a, c, accept)
<1>1. d \in Devices /\ c \in Config /\ a.epoch \in Nat
      /\ opened[d] \in SUBSET Config /\ changed[d] \in SUBSET Config
      /\ AnchorHolds(a, opened[d], changed[d])
  BY ProcFacts DEF IInv, TypeOK, Anchored
<1>2. proc'[s].config = c /\ proc'[s].stage = v
  BY DEF OpenVault, IInv, TypeOK
<1>3. /\ v = "open" => ~c.tagged /\ ~a.hasTag
      /\ v \in {"clear", "load"} => c.tagged
      /\ v = "load" => Fits(a, c)
  BY <1>1, VerdictFacts
<1> HIDE DEF c, a, d, v
<1>4. CASE v = "load"
  <2>1. c.tagged /\ c.epoch >= a.epoch /\ c.epoch \in Nat
    BY <1>1, <1>3, <1>4 DEF Fits, Config
  <2>2. \A o \in opened[d] \cup changed[d] : o.epoch <= a.epoch /\ o.epoch \in Nat
    BY <1>1 DEF AnchorHolds, Config
  <2>3. ASSUME NEW o \in opened[d], c.epoch = o.epoch
        PROVE  computeConfigTag(c) = computeConfigTag(o)
    <3>1. c.epoch = a.epoch /\ o.epoch = a.epoch
      BY <1>1, <2>1, <2>2, <2>3
    <3>2. a.tag = computeConfigTag(o) /\ a.tag # <<>>
      BY <1>1, <2>3, <3>1, TagNotEmpty DEF AnchorHolds
    <3> QED
      BY <1>3, <1>4, <3>1, <3>2 DEF Fits
  <2>4. \A o \in opened[d] \cup changed[d] : c.tagged /\ c.epoch >= o.epoch
    BY <1>1, <2>1, <2>2
  <2> QED
    BY <1>2, <2>3, <2>4 DEF OpenAgrees, d
<1>5. CASE v = "open"
  <2>1. opened[d] \cup changed[d] = {}
    BY <1>1, <1>3, <1>5 DEF AnchorHolds
  <2> QED
    BY <2>1 DEF OpenAgrees, d
<1>6. CASE v \notin {"load", "open"}
  BY <1>2, <1>6 DEF OpenAgrees
<1> QED
  BY <1>4, <1>5, <1>6

\* A rewrite opens no vault.
LEMMA RewriteOpensNone ==
    ASSUME IInv, NEW r \in Procs, NEW m, NEW ch, rewriteConfig(r, m, ch), NEW s \in Procs
    PROVE  OpenAgrees(s)
<1> DEFINE next == [m EXCEPT !.epoch = proc[r].config.epoch + 1, !.tagged = TRUE,
                             !.past = @ \cup ch]
<1>1. proc' = [proc EXCEPT ![r].config = next, ![r].stage = "published"]
  BY DEF rewriteConfig
<1> HIDE DEF next
<1>2. proc'[s].stage = proc[s].stage \/ proc'[s].stage = "published"
  BY <1>1 DEF IInv, TypeOK
<1> QED
  BY <1>2 DEF OpenAgrees

\* An open of one process opens no other.
LEMMA OpenOpensOne ==
    ASSUME IInv, NEW r \in Procs, NEW accept \in BOOLEAN, NEW recovery,
           OpenVault(r, accept, recovery), NEW s \in Procs
    PROVE  OpenAgrees(s)
<1>1. CASE s = r
  BY <1>1, OpenRespects
<1>2. CASE s # r
  <2>1. proc'[s] = proc[s]
    BY <1>2 DEF OpenVault, IInv, TypeOK
  <2> QED
    BY <2>1 DEF OpenAgrees
<1> QED
  BY <1>1, <1>2

\* Every step respects what was recorded before.
LEMMA AgreeStep ==
    ASSUME IInv, [Next]_vars, NEW s \in Procs
    PROVE  OpenAgrees(s)
<1>1. ASSUME NEW r \in Procs, NEW accept \in BOOLEAN, Open(r, accept) PROVE OpenAgrees(s)
  BY <1>1, OpenOpensOne DEF Open
<1>2. ASSUME NEW r \in Procs, NEW accept \in BOOLEAN, OpenWithRecovery(r, accept)
      PROVE  OpenAgrees(s)
  BY <1>2, OpenOpensOne DEF OpenWithRecovery
<1>3. ASSUME proc[s].stage = "closed" => proc'[s].stage = "closed" PROVE OpenAgrees(s)
  BY <1>3 DEF OpenAgrees
<1>4. ASSUME NEW r \in Procs, clearAnchor(r) \/ LoadAnchor(r) \/ SaveAnchor(r)
      PROVE  OpenAgrees(s)
  <2>1. proc[s].stage = "closed" => proc'[s].stage = "closed"
    BY <1>4 DEF clearAnchor, LoadAnchor, SaveAnchor, IInv, TypeOK
  <2> QED
    BY <1>3, <2>1
<1>5. ASSUME NEW r \in Procs, Close(r) PROVE OpenAgrees(s)
  <2>1. proc[s].stage = "closed" => proc'[s].stage = "closed"
    BY <1>5 DEF Close, Closed, IInv, TypeOK
  <2> QED
    BY <1>3, <2>1
<1>6. ASSUME NEW r \in Procs,
             \/ EnsureConfigMAC(r) \/ ChangePassword(r) \/ CommitRecovery(r)
             \/ RedeemRecovery(r) \/ RevokeRecovery(r) \/ SealFormat(r) \/ UnsealFormat(r)
      PROVE  OpenAgrees(s)
  <2>1. \E m, ch : rewriteConfig(r, m, ch)
    BY <1>6, Zenon DEF EnsureConfigMAC, ChangePassword, CommitRecovery, RedeemRecovery,
                       RevokeRecovery, SealFormat, UnsealFormat
  <2> QED
    BY <2>1, RewriteOpensNone
<1>7. ASSUME NEW d \in Devices, NEW c \in written, Deliver(d, c) PROVE OpenAgrees(s)
  BY <1>3, <1>7 DEF Deliver
<1>8. CASE UNCHANGED vars
  BY <1>3, <1>8 DEF vars
<1> QED
  BY <1>1, <1>2, <1>4, <1>5, <1>6, <1>7, <1>8 DEF Next

\* Unless the operator accepts a rollback, no open on a device goes back behind what was
\* recorded there without overlap, however many processes mix, wherever one
\* stops and whatever configs are put back (configmac.go: checkFreshness; anchor.go).
THEOREM OpensNeverGoBack == Spec => OpensAgree
<1>1. ASSUME IInv, [Next]_vars PROVE [\A s \in Procs : OpenAgrees(s)]_vars
  BY <1>1, AgreeStep
<1>2. Spec => [][\A s \in Procs : OpenAgrees(s)]_vars
  BY <1>1, Invariant, PTL DEF Spec
<1> QED
  BY <1>2 DEF OpensAgree, OpenAgrees

================================================================================
