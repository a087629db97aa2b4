-------------------------- MODULE GuiProcess_proof --------------------------
(***************************************************************************)
(* Proofs about the GUI process: about its life (GuiLifecycle), for any    *)
(* pages, graces and numbers of launches; about the certificate it serves  *)
(* (TLSServing), for any number of issuances, commands and polls; and      *)
(* about its browser sessions (WebSession), for any number of requests in  *)
(* flight and any bounds: a session that is gone stays gone, a login is    *)
(* not overwritten, and a nonce or a ticket is honoured once and never     *)
(* across a reset.                                                         *)
(***************************************************************************)
EXTENDS GuiLifecycle, TLSServing, WebSession, FiniteSetTheorems, TLAPS

-----------------------------------------------------------------------------
(* The lock and the timers. *)

\* The lock file is left behind by a crash only: every other way out of
\* cmdGUI runs RemoveLock.
THEOREM LockLeftByCrashOnly == LifeSpec => []StaleLockOnlyAfterCrash
<1>1. LifeInit => StaleLockOnlyAfterCrash
  BY DEF LifeInit, StaleLockOnlyAfterCrash
<1>2. StaleLockOnlyAfterCrash /\ [LifeNext]_lifeVars => StaleLockOnlyAfterCrash'
  BY DEF StaleLockOnlyAfterCrash, LifeNext, lifeVars, Bind, WriteLock, Serve, SecondLaunch,
         SecondRead, SecondAsk, SecondRefused, StreamOpens, StreamCloses, KeepAlive, Heartbeat,
         LifeTick, GraceFires, WatchFires, BundleGraceFires, BundleGraceExit, CloseChannel,
         Signal, Exit,
         RemoveLock, Crash, presence, Serving, Event
<1> QED
  BY <1>1, <1>2, PTL DEF LifeSpec

\* The server counts exactly the pages that are open, and while none is, it has
\* heard nothing for at most as long as they have been away.
PresenceInv ==
    /\ IsFiniteSet(open) /\ streams = Cardinality(open)
    /\ quiet \in 0..(Timeout + 1) /\ gap \in 0..(Timeout + 1)
    /\ open = {} => quiet <= gap

LEMMA FreshPresence == ASSUME NEW flag, Fresh(flag) PROVE PresenceInv'
<1>1. open' = {} /\ streams' = 0 /\ quiet' = 0 /\ gap' = 0
  BY DEF Fresh
<1>2. IsFiniteSet({}) /\ Cardinality({}) = 0
  BY FS_EmptySet
<1> QED
  BY <1>1, <1>2, LifecycleAssumption DEF PresenceInv

LEMMA PresenceStep == PresenceInv /\ [LifeNext]_lifeVars => PresenceInv'
<1> SUFFICES ASSUME PresenceInv, [LifeNext]_lifeVars PROVE PresenceInv'
  OBVIOUS
<1> USE LifecycleAssumption
<1>same. ASSUME UNCHANGED <<open, streams, quiet, gap>> PROVE PresenceInv'
  BY <1>same DEF PresenceInv
<1>1. CASE \E flag \in BOOLEAN : Bind(flag)
  BY <1>1, FreshPresence DEF Bind
<1>2. CASE Exit \/ Crash
  BY <1>2, FreshPresence DEF Exit, Crash
<1>3. ASSUME NEW p \in Pages, StreamOpens(p) PROVE PresenceInv'
  <2>1. /\ open' = open \cup {p} /\ p \notin open /\ streams' = streams + 1
        /\ quiet' = 0 /\ gap' = 0
    BY <1>3 DEF StreamOpens
  <2>2. IsFiniteSet(open') /\ Cardinality(open') = Cardinality(open) + 1
    BY <2>1, FS_AddElement DEF PresenceInv
  <2> QED
    BY <2>1, <2>2 DEF PresenceInv
<1>4. ASSUME NEW p \in Pages, StreamCloses(p) PROVE PresenceInv'
  <2>1. /\ open' = open \ {p} /\ p \in open /\ quiet' = 0 /\ gap' = 0
        /\ streams' = IF streams > 0 THEN streams - 1 ELSE streams
    BY <1>4 DEF StreamCloses
  <2>2. IsFiniteSet(open') /\ Cardinality(open') = Cardinality(open) - 1
    BY <2>1, FS_RemoveElement DEF PresenceInv
  <2>3. Cardinality(open) \in Nat /\ Cardinality(open') \in Nat
    BY <2>2, FS_CardinalityType DEF PresenceInv
  <2> QED
    BY <2>1, <2>2, <2>3 DEF PresenceInv
<1>5. CASE KeepAlive
  <2>1. open # {}
    BY <1>5, FS_EmptySet DEF KeepAlive, PresenceInv
  <2> QED
    BY <1>5, <2>1 DEF KeepAlive, PresenceInv
<1>6. CASE Heartbeat
  BY <1>6 DEF Heartbeat, PresenceInv
<1>7. CASE LifeTick
  BY <1>7 DEF LifeTick, PresenceInv, Cap
<1>8. CASE \/ WriteLock \/ Serve \/ SecondLaunch \/ SecondRead \/ SecondAsk \/ SecondRefused
           \/ GraceFires \/ WatchFires \/ BundleGraceFires \/ BundleGraceExit \/ CloseChannel
           \/ Signal \/ RemoveLock \/ UNCHANGED lifeVars
  <2>1. UNCHANGED <<open, streams, quiet, gap>>
    BY <1>8 DEF WriteLock, Serve, SecondLaunch, SecondRead, SecondAsk, SecondRefused, GraceFires,
                WatchFires, BundleGraceFires, BundleGraceExit, CloseChannel, Signal, RemoveLock,
                lifeVars, presence
  <2> QED
    BY <2>1, <1>same
<1> QED
  BY <1>1, <1>2, <1>3, <1>4, <1>5, <1>6, <1>7, <1>8 DEF LifeNext

LEMMA PresenceHolds == LifeSpec => []PresenceInv
<1>1. LifeInit => PresenceInv
  BY FS_EmptySet, LifecycleAssumption DEF LifeInit, PresenceInv
<1> QED
  BY <1>1, PresenceStep, PTL DEF LifeSpec

\* No timer decides to stop the server under an open page or before the last
\* page was away for the whole grace, whatever timers of earlier page loads
\* still run: a timer looks at the count and at the last sign of life.
THEOREM NoShutdownUnderAPage == LifeSpec => NoEarlyShutdown
<1>1. PresenceInv /\ [LifeNext]_lifeVars
        => [closing' /\ ~closing => open = {} /\ gap >= Grace]_lifeVars
  <2> SUFFICES ASSUME PresenceInv, LifeNext, closing', ~closing
               PROVE  open = {} /\ gap >= Grace
    BY DEF lifeVars
  <2>1. streams = 0 => open = {}
    BY FS_EmptySet DEF PresenceInv
  <2>2. CASE GraceFires
    <3>1. GraceOver
      BY <2>2, Zenon DEF GraceFires
    <3> QED
      BY <2>1, <3>1, LifecycleAssumption DEF GraceOver, PresenceInv
  <2>3. CASE WatchFires
    BY <2>1, <2>3, LifecycleAssumption DEF WatchFires, PresenceInv
  <2>4. CASE LifeNext /\ ~GraceFires /\ ~WatchFires
    BY <2>4 DEF LifeNext, Bind, Fresh, WriteLock, Serve, SecondLaunch, SecondRead, SecondAsk,
           SecondRefused, StreamOpens, StreamCloses, KeepAlive, Heartbeat, LifeTick,
           BundleGraceFires, BundleGraceExit, CloseChannel, Signal, Exit, RemoveLock, Crash, presence
  <2> QED
    BY <2>2, <2>3, <2>4
<1> QED
  BY <1>1, PresenceHolds, PTL DEF LifeSpec, NoEarlyShutdown

-----------------------------------------------------------------------------
(* The certificate.  First the shape of the state: which files are numbers, *)
(* and what a listener knows before it has loaded anything.                 *)

Files2 == [cert: Nat, key: Nat]
ListenerPCs == {"off", "ensure", "loaded", "idle", "validate", "validateKey", "load", "loadKey"}
Listener == [pc: ListenerPCs, src: Sources, holder: Files2, seen: Files2, cert: Nat, at: Nat]
Page == [pc: {"closed", "form", "ensure", "save"}, form: Config, cfg: Config]

Shape ==
    /\ now \in Nat /\ issued \in Seq(Nat)
    /\ own \in Files2 /\ floor \in Files2
    /\ config \in Config /\ ui \in Page /\ lis \in Listener
    /\ mk \in [Makers -> [pc: {"idle", "generate", "key"}, gen: Nat]]

\* What is served matches, and a listener that has not started serves nothing.
HolderInv ==
    /\ lis.holder = NoPair \/ Matches(lis.holder)
    /\ lis.pc \in {"off", "ensure"} => lis.holder = NoPair

\* As long as no two processes generated the floor at once, who generates it does
\* so alone, with no key on disk, and its key is for the certificate on disk; who
\* stopped in between left no key, and the next generator starts over.
SoleMaker ==
    /\ floor.key # 0 => floor.key = floor.cert
    /\ \A w \in Makers : Busy(w) => floor.key = 0
    /\ \A w \in Makers : mk[w].pc = "key" => mk[w].gen = floor.cert /\ floor.cert # 0
    /\ \A w, v \in Makers : Busy(w) /\ Busy(v) => w = v

\* The floor, once there, stays.  Whatever names it as the legacy pair was saved
\* when both files were there.
FloorInv ==
    /\ \A w \in Makers : mk[w].pc = "key" => mk[w].gen # 0
    /\ clash \/ SoleMaker
    /\ config.legacy \/ ui.form.legacy \/ ui.cfg.legacy => Ensured
    /\ FloorNeverRefused

TLSInv == Shape /\ HolderInv /\ FloorInv

LEMMA ConfigFacts ==
    /\ DefaultConfig \in Config /\ ToolConfig \in Config
    /\ FirstConfigs \subseteq Config
    /\ ~DefaultConfig.legacy /\ ~ToolConfig.legacy /\ \A c \in FirstConfigs : ~c.legacy
<1>1. /\ DefaultConfig \in Config /\ ToolConfig \in Config
      /\ ~DefaultConfig.legacy /\ ~ToolConfig.legacy
  BY DEF DefaultConfig, ToolConfig, Config
<1>2. /\ [DefaultConfig EXCEPT !.https = TRUE] \in Config
      /\ [DefaultConfig EXCEPT !.https = TRUE].legacy = DefaultConfig.legacy
  BY <1>1 DEF Config
<1>3. FirstConfigs \subseteq Config /\ \A c \in FirstConfigs : ~c.legacy
  BY <1>1, <1>2 DEF FirstConfigs, Config
<1> QED
  BY <1>1, <1>3

LEMMA TLSInitially == Init => TLSInv
<1> SUFFICES ASSUME Init PROVE TLSInv
  OBVIOUS
<1>1. now = 0 /\ issued = <<>> /\ own = NoPair /\ floor = NoPair /\ lis = Off /\ refused = "none"
      /\ mk = [w \in Makers |-> Idle] /\ config \in FirstConfigs
      /\ ui = [pc |-> "closed", form |-> DefaultConfig, cfg |-> DefaultConfig]
  BY DEF Init
<1>2. NoPair \in Files2 /\ NoPair.key = 0
  BY DEF NoPair, Files2
<1>3. Off \in Listener /\ Off.holder = NoPair
  BY <1>2 DEF Off, Listener, ListenerPCs, Sources
<1>4. ui \in Page /\ ~ui.form.legacy /\ ~ui.cfg.legacy
  BY <1>1, ConfigFacts DEF Page
<1>8. mk \in [Makers -> [pc: {"idle", "generate", "key"}, gen: Nat]]
      /\ \A w \in Makers : mk[w].pc = "idle"
  BY <1>1 DEF Idle
<1>5. Shape
  BY <1>1, <1>2, <1>3, <1>4, <1>8, ConfigFacts DEF Shape
<1>6. HolderInv
  BY <1>1, <1>3 DEF HolderInv
<1>7. FloorInv
  <2>1. SoleMaker
    BY <1>1, <1>2, <1>8 DEF SoleMaker, Busy
  <2> QED
    BY <1>1, <1>2, <1>4, <1>8, <2>1, ConfigFacts DEF FloorInv, FloorNeverRefused
<1> QED
  BY <1>5, <1>6, <1>7 DEF TLSInv

LEMMA ShapeStep == Shape /\ [Next]_vars => Shape'
<1> SUFFICES ASSUME Shape, [Next]_vars PROVE Shape'
  OBVIOUS
<1> USE DEF Shape
<1>1. NoPair \in Files2 /\ Off \in Listener
  BY DEF NoPair, Files2, Off, Listener, ListenerPCs, Sources
<1>2. \A src : FilesOf(src) \in Files2
  BY DEF FilesOf
<1>3. CASE Tick
  BY <1>3 DEF Tick
<1>4. ASSUME NEW file \in {"cert", "key"}, NEW d \in {0, 1}, ToolBegins(file, now + d)
      PROVE  Shape'
  <2>1. issued' = Append(issued, now + d) /\ own' = [own EXCEPT ![file] = NewGen]
        /\ UNCHANGED <<now, floor, mk, config, ui, lis>>
    BY <1>4 DEF ToolBegins, Issue
  <2>2. NewGen \in Nat
    BY DEF NewGen
  <2>3. own' \in Files2
    BY <2>1, <2>2 DEF Files2
  <2> QED
    BY <2>1, <2>3
<1>5. CASE ToolEnds
  <2>1. own' \in Files2
    BY <1>5 DEF ToolEnds, Files2
  <2> QED
    BY <1>5, <2>1 DEF ToolEnds
<1>20. \A w \in Makers : [mk EXCEPT ![w] = Idle] \in
                          [Makers -> [pc: {"idle", "generate", "key"}, gen: Nat]]
  BY DEF Idle
<1>6. ASSUME NEW who \in Makers, WriteFloor(who) PROVE Shape'
  <2>1. CASE WriteFloorCert(who)
    <3>1. issued' = Append(issued, now) /\ floor' = [floor EXCEPT !.cert = NewGen]
          /\ mk' = [mk EXCEPT ![who] = [pc |-> "key", gen |-> NewGen]]
          /\ UNCHANGED <<now, own, config, ui, lis>>
      BY <2>1 DEF WriteFloorCert, Issue
    <3>2. NewGen \in Nat
      BY DEF NewGen
    <3>3. floor' \in Files2
      BY <3>1, <3>2 DEF Files2
    <3>4. mk' \in [Makers -> [pc: {"idle", "generate", "key"}, gen: Nat]]
      BY <3>1, <3>2
    <3> QED
      BY <3>1, <3>3, <3>4
  <2>2. CASE WriteFloorKey(who)
    <3>1. mk[who].gen \in Nat
      OBVIOUS
    <3>2. floor' \in Files2
      BY <2>2, <3>1 DEF WriteFloorKey, Files2
    <3> QED
      BY <1>20, <2>2, <3>2 DEF WriteFloorKey
  <2>3. CASE LookForFloor(who)
    <3>1. mk' \in [Makers -> [pc: {"idle", "generate", "key"}, gen: Nat]]
      BY <2>3 DEF LookForFloor
    <3> QED
      BY <2>3, <3>1 DEF LookForFloor
  <2> QED
    BY <1>6, <2>1, <2>2, <2>3 DEF WriteFloor
<1>7. CASE \/ (\E others \in BOOLEAN : WizardStart(others))
           \/ (\E r \in {"tailscale", "letsencrypt", "byo", "self-signed"} : WizardRoute(r))
           \/ WizardTailscale \/ WizardWait \/ WizardValidate \/ WizardAbort
  BY <1>7, <1>20
  DEF WizardStart, WizardRoute, WizardTailscale, WizardWait, WizardValidate, WizardAbort, Makers
<1>8. CASE WizardPersist \/ WizardSelfSigned \/ TLSUse \/ TLSReset \/ AppConfigReset
  <2>1. [tls |-> FALSE, legacy |-> TRUE, https |-> TRUE] \in Config
    BY DEF Config
  <2> QED
    BY <1>8, <2>1, ConfigFacts
    DEF WizardPersist, WizardSelfSigned, TLSUse, TLSReset, AppConfigReset, WriteConfig
<1>9. CASE SettingsFetch
  <2>1. ui' = [pc |-> "form", form |-> [config EXCEPT !.tls = FALSE], cfg |-> DefaultConfig]
    BY <1>9 DEF SettingsFetch
  <2>2. [config EXCEPT !.tls = FALSE] \in Config
    BY DEF Config
  <2>3. ui' \in Page
    BY <2>1, <2>2, ConfigFacts DEF Page
  <2> QED
    BY <1>9, <2>3 DEF SettingsFetch
<1>10. ASSUME NEW flip \in BOOLEAN, SettingsPost(flip) PROVE Shape'
  <2>1. [ui.form EXCEPT !.https = IF flip THEN ~@ ELSE @] \in Config
    BY DEF Page, Config
  <2>2. PICK form \in Config : \E pc2 \in {"ensure", "save"} :
           ui' = [ui EXCEPT !.cfg = Reconcile(form, config), !.pc = pc2]
    BY <1>10, <2>1 DEF SettingsPost
  <2>3. Reconcile(form, config) \in Config
    BY DEF Reconcile
  <2>4. ui' \in Page
    BY <2>2, <2>3 DEF Page
  <2> QED
    BY <1>10, <2>4 DEF SettingsPost
<1>11. CASE SettingsEnsured
  <2>1. ui' \in Page
    BY <1>11 DEF SettingsEnsured, Page, Config
  <2> QED
    BY <1>11, <2>1 DEF SettingsEnsured
<1>12. CASE SettingsSave
  <2>1. ui' \in Page /\ config' \in Config
    BY <1>12, ConfigFacts DEF SettingsSave, Page, Closed
  <2> QED
    BY <1>12, <2>1 DEF SettingsSave
<1>13. ASSUME NEW src \in Sources, Resolve(src) PROVE Shape'
  <2>1. lis' \in Listener
    BY <1>1, <1>2, <1>13 DEF Resolve, Off, Listener, ListenerPCs
  <2> QED
    BY <1>13, <2>1 DEF Resolve
<1>14. ASSUME NEW flags \in BOOLEAN, StartGUI(flags) PROVE Shape'
  <2>1. pickPair("gui", flags, TRUE) \in Sources
    BY DEF pickPair, Sources
  <2>2. CASE lis' = [Off EXCEPT !.pc = "ensure", !.src = "self-signed"]
             /\ UNCHANGED <<now, issued, own, floor, mk, config, ui>>
    BY <1>1, <2>2 DEF Listener, ListenerPCs, Sources
  <2> QED
    BY <1>13, <1>14, <2>1, <2>2 DEF StartGUI
<1>15. ASSUME NEW flags \in BOOLEAN, NEW useTLS \in BOOLEAN, StartServe(flags, useTLS) PROVE Shape'
  <2>1. pickPair("serve", flags, useTLS) \in Sources
    BY DEF pickPair, Sources
  <2> QED
    BY <1>13, <1>15, <2>1 DEF StartServe
<1>16. CASE StartEnsured
  BY <1>13, <1>16 DEF StartEnsured, Sources
<1>17. CASE Reload
  <2>1. FilesOf(lis.src) \in Files2 /\ ReadPair \in Files2
    BY <1>2 DEF ReadPair, Files2, Listener
  <2>2. lis' \in Listener
    <3>1. CASE RunReloader
      BY <2>1, <3>1 DEF RunReloader, Listener, ListenerPCs
    <3>2. CASE PollTick
      BY <2>1, <3>2 DEF PollTick, Listener, ListenerPCs
    <3>3. CASE ReadCert
      BY <2>1, <3>3 DEF ReadCert, Listener, ListenerPCs, Files2
    <3>0. Keep => lis' \in Listener
      <4>1. [lis EXCEPT !.pc = "idle", !.cert = 0, !.at = 0] \in Listener
        BY DEF Listener, ListenerPCs
      <4> QED
        BY <4>1 DEF Keep
    <3>4. CASE ReloadValidate
      <4>1. [lis EXCEPT !.pc = "load"] \in Listener
        BY DEF Listener, ListenerPCs
      <4> QED
        BY <3>0, <3>4, <4>1 DEF ReloadValidate
    <3>5. CASE ReloadSwap
      <4>1. [lis EXCEPT !.holder = ReadPair, !.pc = "idle", !.cert = 0, !.at = 0] \in Listener
        BY <2>1 DEF Listener, ListenerPCs
      <4> QED
        BY <3>0, <3>5, <4>1 DEF ReloadSwap
    <3> QED
      BY <1>17, <3>1, <3>2, <3>3, <3>4, <3>5 DEF Reload
  <2>3. UNCHANGED <<now, issued, own, floor, mk, config, ui>>
    BY <1>17 DEF Reload, RunReloader, PollTick, ReadCert, ReloadValidate, ReloadSwap
  <2> QED
    BY <2>2, <2>3
<1>18. CASE Stop
  BY <1>1, <1>18, <1>20 DEF Stop, Makers
<1>19. CASE UNCHANGED vars
  BY <1>19 DEF vars
<1> QED
  BY <1>3, <1>4, <1>5, <1>6, <1>7, <1>8, <1>9, <1>10, <1>11, <1>12, <1>14, <1>15, <1>16, <1>17,
     <1>18, <1>19 DEF Next

LEMMA HolderStep == Shape /\ HolderInv /\ [Next]_vars => HolderInv'
<1> SUFFICES ASSUME Shape, HolderInv, [Next]_vars PROVE HolderInv'
  OBVIOUS
<1>0. lis \in Listener /\ Off.holder = NoPair
  BY DEF Shape, Off
<1>1. ASSUME UNCHANGED lis PROVE HolderInv'
  BY <1>1 DEF HolderInv, Matches
<1>2. ASSUME NEW src, Resolve(src) PROVE HolderInv'
  BY <1>0, <1>2 DEF Resolve, HolderInv, Off, Matches
<1>3. ASSUME lis'.holder = lis.holder, lis'.pc \notin {"off", "ensure"} PROVE HolderInv'
  BY <1>3 DEF HolderInv, Matches
<1>4. CASE Stop
  BY <1>0, <1>4 DEF Stop, HolderInv
<1>5. CASE \E flags \in BOOLEAN : StartGUI(flags)
  <2>1. CASE \E src : lis' = [Off EXCEPT !.pc = "ensure", !.src = src]
    BY <1>0, <2>1 DEF HolderInv, Off
  <2> QED
    BY <1>2, <1>5, <2>1 DEF StartGUI
<1>6. CASE (\E flags, useTLS \in BOOLEAN : StartServe(flags, useTLS)) \/ StartEnsured
  BY <1>2, <1>6 DEF StartServe, StartEnsured
<1>7. CASE RunReloader \/ PollTick \/ ReadCert
  BY <1>0, <1>3, <1>7 DEF RunReloader, PollTick, ReadCert, Listener
<1>8. ASSUME Keep PROVE HolderInv'
  BY <1>0, <1>3, <1>8 DEF Keep, Listener
<1>9. CASE ReloadValidate
  <2>1. CASE lis' = [lis EXCEPT !.pc = "load"]
    BY <1>0, <1>3, <2>1 DEF Listener
  <2> QED
    BY <1>8, <1>9, <2>1 DEF ReloadValidate
<1>10. CASE ReloadSwap
  <2>1. CASE Matches(ReadPair) /\ lis' = [lis EXCEPT !.holder = ReadPair, !.pc = "idle",
                                                     !.cert = 0, !.at = 0]
    <3>1. lis'.holder = ReadPair /\ lis'.pc = "idle"
      BY <1>0, <2>1 DEF Listener
    <3>2. Matches(lis'.holder)
      BY <2>1, <3>1
    <3> QED
      BY <3>1, <3>2 DEF HolderInv, Matches
  <2> QED
    BY <1>8, <1>10, <2>1 DEF ReloadSwap
<1> QED
  BY <1>1, <1>4, <1>5, <1>6, <1>7, <1>9, <1>10
  DEF Next, Reload, vars, Tick, ToolBegins, ToolEnds, WriteFloor, LookForFloor, WriteFloorCert,
      WriteFloorKey, WizardStart, WizardRoute, WizardTailscale, WizardWait, WizardValidate, WizardPersist,
      WizardSelfSigned, WizardAbort, TLSUse, TLSReset, AppConfigReset, SettingsFetch,
      SettingsPost, SettingsEnsured, SettingsSave

LEMMA FloorStep == Shape /\ FloorInv /\ [Next]_vars => FloorInv'
<1> SUFFICES ASSUME Shape, FloorInv, [Next]_vars PROVE FloorInv'
  OBVIOUS
<1>0. /\ floor \in Files2 /\ config \in Config /\ ui \in Page
      /\ mk \in [Makers -> [pc: {"idle", "generate", "key"}, gen: Nat]]
  BY DEF Shape
<1>1. Ensured => clash \/ Matches(floor)
  BY DEF FloorInv, SoleMaker, Ensured, Matches
<1>17. ASSUME UNCHANGED <<floor, mk, clash>>
       PROVE  /\ \A w \in Makers : mk'[w].pc = "key" => mk'[w].gen # 0
              /\ clash' \/ SoleMaker'
              /\ Ensured' = Ensured
  BY <1>17 DEF FloorInv, SoleMaker, Busy, Ensured
<1>2. ASSUME UNCHANGED <<floor, mk, config, ui, refused, clash>> PROVE FloorInv'
  BY <1>2, <1>17 DEF FloorInv, FloorNeverRefused
<1>18. ASSUME NEW who \in Makers, LookForFloor(who) PROVE FloorInv'
  <2>1. /\ ~Ensured /\ UNCHANGED <<floor, config, ui, refused>>
        /\ mk' = [mk EXCEPT ![who].pc = "generate"]
        /\ clash' = (clash \/ \E w \in Makers : Busy(w))
    BY <1>18 DEF LookForFloor
  <2>2. \A w \in Makers : /\ w = who => mk'[w].pc = "generate"
                          /\ w # who => mk'[w] = mk[w]
    BY <1>0, <2>1
  <2>3. ASSUME ~clash' PROVE SoleMaker'
    <3>1. ~clash /\ SoleMaker /\ \A w \in Makers : ~Busy(w)
      BY <2>1, <2>3 DEF FloorInv
    <3>2. floor.key = 0
      <4>1. floor.key # 0 => floor.cert = floor.key
        BY <3>1 DEF SoleMaker
      <4> QED
        BY <2>1, <4>1 DEF Ensured
    <3> QED
      BY <2>1, <2>2, <3>1, <3>2 DEF SoleMaker, Busy
  <2>4. clash => clash'
    BY <2>1
  <2> QED
    BY <2>1, <2>2, <2>3, <2>4 DEF FloorInv, Ensured, FloorNeverRefused
<1>3. ASSUME NEW who \in Makers, WriteFloorCert(who) PROVE FloorInv'
  <2>1. NewGen \in Nat \ {0}
    BY DEF NewGen, Shape
  <2>2. /\ floor'.cert = NewGen /\ floor'.key = floor.key
        /\ mk' = [mk EXCEPT ![who] = [pc |-> "key", gen |-> NewGen]]
        /\ mk[who].pc = "generate" /\ UNCHANGED <<config, ui, refused, clash>>
    BY <1>0, <1>3, <2>1 DEF WriteFloorCert, Files2
  <2>3. \A w \in Makers : /\ w = who => mk'[w].pc = "key" /\ mk'[w].gen = NewGen
                          /\ w # who => mk'[w] = mk[w]
    BY <1>0, <2>2
  <2>4. SoleMaker => SoleMaker'
    BY <2>1, <2>2, <2>3 DEF SoleMaker, Busy
  <2> QED
    BY <2>1, <2>2, <2>3, <2>4 DEF FloorInv, Ensured, FloorNeverRefused
<1>4. ASSUME NEW who \in Makers, WriteFloorKey(who) PROVE FloorInv'
  <2>1. /\ floor'.cert = floor.cert /\ floor'.key = mk[who].gen /\ mk[who].pc = "key"
        /\ mk' = [mk EXCEPT ![who] = Idle] /\ UNCHANGED <<config, ui, refused, clash>>
    BY <1>0, <1>4 DEF WriteFloorKey, Files2
  <2>2. \A w \in Makers : /\ w = who => mk'[w].pc = "idle"
                          /\ w # who => mk'[w] = mk[w]
    BY <1>0, <2>1 DEF Idle
  <2>3. ASSUME SoleMaker PROVE SoleMaker'
    <3>1. \A w \in Makers : mk'[w].pc = "idle"
      BY <2>1, <2>2, <2>3 DEF SoleMaker, Busy, Makers
    <3>2. floor'.key = floor'.cert
      BY <2>1, <2>3 DEF SoleMaker
    <3> QED
      BY <3>1, <3>2 DEF SoleMaker, Busy
  <2>4. mk[who].gen # 0
    BY <2>1 DEF FloorInv
  <2> QED
    BY <2>1, <2>2, <2>3, <2>4 DEF FloorInv, Ensured, FloorNeverRefused
<1>5. CASE WizardAbort \/ Stop
  <2>1. PICK who \in Makers : /\ mk' = [mk EXCEPT ![who] = Idle]
                              /\ UNCHANGED <<floor, config, ui, refused, clash>>
    BY <1>5 DEF WizardAbort, Stop, Makers
  <2>2. \A w \in Makers : /\ w = who => mk'[w].pc = "idle"
                          /\ w # who => mk'[w] = mk[w]
    BY <1>0, <2>1 DEF Idle
  <2>3. ASSUME SoleMaker PROVE SoleMaker'
    <3>1. floor' = floor /\ \A w \in Makers : mk'[w] = mk[w] \/ mk'[w].pc = "idle"
      BY <2>1, <2>2
    <3> QED
      BY <2>3, <3>1 DEF SoleMaker, Busy
  <2> QED
    BY <2>1, <2>2, <2>3 DEF FloorInv, Ensured, FloorNeverRefused
<1>6. CASE WizardPersist \/ TLSUse \/ TLSReset \/ AppConfigReset
  <2>1. ~config'.legacy /\ UNCHANGED <<floor, mk, ui, refused, clash>>
    BY <1>6, ConfigFacts DEF WizardPersist, TLSUse, TLSReset, AppConfigReset, WriteConfig
  <2> QED
    BY <1>17, <2>1 DEF FloorInv, FloorNeverRefused
<1>7. CASE WizardSelfSigned
  <2>1. Ensured /\ UNCHANGED <<floor, mk, ui, refused, clash>>
    BY <1>7 DEF WizardSelfSigned
  <2> QED
    BY <1>17, <2>1 DEF FloorInv, FloorNeverRefused
<1>8. CASE SettingsFetch
  <2>1. ui'.form.legacy = config.legacy /\ ~ui'.cfg.legacy /\ UNCHANGED <<floor, mk, config, refused, clash>>
    BY <1>0, <1>8, ConfigFacts DEF SettingsFetch, Config
  <2> QED
    BY <1>17, <2>1 DEF FloorInv, FloorNeverRefused
<1>9. ASSUME NEW flip \in BOOLEAN, SettingsPost(flip) PROVE FloorInv'
  <2> DEFINE form == [ui.form EXCEPT !.https = IF flip THEN ~@ ELSE @]
  <2>1. form.legacy = ui.form.legacy
    BY <1>0 DEF Page, Config
  <2>2. PICK pc2 : ui' = [ui EXCEPT !.cfg = Reconcile(form, config), !.pc = pc2]
    BY <1>9 DEF SettingsPost
  <2> HIDE DEF form
  <2>3. ui'.form = ui.form /\ ui'.cfg = Reconcile(form, config)
    BY <1>0, <2>2 DEF Page
  <2>4. ui'.cfg.legacy => config.legacy \/ ui.form.legacy
    BY <2>1, <2>3 DEF Reconcile
  <2>5. UNCHANGED <<floor, mk, config, refused, clash>>
    BY <1>9 DEF SettingsPost
  <2> QED
    BY <1>17, <2>3, <2>4, <2>5 DEF FloorInv, FloorNeverRefused
<1>10. CASE SettingsEnsured
  <2>1. Ensured /\ UNCHANGED <<floor, mk, config, refused, clash>>
    BY <1>10 DEF SettingsEnsured
  <2> QED
    BY <1>17, <2>1 DEF FloorInv, FloorNeverRefused
<1>11. CASE SettingsSave
  <2>1. config' = ui.cfg /\ ui' = Closed /\ UNCHANGED <<floor, mk, refused, clash>>
    BY <1>11 DEF SettingsSave
  <2>2. ~ui'.form.legacy /\ ~ui'.cfg.legacy
    BY <2>1, ConfigFacts DEF Closed
  <2> QED
    BY <1>17, <2>1, <2>2 DEF FloorInv, FloorNeverRefused
<1>12. ASSUME NEW src, Resolve(src),
              src \in {"self-signed", "legacy-gui"} => Ensured
       PROVE  FloorInv'
  <2>1. clash \/ refused' \notin {"self-signed", "legacy-gui"}
    BY <1>1, <1>12 DEF Resolve, FilesOf
  <2>2. UNCHANGED <<floor, mk, config, ui, clash>>
    BY <1>12 DEF Resolve
  <2> QED
    BY <1>17, <2>1, <2>2 DEF FloorInv, FloorNeverRefused
<1>13. ASSUME NEW flags \in BOOLEAN, StartGUI(flags) PROVE FloorInv'
  <2>1. pickPair("gui", flags, TRUE) = "legacy-gui" => Ensured
    BY DEF pickPair, FloorInv
  <2> QED
    BY <1>2, <1>12, <1>13, <2>1 DEF StartGUI
<1>14. ASSUME NEW flags \in BOOLEAN, NEW useTLS \in BOOLEAN, StartServe(flags, useTLS)
       PROVE  FloorInv'
  <2>1. pickPair("serve", flags, useTLS) \notin {"self-signed", "legacy-gui"}
    BY DEF pickPair
  <2> QED
    BY <1>12, <1>14, <2>1 DEF StartServe
<1>15. CASE StartEnsured
  BY <1>12, <1>15 DEF StartEnsured
<1>16. CASE \/ Tick \/ ToolEnds \/ WizardTailscale \/ WizardWait \/ WizardValidate \/ Reload
            \/ (\E file \in {"cert", "key"}, d \in {0, 1} : ToolBegins(file, now + d))
            \/ (\E others \in BOOLEAN : WizardStart(others))
            \/ (\E r \in {"tailscale", "letsencrypt", "byo", "self-signed"} : WizardRoute(r))
            \/ UNCHANGED vars
  <2>1. UNCHANGED <<floor, mk, config, ui, refused, clash>>
    BY <1>16 DEF Tick, ToolEnds, WizardTailscale, WizardWait, WizardValidate, Reload, RunReloader,
                 PollTick, ReadCert, ReloadValidate, ReloadSwap, ToolBegins, WizardStart,
                 WizardRoute, vars
  <2> QED
    BY <2>1, <1>2
<1> QED
  BY <1>3, <1>4, <1>18, <1>5, <1>6, <1>7, <1>8, <1>9, <1>10, <1>11, <1>13, <1>14, <1>15, <1>16
  DEF Next, WriteFloor

LEMMA TLSInvariant == Spec => []TLSInv
<1>1. TLSInv /\ [Next]_vars => TLSInv'
  BY ShapeStep, HolderStep, FloorStep DEF TLSInv
<1> QED
  BY <1>1, TLSInitially, PTL DEF Spec

\* What a listener serves is one certificate with its own key, however the two
\* writes of the issuing tool fall between the reads of validateAt, of
\* loadCertificate and the swap.
THEOREM ServesMatchingPair == Spec => []ServedPairMatches
<1>1. TLSInv => ServedPairMatches
  BY DEF TLSInv, HolderInv, ServedPairMatches
<1> QED
  BY <1>1, TLSInvariant, PTL

\* No start is refused because of the self-signed floor, whoever wrote it and
\* wherever its writer stopped, unless two processes generated it at once
\* (EnsureSelfSignedCertificate, writeSelfSigned, which keep nobody out).
THEOREM FloorAlwaysStarts == Spec => []FloorNeverRefused
<1>1. TLSInv => FloorNeverRefused
  BY DEF TLSInv, FloorInv
<1> QED
  BY <1>1, TLSInvariant, PTL

\* A reload never replaces a certificate inside its window by one outside its
\* own, both judged at the poll (reload.go: the gate of reload).  A listener
\* serves nothing before it is loaded, so no other step replaces one.
THEOREM ReloadNeverDowngrades == Spec => NoLiveDowngrade
<1> DEFINE Kept == lis.holder # NoPair /\ lis'.holder \notin {NoPair, lis.holder}
                   => ~(Within(lis.holder.cert, lis.at) /\ ~Within(lis'.holder.cert, lis.at))
<1>1. TLSInv /\ [Next]_vars => [Kept]_vars
  <2> SUFFICES ASSUME TLSInv, Next, lis.holder # NoPair, lis'.holder \notin {NoPair, lis.holder}
               PROVE  ~(Within(lis.holder.cert, lis.at) /\ ~Within(lis'.holder.cert, lis.at))
    BY DEF vars
  <2>0. lis \in Listener /\ lis.pc \notin {"off", "ensure"}
    BY DEF TLSInv, Shape, HolderInv
  <2>1. lis' # lis /\ lis' # Off
    BY DEF Off
  <2>2. ~Keep
    BY <2>0 DEF Keep, Listener
  <2>3. ReloadSwap
    <3>1. ~RunReloader /\ ~PollTick /\ ~ReadCert
      BY <2>0 DEF RunReloader, PollTick, ReadCert, Listener
    <3>2. ~ReloadValidate
      BY <2>0, <2>2 DEF ReloadValidate, Listener
    <3>3. ~Stop /\ ~StartEnsured /\ \A flags, useTLS : ~StartGUI(flags) /\ ~StartServe(flags, useTLS)
      BY <2>0, <2>1 DEF Stop, StartEnsured, StartGUI, StartServe
    <3> QED
      BY <2>1, <3>1, <3>2, <3>3
      DEF Next, Reload, Tick, ToolBegins, ToolEnds, WriteFloor, LookForFloor, WriteFloorCert,
          WriteFloorKey, WizardStart, WizardRoute, WizardTailscale, WizardWait, WizardValidate, WizardPersist,
          WizardSelfSigned, WizardAbort, TLSUse, TLSReset, AppConfigReset, SettingsFetch,
          SettingsPost, SettingsEnsured, SettingsSave
  <2>4. ~Downgrade(ReadPair.cert) /\ lis' = [lis EXCEPT !.holder = ReadPair, !.pc = "idle",
                                                        !.cert = 0, !.at = 0]
    BY <2>2, <2>3 DEF ReloadSwap
  <2>5. lis'.holder = ReadPair
    BY <2>0, <2>4 DEF Listener
  <2>6. UNCHANGED issued
    BY <2>3 DEF ReloadSwap
  <2> QED
    BY <2>4, <2>5, <2>6 DEF Downgrade, OutOfWindow
<1> QED
  BY <1>1, TLSInvariant, PTL DEF Spec, NoLiveDowngrade

\* The form never holds tls.*.  A save under way holds what the config said when
\* it looked; as long as nobody wrote the config since, it holds the config itself
\* when that has a tls section, and otherwise one without.
SettingsInv ==
    /\ ui.form.tls = FALSE
    /\ ui.pc \in {"ensure", "save"} => \/ touched
                                       \/ (config.tls /\ ui.cfg = config /\ ui.pc = "save")
                                       \/ (~config.tls /\ ~ui.cfg.tls)

\* What CLITLSKept says of one step.
KeptStep == ui' # ui /\ config' # config => touched \/ ~(config.tls \/ config'.tls)

LEMMA SettingsStep == Shape /\ SettingsInv /\ [Next]_vars => SettingsInv' /\ KeptStep
<1> SUFFICES ASSUME Shape, SettingsInv, [Next]_vars PROVE SettingsInv' /\ KeptStep
  OBVIOUS
<1>0. config \in Config /\ ui \in Page
  BY DEF Shape
<1>1. CASE SettingsFetch
  BY <1>0, <1>1 DEF SettingsFetch, SettingsInv, Config, KeptStep
<1>2. ASSUME NEW flip \in BOOLEAN, SettingsPost(flip) PROVE SettingsInv' /\ KeptStep
  <2> DEFINE form == [ui.form EXCEPT !.https = IF flip THEN ~@ ELSE @]
  <2>1. form.tls = FALSE
    BY <1>0 DEF Page, Config, SettingsInv
  <2>2. PICK pc2 : /\ ui' = [ui EXCEPT !.cfg = Reconcile(form, config), !.pc = pc2]
                   /\ config.tls => pc2 = "save"
    BY <1>2 DEF SettingsPost
  <2> HIDE DEF form
  <2>3. ui'.form = ui.form /\ ui'.cfg = Reconcile(form, config) /\ ui'.pc = pc2
    BY <1>0, <2>2 DEF Page
  <2>4. config' = config
    BY <1>2 DEF SettingsPost
  <2>5. (config.tls /\ ui'.cfg = config) \/ (~config.tls /\ ~ui'.cfg.tls)
    BY <1>0, <2>1, <2>3 DEF Reconcile, Config
  <2> QED
    BY <2>2, <2>3, <2>4, <2>5 DEF SettingsInv, KeptStep
<1>3. CASE SettingsEnsured
  <2>1. ui'.form = ui.form /\ ui'.cfg.tls = ui.cfg.tls /\ UNCHANGED <<config, touched>>
        /\ ui.pc = "ensure"
    BY <1>0, <1>3 DEF SettingsEnsured, Page, Config
  <2> QED
    BY <2>1 DEF SettingsInv, KeptStep
<1>4. CASE SettingsSave
  <2>1. config' = ui.cfg /\ ui' = Closed /\ ui.pc = "save"
    BY <1>4 DEF SettingsSave
  <2> QED
    BY <2>1 DEF SettingsInv, KeptStep, Closed, DefaultConfig
<1>5. CASE WizardPersist \/ WizardSelfSigned \/ TLSUse \/ TLSReset \/ AppConfigReset
  <2>1. ui' = ui /\ touched' = (ui.pc \in {"ensure", "save"})
    BY <1>5 DEF WizardPersist, WizardSelfSigned, TLSUse, TLSReset, AppConfigReset, WriteConfig
  <2> QED
    BY <2>1 DEF SettingsInv, KeptStep
<1>6. ASSUME UNCHANGED <<config, ui, touched>> PROVE SettingsInv' /\ KeptStep
  BY <1>6 DEF SettingsInv, KeptStep
<1>7. CASE (\E flags \in BOOLEAN : StartGUI(flags))
           \/ (\E flags, useTLS \in BOOLEAN : StartServe(flags, useTLS)) \/ StartEnsured
  BY <1>6, <1>7 DEF StartGUI, StartServe, StartEnsured, Resolve
<1> QED
  BY <1>1, <1>2, <1>3, <1>4, <1>5, <1>6, <1>7
  DEF Next, Reload, vars, Tick, ToolBegins, ToolEnds, WriteFloor, LookForFloor, WriteFloorCert,
      WriteFloorKey, WizardStart, WizardRoute, WizardTailscale, WizardWait, WizardValidate,
      WizardAbort, RunReloader, PollTick, ReadCert, ReloadValidate, ReloadSwap, Stop

\* A settings save neither wipes a certificate that the command line added nor
\* brings back one it removed, however long the page was open (handleAppConfig
\* looks at the config on disk), unless a command writes the config between
\* that look and the save, which no lock excludes.
THEOREM SettingsKeepTLS == Spec => CLITLSKept
<1>1. Init => SettingsInv
  BY DEF Init, SettingsInv, DefaultConfig
<1>2. Spec => []Shape
  <2>1. TLSInv => Shape
    BY DEF TLSInv
  <2> QED
    BY <2>1, TLSInvariant, PTL
<1>3. Shape /\ SettingsInv /\ [Next]_vars => SettingsInv'
  BY SettingsStep
<1>4. Shape /\ SettingsInv /\ [Next]_vars
        => [ui' # ui /\ config' # config => touched \/ ~(config.tls \/ config'.tls)]_vars
  BY SettingsStep DEF KeptStep
<1> QED
  BY <1>1, <1>2, <1>3, <1>4, PTL DEF Spec, CLITLSKept

-----------------------------------------------------------------------------
(* Sessions. *)

SessionRecord == [exp: Nat, in: BOOLEAN, issued: Nat]

\* Only minted ids have a session, and each is a whole record; what a request
\* will mint a session with is a Boolean.
SessInv ==
    /\ time \in Nat /\ minted \in Nat
    /\ DOMAIN sess \subseteq 1..minted
    /\ \A id \in DOMAIN sess : sess[id] \in SessionRecord
    /\ DOMAIN req = Slots
    /\ \A s \in Slots : DOMAIN req[s] = DOMAIN Free /\ req[s].snap \in SessionRecord

\* What a step may do to the sessions that exist: take them away or write
\* their fields, but never clear "in" and never bring one back.
SessKept ==
    /\ DOMAIN sess' \cap 1..minted \subseteq DOMAIN sess
    /\ \A id \in DOMAIN sess \cap DOMAIN sess' : sess[id].in => sess'[id].in

\* Sweeping and removing take sessions away and leave the others alone.
LEMMA SweptFacts ==
    ASSUME NEW f
    PROVE  /\ DOMAIN Swept(f) \subseteq DOMAIN f
           /\ \A x \in DOMAIN Swept(f) : Swept(f)[x] = f[x]
BY DEF Swept, Restrict

LEMMA WithoutFacts ==
    ASSUME NEW f, NEW x
    PROVE  /\ DOMAIN Without(f, x) = DOMAIN f \ {x}
           /\ \A y \in DOMAIN Without(f, x) : Without(f, x)[y] = f[y]
BY DEF Without, Restrict

LEMMA WithFacts ==
    ASSUME NEW f, NEW x, NEW v
    PROVE  /\ DOMAIN With(f, x, v) = DOMAIN f \cup {x}
           /\ With(f, x, v)[x] = v
           /\ \A y \in DOMAIN f \ {x} : With(f, x, v)[y] = f[y]
BY DEF With

\* Removing sessions, or none, keeps the invariant's part about them.
LEMMA FewerSessions ==
    ASSUME SessInv, minted' = minted, time' \in Nat,
           DOMAIN sess' \subseteq DOMAIN sess,
           \A id \in DOMAIN sess' : sess'[id] \in SessionRecord /\ (sess[id].in => sess'[id].in)
    PROVE  /\ SessKept
           /\ time' \in Nat /\ minted' \in Nat
           /\ DOMAIN sess' \subseteq 1..minted'
           /\ \A id \in DOMAIN sess' : sess'[id] \in SessionRecord
BY DEF SessInv, SessKept

\* Requests move on, are answered or keep what they have.
LEMMA RequestKept ==
    ASSUME SessInv, NEW s \in Slots,
           \/ UNCHANGED req
           \/ Answer(s)
           \/ \E next : Goto(s, next)
    PROVE  /\ DOMAIN req' = Slots
           /\ \A t \in Slots : DOMAIN req'[t] = DOMAIN Free /\ req'[t].snap \in SessionRecord
<1>1. CASE UNCHANGED req
  BY <1>1 DEF SessInv
<1>2. CASE Answer(s)
  BY <1>2 DEF SessInv, Answer, Free, NoSnap, SessionRecord
<1>3. CASE \E next : Goto(s, next)
  BY <1>3 DEF SessInv, Goto, Free
<1> QED
  BY <1>1, <1>2, <1>3

LEMMA SessInitially == SessionInit => SessInv
<1> SUFFICES ASSUME SessionInit PROVE SessInv
  OBVIOUS
<1>1. DOMAIN sess = {} /\ time = 0 /\ minted = 0
  BY DEF SessionInit, Empty
<1>2. NoSnap \in SessionRecord
  BY DEF NoSnap, SessionRecord
<1>3. DOMAIN req = Slots /\ \A s \in Slots : req[s] = Free /\ Free.snap = NoSnap
  BY DEF SessionInit, Free
<1> QED
  BY <1>1, <1>2, <1>3 DEF SessInv

LEMMA MintingSess ==
    ASSUME SessInv, NEW of, MintPaper(of), minted' = minted, time' = time
    PROVE  /\ SessKept
           /\ time' \in Nat /\ minted' \in Nat
           /\ DOMAIN sess' \subseteq 1..minted'
           /\ \A id \in DOMAIN sess' : sess'[id] \in SessionRecord
<1>1. /\ DOMAIN sess' \subseteq DOMAIN sess
      /\ \A id \in DOMAIN sess' : sess'[id] = sess[id]
  BY SweptFacts DEF MintPaper
<1> QED
  BY <1>1, FewerSessions DEF SessInv

LEMMA SessionStep ==
    ASSUME SessInv, NEW s \in Slots, RequestStep(s)
    PROVE  SessInv' /\ SessKept
<1> USE WebSessionAssumption
<1> DEFINE Reqs == /\ DOMAIN req' = Slots
                   /\ \A t \in Slots : DOMAIN req'[t] = DOMAIN Free /\ req'[t].snap \in SessionRecord
           Sess == /\ SessKept
                   /\ time' \in Nat /\ minted' \in Nat
                   /\ DOMAIN sess' \subseteq 1..minted'
                   /\ \A id \in DOMAIN sess' : sess'[id] \in SessionRecord
<1>0. SUFFICES Reqs /\ Sess
  BY DEF SessInv
<1>same. ASSUME UNCHANGED <<time, sess, minted>> PROVE Sess
  BY <1>same DEF SessInv, SessKept
<1>1. CASE LaunchRead(s)
  <2>1. Reqs
    BY <1>1 DEF LaunchRead, SessInv, Free, NoSnap, SessionRecord
  <2> QED
    BY <1>1, <1>same, <2>1 DEF LaunchRead
<1>2. CASE LaunchMint(s)
  <2>1. Reqs
    BY <1>2, RequestKept DEF LaunchMint
  <2> DEFINE new == [exp |-> time + TTL, in |-> req[s].snap.in, issued |-> time]
  <2>2. new \in SessionRecord
    BY DEF SessInv, SessionRecord
  <2>3. /\ sess' = With(Swept(sess), minted + 1, new) /\ minted' = minted + 1 /\ time' = time
    BY <1>2 DEF LaunchMint
  <2>4. DOMAIN sess' \subseteq DOMAIN sess \cup {minted + 1}
    BY <2>3 DEF With, Swept, Restrict
  <2>5. \A id \in DOMAIN sess' : IF id = minted + 1 THEN sess'[id] = new ELSE sess'[id] = sess[id]
    BY <2>3 DEF With, Swept, Restrict
  <2>6. minted + 1 \notin 1..minted /\ minted + 1 \in 1..(minted + 1) /\ 1..minted \subseteq 1..(minted + 1)
    BY DEF SessInv
  <2> QED
    BY <2>1, <2>2, <2>3, <2>4, <2>5, <2>6 DEF SessInv, SessKept
<1>3. ASSUME NEW id \in 1..minted, NEW kind \in Kinds, sessionOf(s, id, kind) PROVE Reqs /\ Sess
  <2>0. time' = time /\ minted' = minted
    BY <1>3 DEF sessionOf
  <2>1. CASE Live(id)
    <3>1. /\ sess' = [sess EXCEPT ![id].exp = time + TTL]
          /\ req' = [req EXCEPT ![s] = [pc |-> "refresh", id |-> id, kind |-> kind, snap |-> sess'[id]]]
      BY <1>3, <2>1 DEF sessionOf
    <3>2. DOMAIN sess' = DOMAIN sess /\ id \in DOMAIN sess
      BY <3>1, <2>1 DEF Live
    <3>3. \A x \in DOMAIN sess' : sess'[x] \in SessionRecord /\ sess'[x].in = sess[x].in
      BY <3>1, <3>2 DEF SessInv, SessionRecord
    <3>4. Sess
      BY <2>0, <3>2, <3>3, FewerSessions DEF SessInv
    <3>5. Reqs
      BY <3>1, <3>2, <3>3 DEF SessInv, Free
    <3> QED
      BY <3>4, <3>5
  <2>2. CASE ~Live(id)
    <3>1. sess' = Without(sess, id) /\ req' = req
      BY <1>3, <2>2 DEF sessionOf
    <3>2. DOMAIN sess' \subseteq DOMAIN sess /\ \A x \in DOMAIN sess' : sess'[x] = sess[x]
      BY <3>1, WithoutFacts
    <3> QED
      BY <3>1, <3>2, <2>0, FewerSessions, RequestKept DEF SessInv
  <2> QED
    BY <2>1, <2>2
<1>4. CASE refreshSessionCookie(s)
  <2>1. Reqs
    BY <1>4, RequestKept DEF refreshSessionCookie
  <2>2. time' = time /\ minted' = minted /\ DOMAIN sess' = DOMAIN sess
    BY <1>4 DEF refreshSessionCookie
  <2>3. \A x \in DOMAIN sess' : sess'[x] \in SessionRecord /\ sess'[x].in = sess[x].in
    BY <1>4 DEF refreshSessionCookie, SessInv, SessionRecord
  <2> QED
    BY <2>1, <2>2, <2>3, FewerSessions DEF SessInv
<1>5. CASE Gate(s)
  BY <1>5, <1>same, RequestKept DEF Gate
<1>6. ASSUME NEW good \in BOOLEAN, Login(s, good) PROVE Reqs /\ Sess
  BY <1>6, <1>same, RequestKept DEF Login
<1>7. CASE LoginVerified(s)
  <2>1. Reqs
    BY <1>7, RequestKept DEF LoginVerified
  <2>2. time' = time /\ minted' = minted /\ DOMAIN sess' \subseteq DOMAIN sess
    BY <1>7 DEF LoginVerified, Without, Restrict
  <2>3. \A x \in DOMAIN sess' : sess'[x] \in SessionRecord /\ (sess[x].in => sess'[x].in)
    <3>1. CASE Live(req[s].id)
      <4>1. sess' = [sess EXCEPT ![req[s].id].in = TRUE, ![req[s].id].exp = time + TTL]
        BY <1>7, <3>1 DEF LoginVerified
      <4>2. PICK i : i = req[s].id
        OBVIOUS
      <4>3. i \in DOMAIN sess /\ sess[i] \in SessionRecord /\ time + TTL \in Nat
        BY <4>2, <3>1 DEF Live, SessInv
      <4>4. DOMAIN sess' = DOMAIN sess /\ \A x \in DOMAIN sess : x # i => sess'[x] = sess[x]
        BY <4>1, <4>2
      <4>5. sess'[i] = [exp |-> time + TTL, in |-> TRUE, issued |-> sess[i].issued]
        BY <4>1, <4>2, <4>3 DEF SessionRecord
      <4>6. sess'[i] \in SessionRecord /\ sess'[i].in
        BY <4>3, <4>5 DEF SessionRecord
      <4> QED
        BY <4>3, <4>4, <4>6 DEF SessInv
    <3>2. CASE ~Live(req[s].id)
      BY <1>7, <3>2 DEF LoginVerified, SessInv, Without, Restrict
    <3> QED
      BY <3>1, <3>2
  <2> QED
    BY <2>1, <2>2, <2>3, FewerSessions DEF SessInv
<1>8. CASE handleLogout(s)
  <2>1. /\ DOMAIN sess' \subseteq DOMAIN sess /\ time' = time /\ minted' = minted
        /\ \A x \in DOMAIN sess' : sess'[x] = sess[x]
    BY <1>8 DEF handleLogout, Without, Restrict
  <2>2. Reqs
    BY <1>8, RequestKept DEF handleLogout
  <2> QED
    BY <2>1, <2>2, FewerSessions DEF SessInv
<1>9. CASE ResetPage(s)
  BY <1>9, MintingSess, RequestKept DEF ResetPage
<1>10. ASSUME NEW n \in 1..Len(born), ResetConsume(s, n) PROVE Reqs /\ Sess
  BY <1>10, <1>same, RequestKept DEF ResetConsume
<1>11. ASSUME NEW n \in 1..Len(born), ExportZipDownload(s, n) PROVE Reqs /\ Sess
  BY <1>11, <1>same, RequestKept DEF ExportZipDownload
<1>12. CASE ResetWipe(s)
  <2>1. DOMAIN sess' = {} /\ time' = time /\ minted' = minted
    BY <1>12 DEF ResetWipe, Empty
  <2>2. Reqs
    BY <1>12, RequestKept DEF ResetWipe
  <2> QED
    BY <2>1, <2>2 DEF SessInv, SessKept
<1>13. ASSUME NEW tok \in 0..token, CSRFCheck(s, tok) PROVE Reqs /\ Sess
  BY <1>13, <1>same, RequestKept DEF CSRFCheck
<1>14. CASE ExportZipTicket(s)
  BY <1>14, MintingSess, RequestKept DEF ExportZipTicket
<1>15. CASE GUIPassword(s)
  BY <1>15, <1>same, RequestKept DEF GUIPassword
<1> QED
  BY <1>1, <1>2, <1>3, <1>4, <1>5, <1>6, <1>7, <1>8, <1>9, <1>10, <1>11, <1>12, <1>13, <1>14,
     <1>15 DEF RequestStep

LEMMA SessionsKept == SessInv /\ [SessionNext]_sessionVars => SessInv' /\ SessKept
<1> SUFFICES ASSUME SessInv, [SessionNext]_sessionVars PROVE SessInv' /\ SessKept
  OBVIOUS
<1>1. CASE SessionTick
  BY <1>1 DEF SessionTick, SessInv, SessKept
<1>2. ASSUME NEW s \in Slots, RequestStep(s) PROVE SessInv' /\ SessKept
  BY <1>2, SessionStep
<1>3. CASE UNCHANGED sessionVars
  BY <1>3 DEF sessionVars, SessInv, SessKept
<1> QED
  BY <1>1, <1>2, <1>3 DEF SessionNext

LEMMA SessInvariant == SessionSpec => []SessInv
BY SessInitially, SessionsKept, PTL DEF SessionSpec

\* A session that was logged out, reset or expired never comes back, whatever
\* copies of it are in flight (handleLogin and refreshSessionCookie look it up
\* again under the mutex): the invariant is that only minted ids have one.
THEOREM GoneForever == SessionSpec => GoneStaysGone
<1>1. SessInv /\ [SessionNext]_sessionVars
        => [DOMAIN sess' \cap 1..minted \subseteq DOMAIN sess]_sessionVars
  BY SessionsKept DEF SessKept
<1> QED
  BY <1>1, SessInvariant, PTL DEF SessionSpec, GoneStaysGone

\* A login lasts as long as its session: no request of another tab clears it
\* (refreshSessionCookie writes one field of what is there, not its copy).
THEOREM LoginLasts == SessionSpec => LoginSticks
<1>1. SessInv /\ [SessionNext]_sessionVars
        => [\A id \in DOMAIN sess \cap DOMAIN sess' : sess[id].in => sess'[id].in]_sessionVars
  BY SessionsKept DEF SessKept
<1> QED
  BY <1>1, SessInvariant, PTL DEF SessionSpec, LoginSticks

-----------------------------------------------------------------------------
(* Papers. *)

\* Only numbered papers are kept, none was honoured yet, and each was minted
\* under the CSRF token that is still in force.
PaperInv ==
    /\ token \in Nat
    /\ born \in Seq(Nat) /\ used \in Seq(Nat) /\ Len(used) = Len(born)
    /\ DOMAIN papers \subseteq 1..Len(born)
    /\ \A n \in DOMAIN papers : used[n] = 0 /\ born[n] = token

\* A paper is honoured for the first time, and under the token it was born with.
PaperStep ==
    \A n \in DOMAIN used : used'[n] # used[n] => used[n] = 0 /\ born[n] = token

LEMMA PapersInitially == SessionInit => PaperInv
BY DEF SessionInit, PaperInv, Empty

LEMMA FewerPapers ==
    ASSUME PaperInv, UNCHANGED <<born, used, token>>,
           DOMAIN papers' \subseteq DOMAIN papers
    PROVE  PaperInv' /\ PaperStep
BY DEF PaperInv, PaperStep

LEMMA PaperMinted ==
    ASSUME PaperInv, NEW of, MintPaper(of), token' = token
    PROVE  PaperInv' /\ PaperStep
<1> DEFINE n0 == Len(born) + 1
<1>1. /\ born' = Append(born, token) /\ used' = Append(used, 0)
      /\ DOMAIN papers' \subseteq DOMAIN papers \cup {n0}
  BY DEF MintPaper, NewPaper, With, Swept, Restrict
<1>2. /\ born' \in Seq(Nat) /\ used' \in Seq(Nat)
      /\ Len(born') = n0 /\ Len(used') = n0
      /\ born'[n0] = token /\ used'[n0] = 0
      /\ \A n \in 1..Len(born) : born'[n] = born[n] /\ used'[n] = used[n]
  BY <1>1 DEF PaperInv
<1>3. DOMAIN used = 1..Len(born)
  BY DEF PaperInv
<1>4. Len(born) \in Nat
  BY DEF PaperInv
<1> QED
  BY <1>1, <1>2, <1>3, <1>4 DEF PaperInv, PaperStep

LEMMA PaperSpent ==
    ASSUME PaperInv, NEW of, NEW n \in 1..Len(born), Spend(n, of), UNCHANGED <<born, token>>
    PROVE  PaperInv' /\ PaperStep
<1>1. CASE ~IsA(n, of)
  <2>1. papers' = papers /\ used' = used
    BY <1>1 DEF Spend, Honoured
  <2> QED
    BY <2>1, FewerPapers
<1>2. CASE IsA(n, of)
  <2>1. DOMAIN papers' = DOMAIN papers \ {n} /\ n \in DOMAIN papers
    BY <1>2, WithoutFacts DEF Spend, IsA
  <2>2. used[n] = 0 /\ born[n] = token
    BY <2>1 DEF PaperInv
  <2>3. /\ used' \in Seq(Nat) /\ Len(used') = Len(used) /\ DOMAIN used = 1..Len(used)
        /\ \A m \in 1..Len(used) : m # n => used'[m] = used[m]
    <3>1. CASE used' = used
      BY <3>1 DEF PaperInv
    <3>2. CASE used' = [used EXCEPT ![n] = @ + 1]
      <4>1. n \in DOMAIN used /\ used[n] + 1 \in Nat
        BY <2>2 DEF PaperInv
      <4> QED
        BY <3>2, <4>1 DEF PaperInv
    <3> QED
      BY <3>1, <3>2 DEF Spend
  <2> QED
    BY <2>1, <2>2, <2>3 DEF PaperInv, PaperStep
<1> QED
  BY <1>1, <1>2

LEMMA PapersKept == PaperInv /\ [SessionNext]_sessionVars => PaperInv' /\ PaperStep
<1> SUFFICES ASSUME PaperInv, [SessionNext]_sessionVars PROVE PaperInv' /\ PaperStep
  OBVIOUS
<1>same. ASSUME UNCHANGED <<papers, born, used, token>> PROVE PaperInv' /\ PaperStep
  BY <1>same, FewerPapers
<1>1. CASE SessionTick
  BY <1>1, <1>same DEF SessionTick
<1>2. CASE UNCHANGED sessionVars
  BY <1>2, <1>same DEF sessionVars
<1>3. ASSUME NEW s \in Slots, RequestStep(s) PROVE PaperInv' /\ PaperStep
  <2>1. CASE LaunchMint(s)
    BY <2>1, SweptFacts, FewerPapers DEF LaunchMint
  <2>2. CASE ResetPage(s)
    BY <2>2, PaperMinted DEF ResetPage
  <2>3. CASE ExportZipTicket(s)
    BY <2>3, PaperMinted DEF ExportZipTicket
  <2>4. ASSUME NEW n \in 1..Len(born), ResetConsume(s, n) PROVE PaperInv' /\ PaperStep
    BY <2>4, PaperSpent DEF ResetConsume
  <2>5. ASSUME NEW n \in 1..Len(born), ExportZipDownload(s, n) PROVE PaperInv' /\ PaperStep
    BY <2>5, PaperSpent DEF ExportZipDownload
  <2>6. CASE ResetWipe(s)
    <3>1. DOMAIN papers' = {} /\ token' = token + 1 /\ UNCHANGED <<born, used>>
      BY <2>6 DEF ResetWipe, Empty
    <3> QED
      BY <3>1 DEF PaperInv, PaperStep
  <2>7. CASE \/ LaunchRead(s) \/ refreshSessionCookie(s) \/ Gate(s)
             \/ LoginVerified(s) \/ handleLogout(s) \/ GUIPassword(s)
             \/ \E id \in 1..minted, kind \in Kinds : sessionOf(s, id, kind)
             \/ \E good \in BOOLEAN : Login(s, good)
             \/ \E tok \in 0..token : CSRFCheck(s, tok)
    <3>1. UNCHANGED <<papers, born, used, token>>
      BY <2>7 DEF LaunchRead, refreshSessionCookie, Gate, LoginVerified, handleLogout,
                  GUIPassword, sessionOf, Login, CSRFCheck
    <3> QED
      BY <3>1, <1>same
  <2> QED
    BY <1>3, <2>1, <2>2, <2>3, <2>4, <2>5, <2>6, <2>7 DEF RequestStep
<1> QED
  BY <1>1, <1>2, <1>3 DEF SessionNext

\* A reset nonce or an export ticket is honoured at most once, and never after
\* a reset that came after it was minted (consumeResetNonce and
\* handleExportZipDownload take it out before they use it, handleResetConfig
\* drops them all with the token).
THEOREM PapersHonouredOnce == SessionSpec => PapersOnce
<1>1. SessionSpec => []PaperInv
  BY PapersInitially, PapersKept, PTL DEF SessionSpec
<1>2. PaperInv /\ [SessionNext]_sessionVars
        => [\A n \in DOMAIN used : used'[n] # used[n] => used[n] = 0 /\ born[n] = token]_sessionVars
  BY PapersKept DEF PaperStep
<1> QED
  BY <1>1, <1>2, PTL DEF SessionSpec, PapersOnce

=============================================================================
