----------------------------- MODULE TLSServing -----------------------------
(***************************************************************************)
(* The certificate a listener serves: the precedence chain that picks a    *)
(* pair (internal/tlsconfig/tlsconfig.go), the hot reloader                *)
(* (internal/tlsconfig/reload.go), the `tls setup` wizard                  *)
(* (internal/setup/tlswizard.go), the `tls` commands (cmd/seavault), the   *)
(* self-signed floor and the settings page that all write appconfig.json.  *)
(*                                                                         *)
(* A certificate or key file holds the number of the issuance that wrote   *)
(* it, 0 when it is missing.  A pair matches when both numbers agree.  An  *)
(* issuance is valid from issued[g] for Life time units.  Every write of a *)
(* file writes a new issuance, so the number also stands for its mtime.    *)
(***************************************************************************)
EXTENDS Integers, Sequences

CONSTANTS MaxGen,        \* bound on issuances
          MaxTime,       \* bound on the clock
          Life,          \* validity of an issuance
          MaxAttempts,   \* bound on rounds of the wizard's menu (64 in the code)
          MaxCommands    \* bound on what the operator starts

ASSUME TLSAssumption == /\ MaxGen \in Nat /\ MaxTime \in Nat /\ Life \in Nat
                        /\ MaxAttempts \in Nat /\ MaxCommands \in Nat

VARIABLES now, issued,
          own,     \* the pair a tool or the operator keeps: [cert, key]
          floor,   \* seavault-local.crt and .key
          mk,      \* mk[w]: where w is in EnsureSelfSignedCertificate, and its issuance
          tool,    \* the external issuing tool: which file it still writes
          config,  \* appconfig.json
          ui,      \* the settings page and its save handler
          wiz,     \* the wizard
          lis,     \* the listener
          left,    \* commands the operator may still give
          refused, \* the source whose pair the last start refused
          clash,   \* history: two processes generated the floor at once
          touched  \* history: the config was written since the save under way read it

vars == <<now, issued, own, floor, mk, tool, config, ui, wiz, lis, left, refused, clash,
          touched>>

Gens == 0..MaxGen
Pair == [cert: Gens, key: Gens]
NoPair == [cert |-> 0, key |-> 0]
Config == [tls: BOOLEAN, legacy: BOOLEAN, https: BOOLEAN]
DefaultConfig == [tls |-> FALSE, legacy |-> FALSE, https |-> FALSE]
\* No file yet, or one whose gui.protocol was set to https by hand.
FirstConfigs == {DefaultConfig, [DefaultConfig EXCEPT !.https = TRUE]}
\* A starting listener, the wizard and the settings page of another GUI may each
\* find the floor missing.
Makers == {"gui", "wizard", "settings"}
Idle == [pc |-> "idle", gen |-> 0]
Sources == {"none", "flags", "config", "legacy-gui", "self-signed"}
Off == [pc |-> "off", src |-> "none", holder |-> NoPair, seen |-> NoPair,
        cert |-> 0, at |-> 0]

Init == /\ now = 0 /\ issued = <<>> /\ own = NoPair /\ floor = NoPair
        /\ mk = [w \in Makers |-> Idle] /\ tool = "idle" /\ config \in FirstConfigs
        /\ ui = [pc |-> "closed", form |-> DefaultConfig, cfg |-> DefaultConfig]
        /\ wiz = [pc |-> "off", left |-> 0]
        /\ lis = Off /\ refused = "none"
        /\ left = MaxCommands /\ clash = FALSE /\ touched = FALSE

-----------------------------------------------------------------------------
(* Validity and validation. *)

Matches(p) == p.cert # 0 /\ p.cert = p.key

\* withinWindow
Within(g, t) == issued[g] <= t /\ t <= issued[g] + Life

OutOfWindowExpiredOnly(g, t) == g = 0 \/ t > issued[g] + Life

\* candidateOutOfWindow
OutOfWindow(g, t) == g = 0 \/ ~Within(g, t)

Issue(notBefore) == /\ Len(issued) < MaxGen
                    /\ issued' = Append(issued, notBefore)
NewGen == Len(issued) + 1

\* The operator gives one more command.
Command == left > 0 /\ left' = left - 1

\* A write of the config by another process than the one that saves the settings.
WriteConfig(c) == /\ config' = c
                  /\ touched' = (ui.pc \in {"ensure", "save"})

-----------------------------------------------------------------------------
(* EnsureSelfSignedCertificate: the floor is used when both files exist and *)
(* otherwise generated, which takes a while, and written, the certificate   *)
(* first.  Nothing keeps two processes from doing so at once.               *)

EnsuredByCert == floor.cert # 0

Ensured == floor.cert # 0 /\ floor.key # 0

Busy(w) == mk[w].pc # "idle"

\* The floor is not there: writeSelfSigned generates a key.
LookForFloor(who) ==
    /\ mk[who] = Idle /\ ~Ensured
    /\ mk' = [mk EXCEPT ![who].pc = "generate"]
    /\ clash' = (clash \/ \E w \in Makers : Busy(w))
    /\ UNCHANGED <<now, issued, own, floor, tool, config, ui, wiz, lis, refused, left, touched>>

WriteFloorCert(who) ==
    /\ mk[who].pc = "generate"
    /\ Issue(now)
    /\ floor' = [floor EXCEPT !.cert = NewGen]
    /\ mk' = [mk EXCEPT ![who] = [pc |-> "key", gen |-> NewGen]]
    /\ UNCHANGED <<now, own, tool, config, ui, wiz, lis, refused, left, clash, touched>>

WriteFloorKey(who) ==
    /\ mk[who].pc = "key"
    /\ floor' = [floor EXCEPT !.key = mk[who].gen]
    /\ mk' = [mk EXCEPT ![who] = Idle]
    /\ UNCHANGED <<now, issued, own, tool, config, ui, wiz, lis, refused, left, clash, touched>>

NeedsFloor(who) == \/ who = "gui" /\ lis.pc = "ensure"
                   \/ who = "wizard" /\ wiz.pc = "ensure"
                   \/ who = "settings" /\ ui.pc = "ensure"

WriteFloor(who) == /\ NeedsFloor(who)
                   /\ LookForFloor(who) \/ WriteFloorCert(who) \/ WriteFloorKey(who)

-----------------------------------------------------------------------------
(* The issuing tool (tailscale, lego, certbot, a CA): writes a new pair in  *)
(* two steps, in either order; the leaf may become valid only later.        *)

ToolBegins(file, notBefore) ==
    /\ tool = "idle" /\ Issue(notBefore)
    /\ own' = [own EXCEPT ![file] = NewGen]
    /\ tool' = IF file = "cert" THEN "key" ELSE "cert"
    /\ UNCHANGED <<now, floor, mk, config, ui, wiz, lis, refused, left, clash, touched>>

ToolEnds ==
    /\ tool \in {"cert", "key"}
    /\ own' = [own EXCEPT ![tool] = IF tool = "cert" THEN own.key ELSE own.cert]
    /\ tool' = "idle"
    /\ UNCHANGED <<now, issued, floor, mk, config, ui, wiz, lis, refused, left, clash, touched>>

Tick == /\ now < MaxTime /\ now' = now + 1
        /\ UNCHANGED <<issued, own, floor, mk, tool, config, ui, wiz, lis, refused, left,
                       clash, touched>>

-----------------------------------------------------------------------------
(* The wizard and the tls commands. *)

\* RunTLSWizard: who needs to reach the endpoint, then the route menu.
WizardStart(others) ==
    /\ Command /\ wiz.pc = "off"
    /\ wiz' = IF others THEN [pc |-> "menu", left |-> MaxAttempts]
                        ELSE [pc |-> "ensure", left |-> 0]
    /\ UNCHANGED <<now, issued, own, floor, mk, tool, config, ui, lis, refused, clash, touched>>

\* chooseRoute.  A route that meets a dead end comes back to the menu.
WizardRoute(route) ==
    /\ wiz.pc = "menu" /\ wiz.left > 0
    /\ wiz' = [pc |-> CASE route = "tailscale"    -> "run"
                        [] route = "letsencrypt"  -> "wait"
                        [] route = "byo"          -> "validate"
                        [] route = "self-signed"  -> "ensure",
               left |-> wiz.left - 1]
    /\ UNCHANGED <<now, issued, own, floor, mk, tool, config, ui, lis, refused, left,
                   clash, touched>>

\* routeTailscaleFlow: runs the tool to its end and uses what it wrote; a
\* missing binary, no name, a refusal or a failed run returns to the menu.
WizardTailscale ==
    /\ wiz.pc = "run"
    /\ \/ /\ tool = "idle" /\ own.cert # 0 /\ own.key # 0
          /\ wiz' = [wiz EXCEPT !.pc = "validate"]
       \/ wiz' = [wiz EXCEPT !.pc = "menu"]
    /\ UNCHANGED <<now, issued, own, floor, mk, tool, config, ui, lis, refused, left,
                   clash, touched>>

\* routeLetsEncryptFlow: goes on as soon as both files exist, whether or not
\* the tool has finished; the operator may cancel.
WizardWait ==
    /\ wiz.pc = "wait"
    /\ \/ /\ own.cert # 0 /\ own.key # 0
          /\ wiz' = [wiz EXCEPT !.pc = "validate"]
       \/ wiz' = [wiz EXCEPT !.pc = "menu"]
    /\ UNCHANGED <<now, issued, own, floor, mk, tool, config, ui, lis, refused, left,
                   clash, touched>>

\* Validate; nothing is persisted on a failure.
WizardValidate ==
    /\ wiz.pc = "validate"
    /\ wiz' = [wiz EXCEPT !.pc = IF Matches(own) THEN "persist" ELSE "menu"]
    /\ UNCHANGED <<now, issued, own, floor, mk, tool, config, ui, lis, refused, left,
                   clash, touched>>

ToolConfig == [tls |-> TRUE, legacy |-> FALSE, https |-> TRUE]

\* persistToolCert
WizardPersist ==
    /\ wiz.pc = "persist"
    /\ WriteConfig(ToolConfig)
    /\ wiz' = [pc |-> "off", left |-> 0]
    /\ UNCHANGED <<now, issued, own, floor, mk, tool, ui, lis, refused, left, clash>>

\* persistSelfSigned: the floor pair is saved in the legacy fields.
WizardSelfSigned ==
    /\ wiz.pc = "ensure" /\ Ensured /\ ~Busy("wizard")
    /\ WriteConfig([tls |-> FALSE, legacy |-> TRUE, https |-> TRUE])
    /\ wiz' = [pc |-> "off", left |-> 0]
    /\ UNCHANGED <<now, issued, own, floor, mk, tool, ui, lis, refused, left, clash>>

\* End of input, too many attempts, or a crash.
WizardAbort ==
    /\ wiz.pc # "off"
    /\ wiz' = [pc |-> "off", left |-> 0]
    /\ mk' = [mk EXCEPT !["wizard"] = Idle]
    /\ UNCHANGED <<now, issued, own, floor, tool, config, ui, lis, refused, left, clash,
                   touched>>

\* cmdTLSUse: nothing is persisted when the pair does not validate.
TLSUse == /\ Command /\ Matches(own)
          /\ WriteConfig(ToolConfig)
          /\ UNCHANGED <<now, issued, own, floor, mk, tool, ui, wiz, lis, refused, clash>>

\* cmdTLSReset
TLSReset == /\ Command /\ config # DefaultConfig
            /\ WriteConfig(DefaultConfig)
            /\ UNCHANGED <<now, issued, own, floor, mk, tool, ui, wiz, lis, refused, clash>>

\* resetLocalAppConfiguration removes the file, which then reads as the default.
AppConfigReset ==
    /\ Command /\ config # DefaultConfig
    /\ WriteConfig(DefaultConfig)
    /\ UNCHANGED <<now, issued, own, floor, mk, tool, ui, wiz, lis, refused, clash>>

-----------------------------------------------------------------------------
(* The settings page.  The form holds the legacy fields and the protocol as *)
(* fetched; the operator may flip the protocol.  It never holds tls.*.      *)

SettingsFetch ==
    /\ Command /\ ui.pc = "closed"
    /\ ui' = [pc |-> "form", form |-> [config EXCEPT !.tls = FALSE],
              cfg |-> DefaultConfig]
    /\ UNCHANGED <<now, issued, own, floor, mk, tool, config, wiz, lis, refused, clash,
                   touched>>

\* The form's config after the handler has looked at the one on disk: while
\* tls.* is configured every certificate field is the disk's.
ReconcileForm(form, disk) == form

Reconcile(form, disk) == IF disk.tls THEN disk ELSE form

\* handleAppConfig, POST, up to the self-signed generator.
SettingsPost(flip) ==
    /\ ui.pc = "form"
    /\ LET form == [ui.form EXCEPT !.https = IF flip THEN ~@ ELSE @]
           cfg == Reconcile(form, config) IN
       ui' = [ui EXCEPT !.cfg = cfg,
                        !.pc = IF ~config.tls /\ cfg.https /\ ~cfg.legacy
                               THEN "ensure" ELSE "save"]
    /\ touched' = FALSE
    /\ UNCHANGED <<now, issued, own, floor, mk, tool, config, wiz, lis, refused, left, clash>>

SettingsEnsured ==
    /\ ui.pc = "ensure" /\ Ensured /\ ~Busy("settings")
    /\ ui' = [ui EXCEPT !.cfg.legacy = TRUE, !.pc = "save"]
    /\ UNCHANGED <<now, issued, own, floor, mk, tool, config, wiz, lis, refused, left,
                   clash, touched>>

Closed == [pc |-> "closed", form |-> DefaultConfig, cfg |-> DefaultConfig]

SettingsSave ==
    /\ ui.pc = "save"
    /\ config' = ui.cfg
    /\ ui' = Closed
    /\ UNCHANGED <<now, issued, own, floor, mk, tool, wiz, lis, refused, left, clash, touched>>

-----------------------------------------------------------------------------
(* A listener, of `gui` or of `serve`: Resolve at start, then the reloader. *)
(* The two processes share only the files and the config, which anybody may *)
(* change at any time, so one of them stands for both.                      *)

\* pickPair.  The legacy and self-signed tiers exist for the GUI only; serve
\* uses the shared section only when --tls is given (resolveServeTLS).
pickPair(kind, flags, useTLS) ==
    CASE flags -> "flags"
      [] ~flags /\ kind = "serve" -> IF useTLS /\ config.tls THEN "config" ELSE "none"
      [] ~flags /\ kind = "gui"   -> IF config.tls THEN "config"
                                     ELSE IF config.legacy THEN "legacy-gui"
                                     ELSE IF config.https THEN "self-signed" ELSE "none"

\* The files a source names.
FilesOf(src) == IF src \in {"flags", "config"} THEN own ELSE floor

\* Resolve, Validate and loadCertificate: a pair that does not match is a
\* startup refusal.
Resolve(src) ==
    /\ refused' = IF Matches(FilesOf(src)) THEN "none" ELSE src
    /\ lis' = IF Matches(FilesOf(src))
              THEN [Off EXCEPT !.pc = "loaded", !.src = src, !.holder = FilesOf(src)]
              ELSE Off
    /\ UNCHANGED <<now, issued, own, floor, mk, tool, config, ui, wiz, clash, touched>>

\* cmdGUI: without a source the listener is plaintext, not modelled further.
StartGUI(flags) ==
    /\ Command /\ lis.pc = "off"
    /\ LET src == pickPair("gui", flags, TRUE) IN
       \/ /\ src \notin {"none", "self-signed"} /\ Resolve(src)
       \/ /\ src = "self-signed"
          /\ lis' = [Off EXCEPT !.pc = "ensure", !.src = src]
          /\ UNCHANGED <<now, issued, own, floor, mk, tool, config, ui, wiz, refused,
                         clash, touched>>

\* cmdServe
StartServe(flags, useTLS) ==
    /\ Command /\ lis.pc = "off"
    /\ pickPair("serve", flags, useTLS) # "none"
    /\ Resolve(pickPair("serve", flags, useTLS))

StartEnsured ==
    /\ lis.pc = "ensure" /\ Ensured /\ ~Busy("gui")
    /\ Resolve("self-signed")
    /\ UNCHANGED left

\* Run: recordMods takes the files as they are when the goroutine starts.
RunReloader ==
    /\ lis.pc = "loaded"
    /\ lis' = [lis EXCEPT !.pc = "idle", !.seen = FilesOf(lis.src)]
    /\ UNCHANGED <<now, issued, own, floor, mk, tool, config, ui, wiz, refused, left,
                   clash, touched>>

\* tick: the new mtimes are recorded before the reload, whatever comes of it.
\* A file that cannot be stat'd means no decision.
PollTick ==
    LET f == FilesOf(lis.src) IN
    /\ lis.pc = "idle" /\ f.cert # 0 /\ f.key # 0 /\ f # lis.seen
    /\ lis' = [lis EXCEPT !.seen = f, !.at = now, !.pc = "validate"]
    /\ UNCHANGED <<now, issued, own, floor, mk, tool, config, ui, wiz, refused, left,
                   clash, touched>>

KeepAndRecord == lis' = [lis EXCEPT !.pc = "idle", !.cert = 0, !.at = 0,
                                      !.seen = FilesOf(lis.src)]

Keep == lis' = [lis EXCEPT !.pc = "idle", !.cert = 0, !.at = 0]

\* validateAt and loadCertificate read the certificate and then the key; the
\* tool may write in between.
ReadCert ==
    /\ lis.pc \in {"validate", "load"}
    /\ lis' = [lis EXCEPT !.cert = FilesOf(lis.src).cert,
                          !.pc = IF @ = "validate" THEN "validateKey" ELSE "loadKey"]
    /\ UNCHANGED <<now, issued, own, floor, mk, tool, config, ui, wiz, refused, left,
                   clash, touched>>

ReadPair == [cert |-> lis.cert, key |-> FilesOf(lis.src).key]

ReloadValidate ==
    /\ lis.pc = "validateKey"
    /\ IF Matches(ReadPair) THEN lis' = [lis EXCEPT !.pc = "load"] ELSE Keep
    /\ UNCHANGED <<now, issued, own, floor, mk, tool, config, ui, wiz, refused, left,
                   clash, touched>>

\* The gate of reload: no swap to a leaf out of its window while the serving
\* one is in its own, evaluated on the bytes about to be served.
Downgrade(g) == OutOfWindow(g, lis.at) /\ Within(lis.holder.cert, lis.at)

ReloadSwapUnchecked ==
    /\ lis.pc = "loadKey"
    /\ LET p == ReadPair IN
       IF ~Downgrade(p.cert)
       THEN lis' = [lis EXCEPT !.holder = p, !.pc = "idle", !.cert = 0, !.at = 0]
       ELSE Keep
    /\ UNCHANGED <<now, issued, own, floor, mk, tool, config, ui, wiz, refused, left,
                   clash, touched>>

ReloadSwap ==
    /\ lis.pc = "loadKey"
    /\ LET p == ReadPair IN
       IF Matches(p) /\ ~Downgrade(p.cert)
       THEN lis' = [lis EXCEPT !.holder = p, !.pc = "idle", !.cert = 0, !.at = 0]
       ELSE Keep
    /\ UNCHANGED <<now, issued, own, floor, mk, tool, config, ui, wiz, refused, left,
                   clash, touched>>

\* Shutdown or crash of the process.
Stop ==
    /\ lis.pc # "off"
    /\ lis' = Off
    /\ mk' = [mk EXCEPT !["gui"] = Idle]
    /\ UNCHANGED <<now, issued, own, floor, tool, config, ui, wiz, refused, left, clash,
                   touched>>

-----------------------------------------------------------------------------
Reload == RunReloader \/ PollTick \/ ReadCert \/ ReloadValidate \/ ReloadSwap

Next ==
    \/ Tick
    \/ \E file \in {"cert", "key"}, d \in {0, 1} : ToolBegins(file, now + d)
    \/ ToolEnds
    \/ \E who \in Makers : WriteFloor(who)
    \/ \E others \in BOOLEAN : WizardStart(others)
    \/ \E r \in {"tailscale", "letsencrypt", "byo", "self-signed"} : WizardRoute(r)
    \/ WizardTailscale \/ WizardWait \/ WizardValidate \/ WizardPersist
    \/ WizardSelfSigned \/ WizardAbort
    \/ TLSUse \/ TLSReset \/ AppConfigReset
    \/ SettingsFetch
    \/ \E flip \in BOOLEAN : SettingsPost(flip)
    \/ SettingsEnsured \/ SettingsSave
    \/ \E flags \in BOOLEAN : StartGUI(flags)
    \/ \E flags, useTLS \in BOOLEAN : StartServe(flags, useTLS)
    \/ StartEnsured \/ Reload \/ Stop

\* The reloader is a goroutine with a ticker: it keeps being scheduled.
Spec == Init /\ [][Next]_vars /\ WF_vars(Reload)

-----------------------------------------------------------------------------
(* Properties. *)

\* The ranges of the variables.
TypeOK ==
    /\ now \in 0..MaxTime /\ issued \in Seq(0..MaxTime + 1)
    /\ own \in Pair /\ floor \in Pair /\ config \in Config
    /\ mk \in [Makers -> [pc : {"idle", "generate", "key"}, gen : Gens]]
    /\ tool \in {"idle", "cert", "key"}
    /\ wiz.left \in 0..MaxAttempts /\ refused \in Sources
    /\ ui.form \in Config /\ ui.cfg \in Config
    /\ lis.holder \in Pair /\ lis.seen \in Pair /\ lis.src \in Sources /\ lis.cert \in Gens
    /\ clash \in BOOLEAN /\ touched \in BOOLEAN

\* What a listener serves is always one certificate with its own key, however
\* the issuing tool's two writes fall between Validate, the two reads of
\* loadCertificate and the swap (reload.go reload).
ServedPairMatches == lis.holder # NoPair => Matches(lis.holder)

\* A reload never replaces a certificate that was inside its window when the
\* poll fired by one that was outside its own, expired or not yet valid.
NoLiveDowngrade ==
    [][lis.holder # NoPair /\ lis'.holder \notin {NoPair, lis.holder}
       => ~(Within(lis.holder.cert, lis.at) /\ ~Within(lis'.holder.cert, lis.at))]_vars

\* The self-signed floor is the last resort: no start is refused because of it,
\* whoever looks for it and wherever its writer stopped; unless two processes
\* generated it at once, whose certificate and key may then not match
\* (appconfig.go EnsureSelfSignedCertificate, writeSelfSigned).
FloorNeverRefused == refused \in {"self-signed", "legacy-gui"} => clash

\* diskConfig, handleAppConfig: "a GUI Save can neither wipe a CLI-added certificate
\* nor resurrect a CLI-removed one".  However long the page was open, a Save changes
\* the certificate settings of a config with a tls section, or brings one back, only
\* if a command wrote the config between the look of the Save at it and its write.
CLITLSKept ==
    [][ui' # ui /\ config' # config => touched \/ ~(config.tls \/ config'.tls)]_vars

\* A renewed pair that is complete and valid, also one that lands while an
\* earlier change is being reloaded, is served in the end unless it is
\* replaced, expires or the process stops (reload.go tick and reload).
RenewalServed ==
    LET f == FilesOf(lis.src) IN
    (/\ lis.pc \notin {"off", "ensure", "loaded"} /\ f # lis.seen
     /\ Matches(f) /\ Within(f.cert, now))
    ~> (lis.pc = "off" \/ lis.holder = f \/ ~Matches(f) \/ ~Within(f.cert, now))

=============================================================================
