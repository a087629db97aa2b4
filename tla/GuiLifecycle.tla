---------------------------- MODULE GuiLifecycle ----------------------------
(***************************************************************************)
(* The life of a GUI process started from an application bundle            *)
(* (cmd/seavault cmdGUI, internal/webui, internal/bundlelaunch): binding   *)
(* the port, the single-instance lock and the relaunch question, the       *)
(* browser's event streams and heartbeats, the timers that stop the        *)
(* server when no page is left or none ever came, signals and crashes.     *)
(*                                                                         *)
(* Instances are numbered; a number also stands for the instance's lock    *)
(* token and launch link.  Time is counted in units smaller than Grace;    *)
(* quiet and the timers are capped, so time itself is not a variable.      *)
(***************************************************************************)
EXTENDS Integers, FiniteSets

CONSTANTS Timeout,       \* browserCloseTimeout (10 s)
          Grace,         \* the grace after a stream ends (8 s)
          BundleGrace,   \* the grace for a page to come at all (60 s)
          Pages,         \* browser pages
          MaxInst,       \* bound on launches
          MaxEvents      \* bound on what pages, signals and crashes do

ASSUME LifecycleAssumption ==
    /\ Grace \in Nat \ {0} /\ Timeout \in Nat \ {0} /\ BundleGrace \in Nat \ {0}
    /\ Grace <= Timeout
    /\ MaxInst \in Nat /\ MaxEvents \in Nat

VARIABLES inst,       \* the instance that owns the port, or the last one that did
          pc,         \* "off", "bound", "locked", "serving"
          leaving,    \* an instance has closed its listener, not yet removed the lock
          lock,       \* the lock file: whose token it holds, 0 when missing
          crashed,    \* has a process died without cleaning up?
          enabled,    \* --exit-on-browser-close
          seen,       \* browserSeen
          streams,    \* browserSessions
          quiet,      \* time since lastBrowserHeartbeat
          timers,     \* grace timers running; 0 is one that is due
          bundleT,    \* the bundle grace timer, -1 when it is over, -2 while it notifies
          closing,    \* a timer has decided to close shutdownCh
          shutdown,   \* shutdownCh is closed
          open,       \* the pages that are open
          gap,        \* time since a page was last open or gave a sign
          second,     \* a second launch that could not bind
          events      \* events still to come

lifeVars == <<inst, pc, leaving, lock, crashed, enabled, seen, streams, quiet, timers,
              bundleT, closing, shutdown, open, gap, second, events>>

Cap(n) == IF n > Timeout THEN Timeout + 1 ELSE n

\* The presence state of a fresh process.
Fresh(flag) ==
    /\ enabled' = flag /\ seen' = FALSE /\ streams' = 0 /\ quiet' = 0 /\ timers' = {}
    /\ bundleT' = -1 /\ closing' = FALSE /\ shutdown' = FALSE /\ open' = {} /\ gap' = 0

LifeInit ==
    /\ inst = 0 /\ pc = "off" /\ leaving = FALSE /\ lock = 0 /\ crashed = FALSE
    /\ enabled = FALSE /\ seen = FALSE /\ streams = 0 /\ quiet = 0 /\ timers = {}
    /\ bundleT = -1 /\ closing = FALSE /\ shutdown = FALSE /\ open = {} /\ gap = 0
    /\ second = [pc |-> "idle", tok |-> 0] /\ events = MaxEvents

presence == <<enabled, seen, streams, quiet, timers, bundleT, closing, shutdown, open, gap>>

-----------------------------------------------------------------------------
(* Launching. *)

\* net.Listen; EnableBrowserCloseShutdown when the flag is given.
Bind(flag) ==
    /\ pc = "off" /\ inst < MaxInst
    /\ pc' = "bound" /\ inst' = inst + 1
    /\ Fresh(flag)
    /\ UNCHANGED <<leaving, lock, crashed, second, events>>

WriteLock == /\ pc = "bound"
             /\ lock' = inst /\ pc' = "locked"
             /\ UNCHANGED <<inst, leaving, crashed, second, events, presence>>

\* SetRelaunch, the browser, startBundleGraceExit, and serving.
Serve == /\ pc = "locked"
         /\ pc' = "serving" /\ bundleT' = BundleGrace
         /\ UNCHANGED <<inst, leaving, lock, crashed, enabled, seen, streams, quiet,
                        timers, closing, shutdown, open, gap, second, events>>

\* A second launch meets a port in use.
SecondLaunch ==
    /\ second.pc = "idle" /\ pc # "off" /\ events > 0
    /\ second' = [pc |-> "read", tok |-> 0] /\ events' = events - 1
    /\ UNCHANGED <<inst, pc, leaving, lock, crashed, presence>>

\* askRunningInstanceForLaunchURL: ReadLock, then the question.  No answer in
\* time, a wrong token or a disabled endpoint is a refusal.
SecondRead ==
    /\ second.pc = "read"
    /\ second' = [pc |-> IF lock = 0 THEN "refused" ELSE "ask", tok |-> lock]
    /\ UNCHANGED <<inst, pc, leaving, lock, crashed, presence, events>>

\* handleRelaunch hands out the link to whoever presents the token.
RelaunchAnswers(tok) == pc = "serving" /\ ~shutdown /\ tok = inst

SecondAsk ==
    /\ second.pc = "ask"
    /\ \/ RelaunchAnswers(second.tok) /\ second' = [pc |-> "idle", tok |-> 0]
       \/ second' = [second EXCEPT !.pc = "refused"]
    /\ UNCHANGED <<inst, pc, leaving, lock, crashed, presence, events>>

\* The refused launch drops the lock file, whoever wrote it.
SecondRefused ==
    /\ second.pc = "refused"
    /\ lock' = 0 /\ second' = [pc |-> "idle", tok |-> 0]
    /\ UNCHANGED <<inst, pc, leaving, crashed, presence, events>>

-----------------------------------------------------------------------------
(* The browser. *)

Serving == pc = "serving"
Event == events > 0 /\ events' = events - 1

\* handleBrowserSession: the stream opens ...
StreamOpens(p) ==
    /\ Serving /\ ~shutdown /\ Event /\ p \notin open
    /\ open' = open \cup {p} /\ gap' = 0
    /\ seen' = TRUE /\ streams' = streams + 1 /\ quiet' = 0
    /\ UNCHANGED <<inst, pc, leaving, lock, crashed, enabled, timers, bundleT, closing,
                   shutdown, second>>

\* ... its keepalive ticker fires ...
KeepAlive ==
    /\ Serving /\ streams > 0 /\ quiet > 0
    /\ quiet' = 0
    /\ UNCHANGED <<inst, pc, leaving, lock, crashed, enabled, seen, streams, timers, bundleT,
                   closing, shutdown, open, gap, second, events>>

StreamClosesLeaks(p) ==
    /\ Serving /\ p \in open
    /\ open' = open \ {p} /\ gap' = 0 /\ quiet' = 0 /\ timers' = timers \cup {Grace}
    /\ UNCHANGED <<inst, pc, leaving, lock, crashed, enabled, seen, streams, bundleT, closing,
                   shutdown, second, events>>

\* ... and the page goes: the deferred function, which starts a grace timer.
StreamCloses(p) ==
    /\ Serving /\ p \in open
    /\ open' = open \ {p} /\ gap' = 0
    /\ streams' = IF streams > 0 THEN streams - 1 ELSE streams
    /\ quiet' = 0 /\ timers' = timers \cup {Grace}
    /\ UNCHANGED <<inst, pc, leaving, lock, crashed, enabled, seen, bundleT, closing, shutdown,
                   second, events>>

\* handleBrowserHeartbeat, from a page whose stream is not open.
Heartbeat ==
    /\ Serving /\ ~shutdown /\ Event
    /\ seen' = TRUE /\ quiet' = 0 /\ gap' = 0
    /\ UNCHANGED <<inst, pc, leaving, lock, crashed, enabled, streams, timers, bundleT, closing,
                   shutdown, open, second>>

LifeTick ==
    /\ Serving
    /\ quiet' = Cap(quiet + 1)
    /\ gap' = IF open = {} THEN Cap(gap + 1) ELSE 0
    /\ timers' = {IF t > 0 THEN t - 1 ELSE 0 : t \in timers}
    /\ bundleT' = IF bundleT > 0 THEN bundleT - 1 ELSE bundleT
    /\ UNCHANGED <<inst, pc, leaving, lock, crashed, enabled, seen, streams, closing, shutdown,
                   open, second, events>>

-----------------------------------------------------------------------------
(* The timers.  Each looks under the mutex and closes shutdownCh after it. *)

\* requestShutdownAfterBrowserGrace
GraceOverSessionsOnly == enabled /\ seen /\ streams = 0
GraceOver == enabled /\ seen /\ streams = 0 /\ quiet >= Grace

GraceFires ==
    /\ Serving /\ 0 \in timers
    /\ timers' = timers \ {0}
    /\ closing' = (closing \/ GraceOver)
    /\ UNCHANGED <<inst, pc, leaving, lock, crashed, enabled, seen, streams, quiet, bundleT,
                   shutdown, open, gap, second, events>>

\* watchBrowserHeartbeat
WatchFires ==
    /\ Serving /\ ~closing
    /\ enabled /\ seen /\ streams = 0 /\ quiet > Timeout
    /\ closing' = TRUE
    /\ UNCHANGED <<inst, pc, leaving, lock, crashed, enabled, seen, streams, quiet, timers,
                   bundleT, shutdown, open, gap, second, events>>

\* startBundleGraceExit: with no page seen yet, the log line and the notification
\* come before the shutdown, and a page may still come in the meantime.
BundleGraceFires ==
    /\ Serving /\ bundleT = 0
    /\ bundleT' = IF seen THEN -1 ELSE -2
    /\ UNCHANGED <<inst, pc, leaving, lock, crashed, enabled, seen, streams, quiet, timers,
                   closing, shutdown, open, gap, second, events>>

BundleGraceExit ==
    /\ Serving /\ bundleT = -2
    /\ bundleT' = -1 /\ shutdown' = TRUE
    /\ UNCHANGED <<inst, pc, leaving, lock, crashed, enabled, seen, streams, quiet, timers,
                   closing, open, gap, second, events>>

CloseChannel ==
    /\ Serving /\ closing /\ ~shutdown
    /\ shutdown' = TRUE
    /\ UNCHANGED <<inst, pc, leaving, lock, crashed, enabled, seen, streams, quiet, timers,
                   bundleT, closing, open, gap, second, events>>

\* SIGINT or SIGTERM: the handler removes the lock and asks for the shutdown.
Signal ==
    /\ Serving /\ ~shutdown /\ Event
    /\ lock' = 0 /\ shutdown' = TRUE
    /\ UNCHANGED <<inst, pc, leaving, crashed, enabled, seen, streams, quiet, timers, bundleT,
                   closing, open, gap, second>>

\* srv.Shutdown closes the listener; the deferred RemoveLock comes later.
Exit ==
    /\ Serving /\ shutdown /\ ~leaving
    /\ pc' = "off" /\ leaving' = TRUE
    /\ Fresh(FALSE)
    /\ UNCHANGED <<inst, lock, crashed, second, events>>

RemoveLockSkipped ==
    /\ leaving
    /\ leaving' = FALSE
    /\ UNCHANGED <<inst, pc, crashed, presence, second, events, lock>>

RemoveLock ==
    /\ leaving
    /\ leaving' = FALSE /\ lock' = 0
    /\ UNCHANGED <<inst, pc, crashed, presence, second, events>>

Crash ==
    /\ pc # "off" /\ Event
    /\ pc' = "off" /\ crashed' = TRUE
    /\ Fresh(FALSE)
    /\ UNCHANGED <<inst, leaving, lock, second>>

-----------------------------------------------------------------------------
LifeNext ==
    \/ \E flag \in BOOLEAN : Bind(flag)
    \/ WriteLock \/ Serve
    \/ SecondLaunch \/ SecondRead \/ SecondAsk \/ SecondRefused
    \/ \E p \in Pages : StreamOpens(p) \/ StreamCloses(p)
    \/ KeepAlive \/ Heartbeat \/ LifeTick
    \/ GraceFires \/ WatchFires \/ BundleGraceFires \/ BundleGraceExit \/ CloseChannel
    \/ Signal \/ Exit \/ RemoveLock \/ Crash

\* Time passes, and the goroutines of the timers and of the exit are scheduled.
LifeSpec == /\ LifeInit /\ [][LifeNext]_lifeVars
            /\ WF_lifeVars(LifeTick)
            /\ WF_lifeVars(GraceFires) /\ WF_lifeVars(WatchFires)
            /\ WF_lifeVars(BundleGraceFires) /\ WF_lifeVars(BundleGraceExit)
            /\ WF_lifeVars(CloseChannel)
            /\ WF_lifeVars(Serve) /\ WF_lifeVars(Exit) /\ WF_lifeVars(RemoveLock)

-----------------------------------------------------------------------------
(* Properties. *)

\* The ranges of the variables.
LifeTypeOK ==
    /\ inst \in 0..MaxInst /\ pc \in {"off", "bound", "locked", "serving"}
    /\ lock \in 0..MaxInst /\ leaving \in BOOLEAN
    /\ streams \in Nat /\ quiet \in 0..Timeout + 1 /\ timers \subseteq 0..Grace
    /\ bundleT \in -2..BundleGrace /\ open \subseteq Pages

\* No timer decides to stop the server while a page is open or before the
\* last page has been away for the whole grace, however many grace timers of
\* earlier page loads are still running (a reload closes one stream and opens
\* the next).
NoEarlyShutdown == [][closing' /\ ~closing => open = {} /\ gap >= Grace]_lifeVars

\* A server nobody uses stops: when its pages are gone, or when none came
\* within the bundle grace.
AbandonedServerStops ==
    (Serving /\ open = {} /\ (IF seen THEN enabled ELSE TRUE))
    ~> (open # {} \/ ~Serving \/ (seen /\ ~enabled))

\* The single-instance lock is left behind by a crash only: every other way
\* out removes it.
StaleLockOnlyAfterCrash == lock # 0 => crashed \/ pc # "off" \/ leaving

=============================================================================
