----------------------------- MODULE WebSession -----------------------------
(***************************************************************************)
(* The GUI's browser sessions (internal/webui/server.go): the launch link, *)
(* the sliding sessions, login and logout, the reset page with its nonces, *)
(* and the single-use export tickets.  Every handler is split where it     *)
(* releases s.mu: what it read before is a copy (snap) afterwards.         *)
(*                                                                         *)
(* Sessions and papers (reset nonces and export tickets) are numbered in   *)
(* the order they are minted; a random token is never minted twice.        *)
(***************************************************************************)
EXTENDS Integers, Sequences, Functions, TLC

CONSTANTS Slots,         \* requests that may be in flight at once
          MaxIds,        \* bound on sessions
          MaxPapers,     \* bound on nonces and tickets
          MaxRequests,   \* bound on requests
          MaxSessionTime,       \* bound on the clock
          TTL,           \* sessionTTL
          RefreshAfter,  \* cookieRefreshInterval
          PaperTTL       \* resetNonceTTL, exportTicketTTL

ASSUME WebSessionAssumption ==
    /\ MaxIds \in Nat /\ MaxPapers \in Nat /\ MaxRequests \in Nat /\ MaxSessionTime \in Nat
    /\ TTL \in Nat /\ RefreshAfter \in Nat /\ PaperTTL \in Nat

VARIABLES time,      \* the clock
          auth,      \* guiAuthEnabled: a GUI password is configured
          sess,      \* authSessions
          minted,    \* sessions minted so far
          papers,    \* resetNonces and exportTickets
          born,      \* the CSRF token in force when a paper was minted
          used,      \* how often a paper was honoured
          token,     \* the CSRF token, a number that a reset advances
          req,       \* the requests in flight
          unsent     \* requests still to come

sessionVars == <<time, auth, sess, minted, papers, born, used, token, req, unsent>>

Ids == 1..MaxIds
LoginPages == {"login", "logout", "page", "reset"}
Posts == {"ticket", "setpw", "clearpw"}
Kinds == LoginPages \cup Posts \cup {"zip"}
Session == [exp: 0..MaxSessionTime + TTL, in: BOOLEAN, issued: 0..MaxSessionTime]
NoSnap == [exp |-> 0, in |-> FALSE, issued |-> 0]
Free == [pc |-> "free", id |-> 0, kind |-> "none", snap |-> NoSnap]

Empty == [x \in {} |-> NoSnap]

SessionInit ==
    /\ time = 0 /\ auth \in BOOLEAN
    /\ sess = Empty /\ minted = 0
    /\ papers = Empty /\ born = <<>> /\ used = <<>> /\ token = 0
    /\ req = [s \in Slots |-> Free] /\ unsent = MaxRequests

-----------------------------------------------------------------------------
Live(id) == id \in DOMAIN sess /\ time <= sess[id].exp
Without(f, x) == Restrict(f, DOMAIN f \ {x})
With(f, x, v) == [y \in DOMAIN f \cup {x} |-> IF y = x THEN v ELSE f[y]]

\* sweepExpiredLocked, run whenever something is minted.
Swept(f) == Restrict(f, {x \in DOMAIN f : time <= f[x].exp})

Goto(s, pc) == req' = [req EXCEPT ![s].pc = pc]
Answer(s) == req' = [req EXCEPT ![s] = Free]

SessionTick == /\ time < MaxSessionTime /\ time' = time + 1
               /\ UNCHANGED <<auth, sess, minted, papers, born, used, token, req, unsent>>

\* handleLaunch reads guiAuthEnabled, then mints the session.
LaunchRead(s) ==
    /\ req[s].pc = "free" /\ unsent > 0 /\ unsent' = unsent - 1
    /\ req' = [req EXCEPT ![s] = [Free EXCEPT !.pc = "mint", !.snap.in = ~auth]]
    /\ UNCHANGED <<time, auth, sess, minted, papers, born, used, token>>

LaunchMint(s) ==
    /\ req[s].pc = "mint" /\ minted < MaxIds
    /\ minted' = minted + 1
    /\ sess' = With(Swept(sess), minted + 1,
                    [exp |-> time + TTL, in |-> req[s].snap.in, issued |-> time])
    /\ papers' = Swept(papers)
    /\ Answer(s)
    /\ UNCHANGED <<time, auth, born, used, token, unsent>>

\* sessionOf: slides the expiry and hands out a copy; an expired session goes.
sessionOf(s, id, kind) ==
    /\ req[s].pc = "free" /\ unsent > 0 /\ unsent' = unsent - 1
    /\ \/ /\ Live(id)
          /\ sess' = [sess EXCEPT ![id].exp = time + TTL]
          /\ req' = [req EXCEPT ![s] = [pc |-> "refresh", id |-> id, kind |-> kind,
                                        snap |-> sess'[id]]]
       \/ /\ ~Live(id)
          /\ sess' = Without(sess, id)
          /\ UNCHANGED req
    /\ UNCHANGED <<time, auth, minted, papers, born, used, token>>

\* refreshSessionCookie: only a session that is still there is written.
refreshSessionCookieCopy(s) ==
    /\ req[s].pc = "refresh"
    /\ sess' = IF time - req[s].snap.issued >= RefreshAfter /\ req[s].id \in DOMAIN sess
               THEN [sess EXCEPT ![req[s].id] = [req[s].snap EXCEPT !.issued = time]]
               ELSE sess
    /\ Goto(s, "gate")
    /\ UNCHANGED <<time, auth, minted, papers, born, used, token, unsent>>

refreshSessionCookie(s) ==
    /\ req[s].pc = "refresh"
    /\ sess' = IF time - req[s].snap.issued >= RefreshAfter /\ req[s].id \in DOMAIN sess
               THEN [sess EXCEPT ![req[s].id].issued = time] ELSE sess
    /\ Goto(s, "gate")
    /\ UNCHANGED <<time, auth, minted, papers, born, used, token, unsent>>

\* The gate of ServeHTTP: serveLoginRequired or serveAuthorized.  (The event
\* stream and the heartbeat, dispatched before it, are in GuiLifecycle.)
Gate(s) ==
    /\ req[s].pc = "gate"
    /\ IF auth /\ ~req[s].snap.in /\ req[s].kind \notin LoginPages
       THEN Answer(s) ELSE Goto(s, req[s].kind)
    /\ UNCHANGED <<time, auth, sess, minted, papers, born, used, token, unsent>>

\* handleLogin up to the verified password; it does nothing when no password
\* is configured.  The rate limiter is the module AuthLimit.
Login(s, good) ==
    /\ req[s].pc = "login"
    /\ IF auth /\ good THEN Goto(s, "verified") ELSE Answer(s)
    /\ UNCHANGED <<time, auth, sess, minted, papers, born, used, token, unsent>>

LoginVerifiedMints(s) ==
    /\ req[s].pc = "verified"
    /\ sess' = With(sess, req[s].id, [exp |-> time + TTL, in |-> TRUE, issued |-> time])
    /\ Answer(s)
    /\ UNCHANGED <<time, auth, minted, papers, born, used, token, unsent>>

LoginVerified(s) ==
    /\ req[s].pc = "verified"
    /\ sess' = IF Live(req[s].id)
               THEN [sess EXCEPT ![req[s].id].in = TRUE, ![req[s].id].exp = time + TTL]
               ELSE Without(sess, req[s].id)
    /\ Answer(s)
    /\ UNCHANGED <<time, auth, minted, papers, born, used, token, unsent>>

handleLogout(s) ==
    /\ req[s].pc = "logout"
    /\ sess' = Without(sess, req[s].id)
    /\ Answer(s)
    /\ UNCHANGED <<time, auth, minted, papers, born, used, token, unsent>>

-----------------------------------------------------------------------------
(* Papers: reset nonces and export tickets. *)

NewPaper == Len(born) + 1
MintPaper(of) == /\ Len(born) < MaxPapers
                 /\ sess' = Swept(sess)
                 /\ papers' = With(Swept(papers), NewPaper, [exp |-> time + PaperTTL, of |-> of])
                 /\ born' = Append(born, token)
                 /\ used' = Append(used, 0)

\* handleResetConfigPage
ResetPage(s) ==
    /\ req[s].pc = "page"
    /\ MintPaper("nonce") /\ Answer(s)
    /\ UNCHANGED <<time, auth, minted, token, unsent>>

IsA(n, of) == n \in DOMAIN papers /\ papers[n].of = of
Honoured(n, of) == IsA(n, of) /\ time <= papers[n].exp

\* consumeResetNonce, and the same of an export ticket: gone before it is used.
Spend(n, of) == /\ papers' = IF IsA(n, of) THEN Without(papers, n) ELSE papers
                /\ used' = IF Honoured(n, of) THEN [used EXCEPT ![n] = @ + 1] ELSE used

\* handleResetConfig up to the removal of the config file, which may fail.
ResetConsume(s, n) ==
    /\ req[s].pc = "reset"
    /\ Spend(n, "nonce")
    /\ \/ Honoured(n, "nonce") /\ Goto(s, "wipe")
       \/ Goto(s, "page")
    /\ UNCHANGED <<time, auth, sess, minted, born, token, unsent>>

ResetWipeKeepsTickets(s) ==
    /\ req[s].pc = "wipe"
    /\ auth' = FALSE /\ sess' = Empty /\ token' = token + 1
    /\ Goto(s, "page")
    /\ UNCHANGED <<time, minted, born, used, unsent, papers>>

ResetWipe(s) ==
    /\ req[s].pc = "wipe"
    /\ auth' = FALSE /\ sess' = Empty /\ papers' = Empty /\ token' = token + 1
    /\ Goto(s, "page")
    /\ UNCHANGED <<time, minted, born, used, unsent>>

\* The CSRF check of serveAuthorized: tok is what the page was rendered with.
CSRFCheck(s, tok) ==
    /\ req[s].pc \in Posts
    /\ IF tok = token THEN Goto(s, "do") ELSE Answer(s)
    /\ UNCHANGED <<time, auth, sess, minted, papers, born, used, token, unsent>>

\* handleExportZipTicket
ExportZipTicket(s) ==
    /\ req[s].pc = "do" /\ req[s].kind = "ticket"
    /\ MintPaper("ticket") /\ Answer(s)
    /\ UNCHANGED <<time, auth, minted, token, unsent>>

\* handleExportZipDownload takes the ticket before it streams.
ExportZipDownload(s, n) ==
    /\ req[s].pc = "zip"
    /\ Spend(n, "ticket") /\ Answer(s)
    /\ UNCHANGED <<time, auth, sess, minted, born, token, unsent>>

\* handleAppConfig sets or clears the GUI password; no session is touched.
GUIPassword(s) ==
    /\ req[s].pc = "do" /\ req[s].kind \in {"setpw", "clearpw"}
    /\ auth' = (req[s].kind = "setpw")
    /\ Answer(s)
    /\ UNCHANGED <<time, sess, minted, papers, born, used, token, unsent>>

-----------------------------------------------------------------------------
RequestStep(s) ==
    \/ LaunchRead(s) \/ LaunchMint(s)
    \/ \E id \in 1..minted, kind \in Kinds : sessionOf(s, id, kind)
    \/ refreshSessionCookie(s) \/ Gate(s)
    \/ \E good \in BOOLEAN : Login(s, good)
    \/ LoginVerified(s) \/ handleLogout(s) \/ ResetPage(s)
    \/ \E n \in 1..Len(born) : ResetConsume(s, n) \/ ExportZipDownload(s, n)
    \/ ResetWipe(s)
    \/ \E tok \in 0..token : CSRFCheck(s, tok)
    \/ ExportZipTicket(s) \/ GUIPassword(s)

SessionNext == SessionTick \/ \E s \in Slots : RequestStep(s)

SessionSpec == SessionInit /\ [][SessionNext]_sessionVars

Symmetry == Permutations(Slots)

-----------------------------------------------------------------------------
(* Properties. *)

\* The ranges of the variables.
SessionTypeOK ==
    /\ time \in 0..MaxSessionTime /\ auth \in BOOLEAN
    /\ DOMAIN sess \subseteq 1..minted /\ \A id \in DOMAIN sess : sess[id] \in Session
    /\ DOMAIN papers \subseteq 1..Len(born) /\ Len(used) = Len(born)
    /\ token \in Nat /\ unsent \in 0..MaxRequests

\* A session that was logged out, reset or expired never comes back, although
\* requests that still hold a copy of it are in flight (handleLogin and
\* refreshSessionCookie look it up again under the mutex).
GoneStaysGone == [][DOMAIN sess' \cap 1..minted \subseteq DOMAIN sess]_sessionVars

\* A login is not lost: while its session lives, no concurrent request of
\* another tab writes an older copy over it.
LoginSticks == [][\A id \in DOMAIN sess \cap DOMAIN sess' :
                    sess[id].in => sess'[id].in]_sessionVars

\* A reset nonce or an export ticket is honoured at most once, and never
\* after a reset that came after it was minted.
PapersOnce == [][\A n \in DOMAIN used : used'[n] # used[n]
                    => used[n] = 0 /\ born[n] = token]_sessionVars

=============================================================================
