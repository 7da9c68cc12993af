-------------------------------- MODULE Hub --------------------------------
(***************************************************************************)
(* The registry of the homectl server (internal/server/server.go): which  *)
(* agent connection serves a device, which browser terminals are open, and *)
(* which web sessions authorise them.  Every HTTP or WebSocket handler is  *)
(* a goroutine; the atomic steps below are its critical sections of        *)
(* Server.mu, its calls of the store (one SQLite connection, so each call  *)
(* is atomic) and its calls that close a socket.                           *)
(*                                                                         *)
(* Identifiers are used once: a Conn is one accepted agent WebSocket, a    *)
(* Term one browser terminal request, a Request one administrator request, *)
(* a Session one random session token.  With infinite sets this is the     *)
(* server over an unbounded run.                                           *)
(*                                                                         *)
(* Left out: payloads, heartbeat persistence (the freshness test of        *)
(* deviceOnline is a free choice here) and the terminal's output queue     *)
(* (its overflow is one of the reasons of AgentEndsTerminal).              *)
(***************************************************************************)
EXTENDS FiniteSets

CONSTANTS Conn, Request, Term, Session, Device, NoConn, NoRow, Boot

\* The pools of identifiers are disjoint and the null values are not in them.
ASSUME HubAssumption ==
    /\ Device # {} /\ Session # {}
    /\ Conn \cap Request = {}
    /\ NoConn \notin Conn
    /\ NoRow \notin Conn \cup {Boot}
    /\ Boot \notin Conn

Proc == Conn \cup Request

VARIABLES
    row,      \* the devices table: row[d] is the credential stored for d
    sess,     \* the sessions table: "new" (not created yet), "live", "revoked"
    expired,  \* sessions whose expires_at has passed
    agents,   \* Server.agents
    terms,    \* the terminals of Server.terms
    up,       \* agent WebSockets that are accepted and not closed
    closed,   \* terminals whose done channel is closed (forceClose has run)
    armed,    \* terminals whose expiry timer is running
    pc,       \* where each agent or administrator handler stands
    kind,     \* what each of these handlers does
    dev,      \* the device of an agent connection or of a delete request
    cred,     \* the credential an agent connection was authenticated with
    psess,    \* the session a logout request deletes
    todo,     \* the terminals a handler has copied and will still forceClose
    kill,     \* the agent connections a handler will still stop
    tpc,      \* where each terminal handler stands
    tsess,    \* the session that authorises a terminal
    tdev,     \* its device
    tagent    \* the agent connection it holds a pointer to

termVars == <<tpc, tsess, tdev, tagent>>
procVars == <<pc, kind, dev, cred, psess, todo, kill>>
vars == <<row, sess, expired, agents, terms, up, closed, armed, procVars, termVars>>

TypeOK ==
    /\ row \in [Device -> Conn \cup {NoRow, Boot}]
    /\ sess \in [Session -> {"new", "live", "revoked"}]
    /\ expired \in SUBSET Session
    /\ agents \in [Device -> Conn \cup {NoConn}]
    /\ terms \in SUBSET Term
    /\ up \in SUBSET Conn
    /\ closed \in SUBSET Term
    /\ armed \in SUBSET Term
    /\ pc \in [Proc -> {"idle", "enroll", "register", "serve", "remove",
                        "revoke", "deleteRow", "snapshot", "close", "done"}]
    /\ kind \in [Proc -> {"none", "agent", "logout", "credential", "delete", "shutdown"}]
    /\ dev \in [Proc -> Device]
    /\ cred \in [Conn -> Conn \cup {NoRow, Boot}]
    /\ psess \in [Request -> Session]
    /\ todo \in [Proc -> SUBSET Term]
    /\ kill \in [Proc -> SUBSET Conn]
    /\ tpc \in [Term -> {"idle", "row", "agent", "register", "revalidate", "arm",
                         "open", "serve", "exit", "finish", "done"}]
    /\ tsess \in [Term -> Session]
    /\ tdev \in [Term -> Device]
    /\ tagent \in [Term -> Conn \cup {NoConn}]

\* The server starts with an empty registry and whatever devices and sessions
\* the database holds; dev, psess, tsess and tdev are read only after the
\* handler has set them.
Init ==
    /\ row \in [Device -> {NoRow, Boot}]
    /\ sess \in [Session -> {"new", "live"}]
    /\ expired = {}
    /\ agents = [d \in Device |-> NoConn]
    /\ terms = {} /\ up = {} /\ closed = {} /\ armed = {}
    /\ pc = [x \in Proc |-> "idle"]
    /\ kind = [x \in Proc |-> IF x \in Conn THEN "agent" ELSE "none"]
    /\ dev = [x \in Proc |-> CHOOSE d \in Device : TRUE]
    /\ cred = [c \in Conn |-> NoRow]
    /\ psess = [r \in Request |-> CHOOSE s \in Session : TRUE]
    /\ todo = [x \in Proc |-> {}]
    /\ kill = [x \in Proc |-> {}]
    /\ tpc = [t \in Term |-> "idle"]
    /\ tsess = [t \in Term |-> CHOOSE s \in Session : TRUE]
    /\ tdev = [t \in Term |-> CHOOSE d \in Device : TRUE]
    /\ tagent = [t \in Term |-> NoConn]

Goto(x, l) == pc' = [pc EXCEPT ![x] = l]
TermGoto(t, l) == tpc' = [tpc EXCEPT ![t] = l]

-----------------------------------------------------------------------------
(* Web sessions.                                                           *)

\* SessionValid and SessionExpiry: the row exists and has not expired.  (Both
\* also delete an expired row, which leaves the answer unchanged.)
SessionValid(s) == sess[s] = "live" /\ s \notin expired

\* A login stores a session row under a fresh random token.
CreateWebSession(s) ==
    /\ sess[s] = "new"
    /\ sess' = [sess EXCEPT ![s] = "live"]
    /\ UNCHANGED <<row, expired, agents, terms, up, closed, armed, procVars, termVars>>

\* The clock passes expires_at.
SessionExpires(s) ==
    /\ sess[s] = "live" /\ s \notin expired
    /\ expired' = expired \cup {s}
    /\ UNCHANGED <<row, sess, agents, terms, up, closed, armed, procVars, termVars>>

-----------------------------------------------------------------------------
(* closeBrowserTermsForDevice, closeBrowserTermsForSession,                *)
(* closeAllBrowserTerms: copy the matching terminals under the read lock,  *)
(* then forceClose each of them without it.                                *)

Matches(x, t) ==
    CASE kind[x] = "logout"            -> tsess[t] = psess[x]
      [] kind[x] \in {"agent", "delete"} -> tdev[t] = dev[x]
      [] OTHER                         -> TRUE

SnapshotTerms(x) ==
    /\ pc[x] = "snapshot"
    /\ todo' = [todo EXCEPT ![x] = {t \in terms : Matches(x, t)}]
    /\ Goto(x, "close")
    /\ UNCHANGED <<row, sess, expired, agents, terms, up, closed, armed,
                   kind, dev, cred, psess, kill, termVars>>

ForceClose(x, t) ==
    /\ pc[x] = "close" /\ t \in todo[x]
    /\ closed' = closed \cup {t}
    /\ todo' = [todo EXCEPT ![x] = @ \ {t}]
    /\ UNCHANGED <<row, sess, expired, agents, terms, up, armed,
                   pc, kind, dev, cred, psess, kill, termVars>>

\* The open sockets after AgentConn.stop, which closes the done channel and the
\* socket.  Mutant: the socket is left open.
StoppedDoneOnly(c) == up
Stopped(c) == up \ {c}

\* AgentConn.stop, after the terminals: a handler that took a device over goes
\* on to serve it, a handler that stopped its own connection has returned.
StopAgent(x, c) ==
    /\ pc[x] = "close" /\ todo[x] = {} /\ c \in kill[x]
    /\ up' = Stopped(c)
    /\ kill' = [kill EXCEPT ![x] = @ \ {c}]
    /\ IF kill[x] = {c}
          THEN Goto(x, IF x \in Conn /\ c # x THEN "serve" ELSE "done")
          ELSE UNCHANGED pc
    /\ UNCHANGED <<row, sess, expired, agents, terms, closed, armed,
                   kind, dev, cred, psess, todo, termVars>>

\* A request with no connection to stop answers once its terminals are closed.
RequestReturns(r) ==
    /\ pc[r] = "close" /\ todo[r] = {} /\ kill[r] = {}
    /\ Goto(r, "done")
    /\ UNCHANGED <<row, sess, expired, agents, terms, up, closed, armed,
                   kind, dev, cred, psess, todo, kill, termVars>>

-----------------------------------------------------------------------------
(* handleAgentWS.                                                          *)

\* The hello is read and the device looked up.  Without a row the agent must
\* enroll; with one, its token either matches the stored hash or the socket is
\* closed.
AgentHello(c, d) ==
    /\ pc[c] = "idle"
    /\ dev' = [dev EXCEPT ![c] = d]
    /\ \/ /\ row[d] = NoRow
          /\ Goto(c, "enroll")
          /\ up' = up \cup {c}
          /\ UNCHANGED cred
       \/ /\ row[d] # NoRow
          /\ cred' = [cred EXCEPT ![c] = row[d]]
          /\ Goto(c, "register")
          /\ up' = up \cup {c}
       \/ /\ Goto(c, "done")
          /\ UNCHANGED <<cred, up>>
    /\ UNCHANGED <<row, sess, expired, agents, terms, closed, armed,
                   kind, psess, todo, kill, termVars>>

\* EnrollDevice: a usable token inserts the row, with the credential named
\* after the connection; a bad token or a row inserted meanwhile ends it.
AgentEnroll(c) ==
    /\ pc[c] = "enroll"
    /\ \/ /\ row[dev[c]] = NoRow
          /\ row' = [row EXCEPT ![dev[c]] = c]
          /\ cred' = [cred EXCEPT ![c] = c]
          /\ Goto(c, "register")
          /\ UNCHANGED up
       \/ /\ up' = up \ {c}
          /\ Goto(c, "done")
          /\ UNCHANGED <<row, cred>>
    /\ UNCHANGED <<sess, expired, agents, terms, closed, armed,
                   kind, dev, psess, todo, kill, termVars>>

\* The connection registered for d, if any.  Mutant: the nil test is dropped.
RegisteredUnchecked(d) == {agents[d]}
Registered(d) == {agents[d]} \ {NoConn}

\* The new connection takes the device's entry; an old one is to be stopped.
AgentRegister(c) ==
    /\ pc[c] = "register"
    /\ agents' = [agents EXCEPT ![dev[c]] = c]
    /\ kill' = [kill EXCEPT ![c] = Registered(dev[c])]
    /\ Goto(c, IF Registered(dev[c]) = {} THEN "serve" ELSE "snapshot")
    /\ UNCHANGED <<row, sess, expired, terms, up, closed, armed,
                   kind, dev, cred, psess, todo, termVars>>

\* The network loses the connection.
AgentDrops(c) ==
    /\ c \in up
    /\ up' = up \ {c}
    /\ UNCHANGED <<row, sess, expired, agents, terms, closed, armed, procVars, termVars>>

\* Sending the ack, or a read of the message loop, fails.
AgentReadError(c) ==
    /\ pc[c] = "serve" /\ c \notin up
    /\ Goto(c, "remove")
    /\ UNCHANGED <<row, sess, expired, agents, terms, up, closed, armed,
                   kind, dev, cred, psess, todo, kill, termVars>>

\* The test of the deferred function.  Mutants: the entry is never deleted, or
\* deleted without looking whose it is.
NeverRegistered(c) == FALSE
AlwaysRegistered(c) == TRUE
StillRegistered(c) == agents[dev[c]] = c

\* The deferred function: the entry is deleted only if it is still this
\* connection's, and only then are the device's terminals closed; the
\* connection is stopped in either case.
AgentRemove(c) ==
    /\ pc[c] = "remove"
    /\ kill' = [kill EXCEPT ![c] = {c}]
    /\ IF StillRegistered(c)
          THEN /\ agents' = [agents EXCEPT ![dev[c]] = NoConn]
               /\ Goto(c, "snapshot")
          ELSE /\ UNCHANGED agents
               /\ Goto(c, "close")
    /\ UNCHANGED <<row, sess, expired, terms, up, closed, armed,
                   kind, dev, cred, psess, todo, termVars>>

\* handleAgentMessage: a message of the registered connection ends a terminal
\* (term_exit, a failed write to the browser, or an overflowing output queue).
AgentEndsTerminal(c, t) ==
    /\ pc[c] = "serve" /\ c \in up
    /\ agents[dev[c]] = c
    /\ t \in terms /\ tagent[t] = c /\ tpc[t] = "serve"
    /\ closed' = closed \cup {t}
    /\ UNCHANGED <<row, sess, expired, agents, terms, up, armed, procVars, termVars>>

-----------------------------------------------------------------------------
(* Administrator requests.                                                 *)

\* handleLogout and the credential changes: requireAuth has admitted the
\* request under session s.
StartRevocation(r, s, k) ==
    /\ pc[r] = "idle" /\ SessionValid(s)
    /\ kind' = [kind EXCEPT ![r] = k]
    /\ psess' = [psess EXCEPT ![r] = s]
    /\ Goto(r, "revoke")
    /\ UNCHANGED <<row, sess, expired, agents, terms, up, closed, armed,
                   dev, cred, todo, kill, termVars>>

\* DeleteSession of a logout, Update...AndRevokeSessions of a credential change.
\* A store error aborts a credential change; a logout ignores it.
RevokeSessions(r) ==
    /\ pc[r] = "revoke"
    /\ \/ /\ sess' = [s \in Session |->
                         IF sess[s] = "live" /\ (kind[r] = "credential" \/ s = psess[r])
                            THEN "revoked" ELSE sess[s]]
          /\ Goto(r, "snapshot")
       \/ /\ UNCHANGED sess
          /\ Goto(r, IF kind[r] = "logout" THEN "snapshot" ELSE "done")
    /\ UNCHANGED <<row, expired, agents, terms, up, closed, armed,
                   kind, dev, cred, psess, todo, kill, termVars>>

\* handleDeleteDevice: authenticated, and the device was found.
StartDelete(r, d) ==
    /\ pc[r] = "idle" /\ row[d] # NoRow
    /\ \E s \in Session : SessionValid(s)
    /\ kind' = [kind EXCEPT ![r] = "delete"]
    /\ dev' = [dev EXCEPT ![r] = d]
    /\ Goto(r, "deleteRow")
    /\ UNCHANGED <<row, sess, expired, agents, terms, up, closed, armed,
                   cred, psess, todo, kill, termVars>>

DeleteRow(r) ==
    /\ pc[r] = "deleteRow"
    /\ \/ /\ row' = [row EXCEPT ![dev[r]] = NoRow]
          /\ Goto(r, "remove")
       \/ /\ UNCHANGED row
          /\ Goto(r, "done")
    /\ UNCHANGED <<sess, expired, agents, terms, up, closed, armed,
                   kind, dev, cred, psess, todo, kill, termVars>>

DeleteRegistration(r) ==
    /\ pc[r] = "remove"
    /\ agents' = [agents EXCEPT ![dev[r]] = NoConn]
    /\ kill' = [kill EXCEPT ![r] = Registered(dev[r])]
    /\ Goto(r, IF Registered(dev[r]) = {} THEN "done" ELSE "snapshot")
    /\ UNCHANGED <<row, sess, expired, terms, up, closed, armed,
                   kind, dev, cred, psess, todo, termVars>>

\* Server.Shutdown: both maps are copied and cleared in one critical section.
Shutdown(r) ==
    /\ pc[r] = "idle"
    /\ kind' = [kind EXCEPT ![r] = "shutdown"]
    /\ todo' = [todo EXCEPT ![r] = terms]
    /\ kill' = [kill EXCEPT ![r] = UNION {Registered(d) : d \in Device}]
    /\ agents' = [d \in Device |-> NoConn]
    /\ terms' = {}
    /\ Goto(r, "close")
    /\ UNCHANGED <<row, sess, expired, up, closed, armed, dev, cred, psess, termVars>>

-----------------------------------------------------------------------------
(* handleTerminalWS.                                                       *)

\* SessionExpiry accepts the session.
TermStart(t, s, d) ==
    /\ tpc[t] = "idle" /\ SessionValid(s)
    /\ tsess' = [tsess EXCEPT ![t] = s]
    /\ tdev' = [tdev EXCEPT ![t] = d]
    /\ TermGoto(t, "row")
    /\ UNCHANGED <<row, sess, expired, agents, terms, up, closed, armed, procVars, tagent>>

\* getOnlineAgent: first the row, then the registered connection.
TermLookupRow(t) ==
    /\ tpc[t] = "row"
    /\ TermGoto(t, IF row[tdev[t]] = NoRow THEN "done" ELSE "agent")
    /\ UNCHANGED <<row, sess, expired, agents, terms, up, closed, armed, procVars,
                   tsess, tdev, tagent>>

\* No connection, or a heartbeat that is too old, is "device offline".
TermLookupAgent(t) ==
    /\ tpc[t] = "agent"
    /\ \/ /\ agents[tdev[t]] # NoConn
          /\ tagent' = [tagent EXCEPT ![t] = agents[tdev[t]]]
          /\ TermGoto(t, "register")
       \/ /\ UNCHANGED tagent
          /\ TermGoto(t, "done")
    /\ UNCHANGED <<row, sess, expired, agents, terms, up, closed, armed, procVars, tsess, tdev>>

TermRegister(t) ==
    /\ tpc[t] = "register"
    /\ terms' = terms \cup {t}
    /\ TermGoto(t, "revalidate")
    /\ UNCHANGED <<row, sess, expired, agents, up, closed, armed, procVars, tsess, tdev, tagent>>

\* The second check.  Mutant: the first one is trusted.
TrustedSession(t) == TRUE
RevalidatedSession(t) == SessionValid(tsess[t])

\* SessionValid again, now that the terminal can be found by a revocation.
TermRevalidate(t) ==
    /\ tpc[t] = "revalidate"
    /\ IF RevalidatedSession(t)
          THEN TermGoto(t, "arm") /\ UNCHANGED closed
          ELSE TermGoto(t, "exit") /\ closed' = closed \cup {t}
    /\ UNCHANGED <<row, sess, expired, agents, terms, up, armed, procVars, tsess, tdev, tagent>>

\* time.AfterFunc.  Mutant: the timer is not started.
NoTimer(t) == armed
WithTimer(t) == armed \cup {t}

\* A session that expired meanwhile closes the terminal, else the timer starts.
TermArmExpiry(t) ==
    /\ tpc[t] = "arm"
    /\ IF tsess[t] \in expired
          THEN TermGoto(t, "exit") /\ closed' = closed \cup {t} /\ UNCHANGED armed
          ELSE TermGoto(t, "open") /\ armed' = WithTimer(t) /\ UNCHANGED closed
    /\ UNCHANGED <<row, sess, expired, agents, terms, up, procVars, tsess, tdev, tagent>>

\* term_open is written to the connection looked up before.
TermOpen(t) ==
    /\ tpc[t] = "open"
    /\ TermGoto(t, IF tagent[t] \in up THEN "serve" ELSE "exit")
    /\ UNCHANGED <<row, sess, expired, agents, terms, up, closed, armed, procVars,
                   tsess, tdev, tagent>>

\* The read loop fails because forceClose closed the socket.
TermReadError(t) ==
    /\ tpc[t] = "serve" /\ t \in closed
    /\ TermGoto(t, "exit")
    /\ UNCHANGED <<row, sess, expired, agents, terms, up, closed, armed, procVars,
                   tsess, tdev, tagent>>

\* The browser closes its end.
BrowserLeaves(t) ==
    /\ tpc[t] = "serve" /\ t \notin closed
    /\ TermGoto(t, "exit")
    /\ UNCHANGED <<row, sess, expired, agents, terms, up, closed, armed, procVars,
                   tsess, tdev, tagent>>

ExpiryFires(t) ==
    /\ t \in armed \ closed /\ tsess[t] \in expired
    /\ closed' = closed \cup {t}
    /\ UNCHANGED <<row, sess, expired, agents, terms, up, armed, procVars, termVars>>

\* The deferred functions, in their order: stop the timer, leave the map ...
TermUnregister(t) ==
    /\ tpc[t] = "exit"
    /\ armed' = armed \ {t}
    /\ terms' = terms \ {t}
    /\ TermGoto(t, "finish")
    /\ UNCHANGED <<row, sess, expired, agents, up, closed, procVars, tsess, tdev, tagent>>

\* ... and close the socket (term_close to the agent is best effort).
TermFinish(t) ==
    /\ tpc[t] = "finish"
    /\ closed' = closed \cup {t}
    /\ TermGoto(t, "done")
    /\ UNCHANGED <<row, sess, expired, agents, terms, up, armed, procVars, tsess, tdev, tagent>>

-----------------------------------------------------------------------------
(* The specification.  ProcStep and TermStep are what a goroutine does by  *)
(* itself once started; the rest is what the outside world may do.         *)

CloserStep(x) ==
    \/ SnapshotTerms(x)
    \/ \E t \in Term : ForceClose(x, t)
    \/ \E c \in Conn : StopAgent(x, c)

AgentStep(c) ==
    \/ AgentEnroll(c) \/ AgentRegister(c) \/ AgentReadError(c) \/ AgentRemove(c)
    \/ CloserStep(c)

RequestStep(r) ==
    \/ RevokeSessions(r) \/ DeleteRow(r) \/ DeleteRegistration(r)
    \/ RequestReturns(r) \/ CloserStep(r)

TermStep(t) ==
    \/ TermLookupRow(t) \/ TermLookupAgent(t) \/ TermRegister(t) \/ TermRevalidate(t)
    \/ TermArmExpiry(t) \/ TermOpen(t) \/ TermReadError(t)
    \/ TermUnregister(t) \/ TermFinish(t)

Environment ==
    \/ \E s \in Session : CreateWebSession(s) \/ SessionExpires(s)
    \/ \E c \in Conn, d \in Device : AgentHello(c, d)
    \/ \E c \in Conn : AgentDrops(c)
    \/ \E c \in Conn, t \in Term : AgentEndsTerminal(c, t)
    \/ \E r \in Request, s \in Session, k \in {"logout", "credential"} :
          StartRevocation(r, s, k)
    \/ \E r \in Request, d \in Device : StartDelete(r, d)
    \/ \E r \in Request : Shutdown(r)
    \/ \E t \in Term, s \in Session, d \in Device : TermStart(t, s, d)
    \/ \E t \in Term : BrowserLeaves(t)

Next ==
    \/ \E c \in Conn : AgentStep(c)
    \/ \E r \in Request : RequestStep(r)
    \/ \E t \in Term : TermStep(t) \/ ExpiryFires(t)
    \/ Environment

\* The Go scheduler runs every runnable goroutine, and an armed timer fires.
Fairness ==
    /\ \A c \in Conn : WF_vars(AgentStep(c))
    /\ \A r \in Request : WF_vars(RequestStep(r))
    /\ \A t \in Term : WF_vars(TermStep(t)) /\ WF_vars(ExpiryFires(t))

Spec == Init /\ [][Next]_vars
FairSpec == Spec /\ Fairness

-----------------------------------------------------------------------------
(* Properties.                                                             *)

\* A terminal handler is past its second session check and not on its way out.
Admitted(t) == tpc[t] \in {"arm", "open", "serve"}

\* Handler x still has to close terminal t.
WillClose(x, t) ==
    \/ t \in todo[x]
    \/ pc[x] = "snapshot" /\ t \in terms /\ Matches(x, t)

\* The comment in handleTerminalWS: a concurrent logout or credential change
\* cannot leave a newly opened terminal detached from the session that
\* authorized it.  A terminal that relays keystrokes although its session is no
\* longer valid is about to be closed, by its expiry timer or by a handler that
\* has it in its copy or has yet to take the copy.
NoDetachedTerminal ==
    \A t \in Term :
        tpc[t] = "serve" /\ t \notin closed /\ ~SessionValid(tsess[t]) =>
            \/ tsess[t] \in expired /\ t \in armed
            \/ \E r \in Request : WillClose(r, t)

\* Server.agents never names a connection whose handler is past its deferred
\* removal, so no request is sent to a connection nobody reads, and an entry is
\* filed under the device the connection authenticated as.  This is what the
\* "still this connection" test of the deferred function protects when a
\* reconnecting agent overtakes the end of its previous connection.
NoDeadRegistration ==
    \A d \in Device : agents[d] # NoConn =>
        LET c == agents[d]
        IN  /\ dev[c] = d
            /\ pc[c] \in {"snapshot", "close", "serve", "remove"}
            /\ c \notin kill[c]

\* A connection that serves but is no longer registered (replaced, deleted or
\* shut down) is on some handler's list to be stopped, unless it is already
\* down: no superseded agent is left connected and unreachable.
SupersededIsStopped ==
    \A c \in up :
        pc[c] \in {"snapshot", "close", "serve"} /\ c \notin kill[c] /\ agents[dev[c]] # c =>
            \E x \in Proc : c \in kill[x]

\* Handlers that have lost their reason to go on: a connection that is no longer
\* registered for its device, an admitted terminal whose session is not valid.
Outdated(c) == pc[c] \in {"snapshot", "close", "serve", "remove"} /\ agents[dev[c]] # c
OutdatedTerm(t) ==
    tpc[t] \in {"arm", "open", "serve", "exit", "finish"} /\ ~SessionValid(tsess[t])

\* The same hazards as a promise: whatever order reconnects, deletions, logouts,
\* credential changes, expiry and shutdown come in, the handlers of superseded
\* connections and of terminals without a valid session all return.  (A handler
\* is outdated until it is done and every identifier is used once, so over finite
\* pools this says that each of them leads to its end.)
OutdatedHandlersEnd ==
    []<>((\A c \in Conn : ~Outdated(c)) /\ (\A t \in Term : ~OutdatedTerm(t)))

\* docs/WEB_PANEL.md:46: deleting a device revokes its token and drops the
\* connection.  Once no delete request of the device is under way, the
\* registered connection was authenticated with the stored credential.
DeletedDeviceDisconnected ==
    \A d \in Device : agents[d] # NoConn =>
        \/ cred[agents[d]] = row[d]
        \/ \E r \in Request : kind[r] = "delete" /\ dev[r] = d /\ pc[r] = "remove"

-----------------------------------------------------------------------------
(* The strengthening that makes the safety properties inductive.           *)

\* A handler holds connections to stop only while it closes terminals, and
\* terminals to close only after it took the copy; a revocation knows its kind.
HandlerInv ==
    /\ \A x \in Proc : kill[x] # {} => pc[x] \in {"snapshot", "close"}
    /\ \A x \in Proc : todo[x] # {} => pc[x] = "close"
    /\ \A r \in Request : pc[r] = "revoke" => kind[r] \in {"logout", "credential"}

RegistryInv == HandlerInv /\ NoDeadRegistration /\ SupersededIsStopped

\* A registered terminal that is still open can be found in the map or in the
\* copy of a handler; once it is admitted and its session revoked, some request
\* closes it.
TerminalInv ==
    /\ \A t \in Term : (Admitted(t) \/ tpc[t] = "revalidate") /\ t \notin closed =>
          t \in terms \/ \E r \in Request : t \in todo[r]
    /\ \A t \in Term : Admitted(t) /\ t \notin closed =>
          /\ sess[tsess[t]] # "live" => \E r \in Request : WillClose(r, t)
          /\ tpc[t] # "arm" => t \in armed

=============================================================================
