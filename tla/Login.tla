------------------------------- MODULE Login -------------------------------
(***************************************************************************)
(* Administrator authentication (internal/server/auth.go and the account   *)
(* part of store.go): password login, the TOTP second stage with its       *)
(* in-memory pre-auth states, and the account changes that revoke all      *)
(* sessions.  Every HTTP request is a goroutine; the atomic steps are its  *)
(* critical sections of Server.authMu and its calls of the store.          *)
(*                                                                         *)
(* A request is used once and names what it creates: the pre-auth token,   *)
(* the session, the new password, the new TOTP secret.  Time is left out:  *)
(* an expired pre-auth or failure window is one the code treats as absent, *)
(* so expiry is a step that removes it, and the time step of a code is a   *)
(* free choice.  So is whether a request is refused by the password        *)
(* throttles, has the wrong password, or finds the hash queue full: a      *)
(* request that stops changes nothing.                                     *)
(***************************************************************************)
EXTENDS Integers, FiniteSets

CONSTANTS
    Req,             \* requests
    Boot,            \* the user name, password and secret of the first start
    None,            \* no secret, no token
    Slots,           \* password_hash_concurrency
    MaxPreAuth,      \* the 32 of createPreAuth
    MaxAttempts,     \* preauth_max_attempts
    MaxFailures,     \* totp_max_failures
    MaxStep          \* bound: time steps of TOTP codes are 0..MaxStep

ASSUME LoginAssumption ==
    /\ IsFiniteSet(Req) /\ Boot \notin Req /\ None \notin Req /\ Boot # None
    /\ Slots \in Nat \ {0} /\ MaxPreAuth \in Nat \ {0} /\ MaxAttempts \in Nat \ {0}
    /\ MaxFailures \in Nat \ {0} /\ MaxStep \in Nat

VARIABLES
    admin,     \* the admins row: user name, password, kind of its hash, TOTP
               \* secret, and totp_last_login_step
    sessions,  \* the sessions table; a session remembers what it was checked against
    preAuth,   \* tokens in Server.preAuth
    busy,      \* those whose Busy is set
    attempts,  \* their Attempts
    born,      \* the order in which they were created
    failures,  \* totpFailures.Failures; at MaxFailures LockedUntil is set
    setups,    \* Server.totpSetups: session -> secret, or None
    pc,        \* where a request's handler stands
    kind,      \* what it does
    tok,       \* the pre-auth token it made or was sent
    snap,      \* the admin record it has read
    code,      \* the time step its code matched, -1 once the request is refused
    using,     \* the session of an account request
    wrong      \* wrong codes compared under a token, for OverrunIsOverlap only

accountVars == <<admin, sessions>>
preVars == <<preAuth, busy, attempts, born>>
reqVars == <<kind, tok, snap, code, using>>
vars == <<accountVars, preVars, failures, setups, pc, reqVars, wrong>>

Secret == Req \cup {Boot, None}
Admin == [user : Req \cup {Boot}, pw : Req \cup {Boot}, hash : {"legacy", "argon2id"},
          secret : Secret, last : -1..MaxStep]
SessionRow == [id : Req, pw : Req \cup {Boot}, pre : Req \cup {None}, step : -1..MaxStep]
AccountKind == {"username", "password", "setup", "enable", "disable"}

TypeOK ==
    /\ admin \in Admin
    /\ sessions \in SUBSET SessionRow
    /\ preAuth \in SUBSET Req
    /\ busy \in SUBSET Req
    /\ attempts \in [Req -> 0..MaxAttempts]
    /\ born \in [Req -> 0..Cardinality(Req)]
    /\ failures \in 0..MaxFailures
    /\ setups \in [Req -> Req \cup {None}]
    /\ pc \in [Req -> {"idle", "acquire", "verify", "rehash", "verified", "preauth", "session",
                       "lookup", "match", "bump", "fail", "claim", "consume", "release", "delete",
                       "clear", "setup", "commit", "clearPreAuth", "clearSetups", "done"}]
    /\ kind \in [Req -> {"none", "login", "totp"} \cup AccountKind]
    /\ tok \in [Req -> Req \cup {None}]
    /\ snap \in [Req -> Admin]
    /\ code \in [Req -> -1..MaxStep]
    /\ using \in [Req -> Req \cup {None}]
    /\ wrong \in [Req -> 0..Cardinality(Req)]

\* The server starts with an account, with or without TOTP, whose hash may be a
\* bcrypt one, and no sessions but those of its earlier life, left out here.
Init ==
    /\ admin \in [user : {Boot}, pw : {Boot}, hash : {"legacy", "argon2id"},
                  secret : {Boot, None}, last : {-1}]
    /\ sessions = {}
    /\ preAuth = {} /\ busy = {}
    /\ attempts = [q \in Req |-> 0] /\ born = [q \in Req |-> 0]
    /\ failures = 0
    /\ setups = [q \in Req |-> None]
    /\ pc = [q \in Req |-> "idle"] /\ kind = [q \in Req |-> "none"]
    /\ tok = [q \in Req |-> None] /\ using = [q \in Req |-> None]
    /\ snap = [q \in Req |-> admin] /\ code = [q \in Req |-> -1]
    /\ wrong = [q \in Req |-> 0]

Goto(q, l) == pc' = [pc EXCEPT ![q] = l]
Issued == {q \in Req : kind[q] = "login" /\ tok[q] = q}

\* totpAuthLocked.  Mutant: the lock is not looked at.
NeverLocked == FALSE
Locked == failures = MaxFailures

-----------------------------------------------------------------------------
(* Pre-auth states.                                                        *)

Oldest(p) == p \in preAuth /\ \A r \in preAuth : born[p] =< born[r]

\* Expires passes; all live for PreAuthTTL, so the oldest goes first.
PreAuthExpires(p) ==
    /\ Oldest(p)
    /\ preAuth' = preAuth \ {p}
    /\ UNCHANGED <<accountVars, busy, attempts, born, failures, setups, pc, reqVars, wrong>>

\* LockedUntil or the failure window passes.
FailuresExpire ==
    /\ failures # 0
    /\ failures' = 0
    /\ UNCHANGED <<accountVars, preVars, setups, pc, reqVars, wrong>>

\* createPreAuth: at the limit the oldest entry makes room.
CreatePreAuth(q) ==
    /\ pc[q] = "preauth"
    /\ IF Cardinality(preAuth) >= MaxPreAuth
          THEN \E p \in preAuth : Oldest(p) /\ preAuth' = (preAuth \ {p}) \cup {q}
          ELSE preAuth' = preAuth \cup {q}
    /\ born' = [born EXCEPT ![q] = Cardinality(Issued) + 1]
    /\ tok' = [tok EXCEPT ![q] = q]
    /\ Goto(q, "done")
    /\ UNCHANGED <<accountVars, busy, attempts, failures, setups, kind, snap, code, using, wrong>>

-----------------------------------------------------------------------------
(* handleLogin, and the password check it shares with the account requests.*)

\* A login drops the pre-auth of the cookie it came with.
LoginStart(q, p) ==
    /\ pc[q] = "idle"
    /\ kind' = [kind EXCEPT ![q] = "login"]
    /\ preAuth' = preAuth \ {p}
    /\ Goto(q, "acquire")
    /\ UNCHANGED <<accountVars, busy, attempts, born, failures, setups, tok, snap, code, using, wrong>>

\* verifyPasswordLimited: a slot, held to the end of VerifyAdminPassword, which
\* begins with GetAdmin.
Acquire(q) ==
    /\ pc[q] = "acquire"
    /\ Cardinality({r \in Req : pc[r] \in {"verify", "rehash"}}) < Slots
    /\ snap' = [snap EXCEPT ![q] = admin]
    /\ Goto(q, "verify")
    /\ UNCHANGED <<accountVars, preVars, failures, setups, kind, tok, code, using, wrong>>

\* The password fits the hash that was read; a bcrypt hash is to be replaced.
Verify(q) ==
    /\ pc[q] = "verify"
    /\ Goto(q, IF snap[q].hash = "legacy" THEN "rehash" ELSE "verified")
    /\ UNCHANGED <<accountVars, preVars, failures, setups, reqVars, wrong>>

\* The new hash of the same password is stored; an error here is ignored.
Rehash(q) ==
    /\ pc[q] = "rehash"
    /\ \/ admin' = [admin EXCEPT !.pw = snap[q].pw, !.hash = "argon2id"]
       \/ UNCHANGED admin
    /\ Goto(q, "verified")
    /\ UNCHANGED <<sessions, preVars, failures, setups, reqVars, wrong>>

\* The login goes by the record that was read before the password was checked:
\* with a secret, and unless locked, to the second stage, else to a session.
LoginVerified(q) ==
    /\ pc[q] = "verified" /\ kind[q] = "login"
    /\ Goto(q, CASE snap[q].secret = None -> "session"
                 [] Locked                -> "done"
                 [] OTHER                 -> "preauth")
    /\ UNCHANGED <<accountVars, preVars, failures, setups, reqVars, wrong>>

NewSession(q) == [id |-> q, pw |-> snap[q].pw, pre |-> tok[q], step |-> code[q]]

\* createWebSession.
LoginSession(q) ==
    /\ pc[q] = "session"
    /\ sessions' = sessions \cup {NewSession(q)}
    /\ Goto(q, "done")
    /\ UNCHANGED <<admin, preVars, failures, setups, reqVars, wrong>>

-----------------------------------------------------------------------------
(* handleLoginTOTP.                                                        *)

\* totpAuthLocked lets the request in, which brings a token it was once given.
TotpStart(q, p) ==
    /\ pc[q] = "idle" /\ p \in Issued /\ ~Locked
    /\ kind' = [kind EXCEPT ![q] = "totp"]
    /\ tok' = [tok EXCEPT ![q] = p]
    /\ Goto(q, "lookup")
    /\ UNCHANGED <<accountVars, preVars, failures, setups, snap, code, using, wrong>>

TotpLookup(q) ==
    /\ pc[q] = "lookup"
    /\ IF tok[q] \in preAuth /\ attempts[tok[q]] < MaxAttempts
          THEN Goto(q, "match") /\ UNCHANGED preAuth
          ELSE Goto(q, "done") /\ preAuth' = preAuth \ {tok[q]}
    /\ UNCHANGED <<accountVars, busy, attempts, born, failures, setups, reqVars, wrong>>

\* GetAdmin and matchTOTP: the code is of some time step, or wrong; without a
\* secret no code matches.
TotpMatch(q) ==
    /\ pc[q] = "match"
    /\ snap' = [snap EXCEPT ![q] = admin]
    /\ \/ \E s \in 0..MaxStep :
             /\ admin.secret # None
             /\ code' = [code EXCEPT ![q] = s]
             /\ Goto(q, "claim")
             /\ UNCHANGED wrong
       \/ /\ wrong' = [wrong EXCEPT ![tok[q]] = @ + 1]
          /\ Goto(q, "bump")
          /\ UNCHANGED code
    /\ UNCHANGED <<accountVars, preVars, failures, setups, kind, tok, using>>

\* The attempts after one more wrong code.  Mutant: it is not counted.
NotCounted(p) == attempts[p]
CountedOnce(p) == attempts[p] + 1

\* bumpPreAuthAttempt.
TotpBump(q) ==
    /\ pc[q] = "bump"
    /\ IF tok[q] \in preAuth
          THEN /\ attempts' = [attempts EXCEPT ![tok[q]] = CountedOnce(tok[q])]
               /\ preAuth' = IF CountedOnce(tok[q]) >= MaxAttempts THEN preAuth \ {tok[q]}
                                                                  ELSE preAuth
          ELSE UNCHANGED <<attempts, preAuth>>
    /\ Goto(q, "fail")
    /\ UNCHANGED <<accountVars, busy, born, failures, setups, reqVars, wrong>>

\* What a lock leaves of the pre-auths.  Mutant: they stay.
KeptOnLock == preAuth
VoidedOnLock == {}

\* recordTOTPAuthFailure: the failure that reaches the limit locks the second
\* stage and voids every pre-auth.
TotpFail(q) ==
    /\ pc[q] = "fail"
    /\ failures' = IF Locked THEN failures ELSE failures + 1
    /\ preAuth' = IF failures' = MaxFailures THEN VoidedOnLock ELSE preAuth
    /\ Goto(q, "done")
    /\ UNCHANGED <<accountVars, busy, attempts, born, setups, reqVars, wrong>>

\* claimPreAuth takes the entry for this request alone.  Mutant: a busy one is
\* taken again.
ClaimableTwice(p) == p \in preAuth /\ attempts[p] < MaxAttempts
Claimable(p) == p \in preAuth \ busy /\ attempts[p] < MaxAttempts
Refuse(q) == code' = [code EXCEPT ![q] = -1]

TotpClaim(q) ==
    /\ pc[q] = "claim"
    /\ IF Claimable(tok[q])
          THEN busy' = busy \cup {tok[q]} /\ Goto(q, "consume") /\ UNCHANGED code
          ELSE UNCHANGED busy /\ Goto(q, "done") /\ Refuse(q)
    /\ UNCHANGED <<accountVars, preAuth, attempts, born, failures, setups,
                   kind, tok, snap, using, wrong>>

\* The condition of the UPDATE.  Mutant: the last step may come again.
NotBefore(s) == admin.last =< s
After(s) == admin.last < s

\* ConsumeTOTPLoginStepAndCreateSession, one transaction: a code of a later step
\* than the last login's is recorded and the session inserted; else nothing is.
TotpConsume(q) ==
    /\ pc[q] = "consume"
    /\ IF After(code[q])
          THEN /\ admin' = [admin EXCEPT !.last = code[q]]
               /\ sessions' = sessions \cup {NewSession(q)}
               /\ UNCHANGED code
          ELSE Refuse(q) /\ UNCHANGED accountVars
    /\ Goto(q, "delete")
    /\ UNCHANGED <<preVars, failures, setups, kind, tok, snap, using, wrong>>

\* The transaction fails.
TotpConsumeFails(q) ==
    /\ pc[q] = "consume"
    /\ Refuse(q)
    /\ Goto(q, "release")
    /\ UNCHANGED <<accountVars, preVars, failures, setups, kind, tok, snap, using, wrong>>

\* releasePreAuth: the user may try again.  Mutant: the entry stays busy.
StillBusy(p) == busy
Released(p) == busy \ {p}

TotpRelease(q) ==
    /\ pc[q] = "release"
    /\ busy' = Released(tok[q])
    /\ Goto(q, "done")
    /\ UNCHANGED <<accountVars, preAuth, attempts, born, failures, setups, reqVars, wrong>>

\* deletePreAuthKey; a code that was used before counts as a failure.
TotpDelete(q) ==
    /\ pc[q] = "delete"
    /\ preAuth' = preAuth \ {tok[q]}
    /\ Goto(q, IF code[q] = -1 THEN "fail" ELSE "clear")
    /\ UNCHANGED <<accountVars, busy, attempts, born, failures, setups, reqVars, wrong>>

\* clearTOTPAuthFailures, also the end of an account change.
ClearFailures(q) ==
    /\ pc[q] = "clear"
    /\ failures' = 0
    /\ Goto(q, "done")
    /\ UNCHANGED <<accountVars, preVars, setups, reqVars, wrong>>

-----------------------------------------------------------------------------
(* Account requests: user name, password, TOTP setup, enable and disable.  *)

\* requireAuth admits the session; handleTOTPEnable first loads the secret that
\* was set up under it.
AccountStart(q, s, k) ==
    /\ pc[q] = "idle" /\ \E row \in sessions : row.id = s
    /\ k = "enable" => setups[s] # None
    /\ kind' = [kind EXCEPT ![q] = k]
    /\ using' = [using EXCEPT ![q] = s]
    /\ tok' = [tok EXCEPT ![q] = IF k = "enable" THEN setups[s] ELSE None]
    /\ Goto(q, "acquire")
    /\ UNCHANGED <<accountVars, preVars, failures, setups, snap, code, wrong>>

\* requireCurrentPassword has passed.  The TOTP handlers read the account again:
\* setup and enable want no secret, disable wants one (and a code that fits it).
AccountVerified(q) ==
    /\ pc[q] = "verified" /\ kind[q] \in AccountKind
    /\ Goto(q, CASE kind[q] \in {"username", "password"}          -> "commit"
                 [] kind[q] = "setup" /\ admin.secret = None      -> "setup"
                 [] kind[q] = "enable" /\ admin.secret = None     -> "commit"
                 [] kind[q] = "disable" /\ admin.secret # None    -> "commit"
                 [] OTHER                                         -> "done")
    /\ UNCHANGED <<accountVars, preVars, failures, setups, reqVars, wrong>>

\* storeTOTPSetup.
SetupStore(q) ==
    /\ pc[q] = "setup"
    /\ setups' = [setups EXCEPT ![using[q]] = q]
    /\ Goto(q, "done")
    /\ UNCHANGED <<accountVars, preVars, failures, reqVars, wrong>>

\* The Update...AndRevokeSessions transactions.  Disabling tests for a secret
\* again and does nothing without one.
AccountCommit(q) ==
    /\ pc[q] = "commit"
    /\ LET stored == CASE kind[q] = "username" -> [admin EXCEPT !.user = q]
                       [] kind[q] = "password" -> [admin EXCEPT !.pw = q, !.hash = "argon2id"]
                       [] kind[q] = "enable"   -> [admin EXCEPT !.secret = tok[q], !.last = -1]
                       [] kind[q] = "disable"  -> [admin EXCEPT !.secret = None, !.last = -1]
       IN  IF kind[q] = "disable" /\ admin.secret = None
              THEN Goto(q, "done") /\ UNCHANGED accountVars
              ELSE Goto(q, "clearPreAuth") /\ admin' = stored /\ sessions' = {}
    /\ UNCHANGED <<preVars, failures, setups, reqVars, wrong>>

ClearPreAuth(q) ==
    /\ pc[q] = "clearPreAuth"
    /\ preAuth' = {}
    /\ Goto(q, "clearSetups")
    /\ UNCHANGED <<accountVars, busy, attempts, born, failures, setups, reqVars, wrong>>

ClearSetups(q) ==
    /\ pc[q] = "clearSetups"
    /\ setups' = [s \in Req |-> None]
    /\ Goto(q, "clear")
    /\ UNCHANGED <<accountVars, preVars, failures, reqVars, wrong>>

\* handleLogout, and the expiry of a session.
SessionEnds(row) ==
    /\ sessions' = sessions \ {row}
    /\ setups' = [setups EXCEPT ![row.id] = None]
    /\ UNCHANGED <<admin, preVars, failures, pc, reqVars, wrong>>

-----------------------------------------------------------------------------
Login(q) ==
    \/ \E p \in Issued \cup {None} : LoginStart(q, p)
    \/ Acquire(q) \/ Verify(q) \/ Rehash(q) \/ LoginVerified(q) \/ LoginSession(q)
    \/ CreatePreAuth(q)

Totp(q) ==
    \/ \E p \in Req : TotpStart(q, p)
    \/ TotpLookup(q) \/ TotpMatch(q) \/ TotpBump(q) \/ TotpFail(q) \/ TotpClaim(q)
    \/ TotpConsume(q) \/ TotpConsumeFails(q) \/ TotpRelease(q) \/ TotpDelete(q) \/ ClearFailures(q)

Account(q) ==
    \/ \E s \in Req, k \in AccountKind : AccountStart(q, s, k)
    \/ AccountVerified(q) \/ SetupStore(q) \/ AccountCommit(q) \/ ClearPreAuth(q) \/ ClearSetups(q)

Next ==
    \/ \E q \in Req : Login(q) \/ Totp(q) \/ Account(q) \/ PreAuthExpires(q)
    \/ FailuresExpire
    \/ \E row \in sessions : SessionEnds(row)

Spec == Init /\ [][Next]_vars

-----------------------------------------------------------------------------
(* Properties.                                                             *)

\* docs/SECURITY.md: the time step of an accepted code is recorded atomically so
\* that the code cannot be used again.  No two sessions that are valid at the
\* same time came from codes of one time step, although enabling and disabling
\* TOTP set the recorded step back.
TOTPStepOnce ==
    \A r1, r2 \in sessions : r1.pre # None /\ r1.step = r2.step => r1 = r2

\* A pre-auth is good for one login, however its requests overlap: of all
\* requests that bring the token, at most one answers with a session.
Accepted(q) == kind[q] = "totp" /\ pc[q] \in {"delete", "clear", "done"} /\ code[q] # -1
PreAuthOnce == \A q, r \in Req : Accepted(q) /\ Accepted(r) /\ tok[q] = tok[r] => q = r

\* docs/SECURITY.md: a TOTP lockout voids all unfinished pre-auths.  A request
\* that was let in before the lock, and whose code is right, is still not able
\* to claim its pre-auth while the lock lasts.
LockVoidsPreAuth ==
    [][\A q \in Req : Locked /\ pc[q] = "claim" => pc'[q] # "consume"]_vars

\* An entry that is marked busy belongs to a request that will release or delete
\* it: no failure leaves a pre-auth that nobody can use.
BusyIsOwned ==
    \A p \in preAuth \cap busy : \E q \in Req :
        tok[q] = p /\ kind[q] = "totp" /\ pc[q] \in {"consume", "release", "delete"}

\* preauth_max_attempts is tested at the lookup and counted in a later critical
\* section, so overlapping requests compare more wrong codes than it allows, although
\* docs/CONFIGURATION.md:20 calls it the most wrong codes of one pre-auth.  The
\* overrun ends there: once that many requests have counted theirs, no request
\* has its code compared any more, whatever evictions, logins and account changes
\* come between.
CountedWrong(p) == wrong[p] - Cardinality({q \in Req : tok[q] = p /\ pc[q] = "bump"})
OverrunIsOverlap ==
    [][\A q \in Req : pc[q] = "lookup" /\ pc'[q] = "match" => CountedWrong(tok[q]) < MaxAttempts]_vars

\* docs/WEB_PANEL.md:52: a change of the credentials requires a new login.  Once
\* the password has been changed no session is valid that was opened with
\* another one.
SessionsFollowPassword == \A row \in sessions : row.pw = admin.pw

\* The password verification of internal/server/auth_test.go:557: only the change
\* of the password, and no login that upgrades its hash, sets another password.
PasswordStays ==
    [][admin'.pw # admin.pw => \E q \in Req : kind[q] = "password" /\ pc[q] = "commit"]_admin

-----------------------------------------------------------------------------
(* The strengthening that makes the properties of login.cfg inductive.     *)

TotpPlace == {"lookup", "match", "bump", "fail", "claim", "consume", "release", "delete"}

\* What a request is doing where it stands, and what it has in its hands there.
RequestInv == \A q \in Req :
    /\ pc[q] = "idle" => kind[q] = "none"
    /\ pc[q] \in TotpPlace => kind[q] = "totp"
    /\ pc[q] \in {"preauth", "session"} => kind[q] = "login"
    /\ pc[q] = "commit" => kind[q] \in {"username", "password", "enable", "disable"}
    /\ pc[q] \in {"setup", "clearPreAuth", "clearSetups"} => kind[q] \in AccountKind
    /\ kind[q] = "login" =>
          code[q] = -1 /\ tok[q] \in {None, q} /\ (tok[q] = q => pc[q] = "done")
    /\ kind[q] = "none" => code[q] = -1 /\ tok[q] = None
    /\ kind[q] = "totp" => tok[q] \in Issued
    /\ pc[q] \in {"lookup", "match", "bump", "fail", "release"} => code[q] = -1
    /\ pc[q] \in {"claim", "consume"} => code[q] # -1

\* Tokens are issued once.
IssueInv ==
    /\ preAuth \subseteq Issued /\ busy \subseteq Issued
    /\ \A p \in Req : attempts[p] # 0 \/ wrong[p] # 0 => p \in Issued

\* The requests whose code was wrong and is not counted yet, and those that are past
\* the comparison.
Bumping(p) == {q \in Req : tok[q] = p /\ pc[q] = "bump"}
Compared(p) == {q \in Req : kind[q] = "totp" /\ tok[q] = p /\ pc[q] \notin {"lookup", "match"}}

CountInv == \A p \in Req :
    /\ wrong[p] =< Cardinality(Compared(p))
    /\ p \in preAuth => attempts[p] < MaxAttempts /\ wrong[p] = attempts[p] + Cardinality(Bumping(p))

\* A request that has claimed its pre-auth, until it has given it back or failed.
Holder(q) == pc[q] \in {"consume", "release", "delete"}
Winner(q) == kind[q] = "totp" /\ pc[q] \in {"clear", "done"} /\ code[q] # -1
ClaimInv ==
    /\ \A q \in Req : Holder(q) => tok[q] \in busy
    /\ \A q \in Req : Winner(q) => tok[q] \notin preAuth
    /\ \A q, r \in Req : (Holder(q) \/ Winner(q)) /\ (Holder(r) \/ Winner(r)) /\ tok[q] = tok[r] => q = r

\* The recorded time step is that of the latest session of a second stage.
SessionInv ==
    \A row \in sessions : IF row.pre = None THEN row.step = -1
                                             ELSE row.step \in Nat /\ row.step =< admin.last

\* No request that was let in before the lock has a pre-auth left.
LockInv == Locked => \A q \in Req : kind[q] = "totp" => tok[q] \notin preAuth

LoginInv == RequestInv /\ IssueInv /\ CountInv /\ ClaimInv /\ BusyIsOwned /\ SessionInv /\ TOTPStepOnce /\ LockInv

=============================================================================
