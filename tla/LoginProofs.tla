---------------------------- MODULE LoginProofs ----------------------------
(***************************************************************************)
(* The promises of the second stage of the login, for every number of      *)
(* requests and pre-auths and every limit.                                 *)
(*                                                                         *)
(* TypeOK /\ LoginInv is inductive.  A step is one of a handler            *)
(* (Handles(q)), which moves its own request, or one of time and logout    *)
(* (Passes).  IssuedStep, PreAuthStep, BusyStep, CountStep, ActiveStep and *)
(* AccountStep say once what a handler does to tokens, claims, counters and*)
(* the account; the lemma of each part of LoginInv rests on those.         *)
(***************************************************************************)
EXTENDS Login, FiniteSetTheorems, TLAPS

USE LoginAssumption DEF LoginAssumption

-----------------------------------------------------------------------------
(* What a step leaves alone.                                               *)

\* A step of the handler of request q.
Handles(q) == Login(q) \/ Totp(q) \/ Account(q)

\* A step that belongs to no handler.
Passes == (\E p \in Req : PreAuthExpires(p)) \/ FailuresExpire \/ (\E row \in sessions : SessionEnds(row))

LEMMA NextCases == Next <=> (\E q \in Req : Handles(q)) \/ Passes
BY DEF Next, Handles, Passes

LEMMA PassesFrame ==
    ASSUME TypeOK, Passes
    PROVE  /\ UNCHANGED <<admin, busy, attempts, born, pc, kind, tok, snap, code, using, wrong>>
           /\ preAuth' \subseteq preAuth /\ sessions' \subseteq sessions
           /\ failures' = failures \/ (failures' = 0 /\ failures # 0)
           /\ setups' \in [Req -> Req \cup {None}]
<1>1. CASE \E p \in Req : PreAuthExpires(p)
  BY <1>1 DEF PreAuthExpires, accountVars, reqVars, TypeOK
<1>2. CASE FailuresExpire
  BY <1>2 DEF FailuresExpire, accountVars, preVars, reqVars, TypeOK
<1>3. CASE \E row \in sessions : SessionEnds(row)
  BY <1>3 DEF SessionEnds, preVars, reqVars, TypeOK
<1> QED BY <1>1, <1>2, <1>3 DEF Passes

\* A handler moves its own request.
LEMMA HandlesFrame ==
    ASSUME TypeOK, NEW q \in Req, Handles(q), NEW r \in Req, r # q
    PROVE  /\ pc'[r] = pc[r] /\ kind'[r] = kind[r] /\ tok'[r] = tok[r] /\ code'[r] = code[r]
           /\ using'[r] = using[r]
<1>1. CASE Login(q)
  BY <1>1 DEF Login, LoginStart, Acquire, Verify, Rehash, LoginVerified, LoginSession, CreatePreAuth, Goto,
     reqVars, TypeOK
<1>2. CASE Totp(q)
  BY <1>2 DEF Totp, TotpStart, TotpLookup, TotpMatch, TotpBump, TotpFail, TotpClaim, TotpConsume,
     TotpConsumeFails, TotpRelease, TotpDelete, ClearFailures, Goto, Refuse, reqVars, TypeOK
<1>3. CASE Account(q)
  BY <1>3 DEF Account, AccountStart, AccountVerified, SetupStore, AccountCommit, ClearPreAuth, ClearSetups,
     Goto, reqVars, TypeOK
<1> QED BY <1>1, <1>2, <1>3 DEF Handles

\* The places of a handler.
LEMMA PlaceTypes ==
    ASSUME TypeOK, NEW q \in Req, Handles(q)
    PROVE  /\ pc' \in [Req -> {"idle", "acquire", "verify", "rehash", "verified", "preauth", "session",
                       "lookup", "match", "bump", "fail", "claim", "consume", "release", "delete",
                       "clear", "setup", "commit", "clearPreAuth", "clearSetups", "done"}]
           /\ kind' \in [Req -> {"none", "login", "totp"} \cup AccountKind]
           /\ tok' \in [Req -> Req \cup {None}]
           /\ code' \in [Req -> -1..MaxStep]
           /\ using' \in [Req -> Req \cup {None}]
<1>1. CASE Login(q)
  BY <1>1 DEF Login, LoginStart, Acquire, Verify, Rehash, LoginVerified, LoginSession, CreatePreAuth, Goto,
     reqVars, TypeOK
<1>2. CASE Totp(q)
  BY <1>2 DEF Totp, TotpStart, TotpLookup, TotpMatch, TotpBump, TotpFail, TotpClaim, TotpConsume,
     TotpConsumeFails, TotpRelease, TotpDelete, ClearFailures, Goto, Refuse, reqVars, TypeOK
<1>3. CASE Account(q)
  BY <1>3 DEF Account, AccountStart, AccountVerified, SetupStore, AccountCommit, ClearPreAuth, ClearSetups,
     Goto, reqVars, TypeOK
<1> QED BY <1>1, <1>2, <1>3 DEF Handles

\* Tokens are issued by createPreAuth alone.
LEMMA IssuedStep ==
    ASSUME TypeOK, RequestInv, NEW q \in Req, Handles(q)
    PROVE  IF CreatePreAuth(q) THEN q \notin Issued /\ Issued' = Issued \cup {q}
                               ELSE Issued' = Issued
<1>1. \A r \in Req \ {q} : r \in Issued' <=> r \in Issued
  BY HandlesFrame DEF Issued
<1>2. CASE CreatePreAuth(q)
  <2>1. q \notin Issued
    BY <1>2 DEF CreatePreAuth, RequestInv, Issued
  <2>2. q \in Issued'
    BY <1>2 DEF CreatePreAuth, RequestInv, Issued, TypeOK
  <2> QED BY <1>1, <1>2, <2>1, <2>2 DEF Issued
<1>3. CASE ~CreatePreAuth(q)
  <2>1. CASE pc[q] = "idle"
    <3>1. q \notin Issued
      BY <2>1 DEF RequestInv, Issued
    <3>2. q \notin Issued'
      <4>1. CASE \E p \in Issued \cup {None} : LoginStart(q, p)
        BY <2>1, <4>1 DEF LoginStart, RequestInv, Issued
      <4>2. CASE ~\E p \in Issued \cup {None} : LoginStart(q, p)
        <5>1. kind'[q] # "login"
          BY <2>1, <4>2 DEF Handles, Login, Acquire, Verify, Rehash, LoginVerified, LoginSession,
             CreatePreAuth, Totp, TotpStart, TotpLookup, TotpMatch, TotpBump, TotpFail, TotpClaim, TotpConsume,
             TotpConsumeFails, TotpRelease, TotpDelete, ClearFailures, Account, AccountStart, AccountVerified,
             SetupStore, AccountCommit, ClearPreAuth, ClearSetups, AccountKind, TypeOK
        <5> QED BY <5>1 DEF Issued
      <4> QED BY <4>1, <4>2
    <3> QED BY <1>1, <1>3, <3>1, <3>2 DEF Issued
  <2>2. CASE pc[q] # "idle"
    <3>1. kind' = kind /\ tok' = tok
      BY <1>3, <2>2 DEF Handles, Login, LoginStart, Acquire, Verify, Rehash, LoginVerified, LoginSession,
         Totp, TotpStart, TotpLookup, TotpMatch, TotpBump, TotpFail, TotpClaim, TotpConsume,
         TotpConsumeFails, TotpRelease, TotpDelete, ClearFailures, Account, AccountStart, AccountVerified,
         SetupStore, AccountCommit, ClearPreAuth, ClearSetups, reqVars
    <3> QED BY <1>3, <3>1 DEF Issued
  <2> QED BY <2>1, <2>2
<1> QED BY <1>2, <1>3

LEMMA RequestInvStep ==
    ASSUME TypeOK, RequestInv, Next
    PROVE  RequestInv'
<1>1. CASE Passes
  <2>1. UNCHANGED <<pc, kind, tok, code, using>>
    BY <1>1, PassesFrame
  <2> QED BY <2>1 DEF RequestInv, Issued
<1>2. ASSUME NEW q \in Req, Handles(q) PROVE RequestInv'
  <2>0. Issued \subseteq Issued'
    BY <1>2, IssuedStep
  <2> DEFINE Fit(r) ==
        /\ pc'[r] = "idle" => kind'[r] = "none"
        /\ pc'[r] \in TotpPlace => kind'[r] = "totp"
        /\ pc'[r] \in {"preauth", "session"} => kind'[r] = "login"
        /\ pc'[r] = "commit" => kind'[r] \in {"username", "password", "enable", "disable"}
        /\ pc'[r] \in {"setup", "clearPreAuth", "clearSetups"} => kind'[r] \in AccountKind
        /\ kind'[r] = "login" =>
              code'[r] = -1 /\ tok'[r] \in {None, r} /\ (tok'[r] = r => pc'[r] = "done")
        /\ kind'[r] = "none" => code'[r] = -1 /\ tok'[r] = None
        /\ kind'[r] = "totp" => tok'[r] \in Issued'
        /\ pc'[r] \in {"lookup", "match", "bump", "fail", "release"} => code'[r] = -1
        /\ pc'[r] \in {"claim", "consume"} => code'[r] # -1
  <2>1. ASSUME NEW r \in Req, r # q PROVE Fit(r)
    BY <1>2, <2>0, <2>1, HandlesFrame DEF RequestInv
  <2>2. Fit(q)
    <3>1. CASE Login(q)
      BY <2>0, <3>1 DEF Login, LoginStart, Acquire, Verify, Rehash, LoginVerified, LoginSession, CreatePreAuth,
         Goto, reqVars, TypeOK, RequestInv, TotpPlace, AccountKind
    <3>2. CASE Totp(q)
      BY <2>0, <3>2 DEF Totp, TotpStart, TotpLookup, TotpMatch, TotpBump, TotpFail, TotpClaim, TotpConsume,
         TotpConsumeFails, TotpRelease, TotpDelete, ClearFailures, Goto, Refuse, reqVars, TypeOK, RequestInv, TotpPlace
    <3>3. CASE Account(q)
      BY <2>0, <3>3 DEF Account, AccountStart, AccountVerified, SetupStore, AccountCommit, ClearPreAuth,
         ClearSetups, Goto, reqVars, TypeOK, RequestInv, TotpPlace, AccountKind
    <3> QED BY <1>2, <3>1, <3>2, <3>3 DEF Handles
  <2> QED BY <2>1, <2>2 DEF RequestInv
<1> QED BY <1>1, <1>2, NextCases

-----------------------------------------------------------------------------
(* What a step does to the pre-auth states.                                *)

LEMMA PreAuthStep ==
    ASSUME TypeOK, NEW q \in Req, Handles(q)
    PROVE  preAuth' \subseteq preAuth \/ (CreatePreAuth(q) /\ preAuth' \subseteq preAuth \cup {q})
<1>1. CASE Login(q)
  BY <1>1 DEF Login, LoginStart, Acquire, Verify, Rehash, LoginVerified, LoginSession, CreatePreAuth, preVars
<1>2. CASE Totp(q)
  BY <1>2 DEF Totp, TotpStart, TotpLookup, TotpMatch, TotpBump, TotpFail, TotpClaim, TotpConsume,
     TotpConsumeFails, TotpRelease, TotpDelete, ClearFailures, VoidedOnLock, preVars
<1>3. CASE Account(q)
  BY <1>3 DEF Account, AccountStart, AccountVerified, SetupStore, AccountCommit, ClearPreAuth, ClearSetups,
     preVars
<1> QED BY <1>1, <1>2, <1>3 DEF Handles

LEMMA BusyStep ==
    ASSUME NEW q \in Req, Handles(q)
    PROVE  \/ busy' = busy
           \/ TotpClaim(q) /\ Claimable(tok[q]) /\ busy' = busy \cup {tok[q]}
           \/ TotpRelease(q) /\ busy' = busy \ {tok[q]}
<1>1. CASE Login(q)
  BY <1>1 DEF Login, LoginStart, Acquire, Verify, Rehash, LoginVerified, LoginSession, CreatePreAuth, preVars
<1>2. CASE Totp(q)
  BY <1>2 DEF Totp, TotpStart, TotpLookup, TotpMatch, TotpBump, TotpFail, TotpClaim, TotpConsume,
     TotpConsumeFails, TotpRelease, TotpDelete, ClearFailures, Released, preVars
<1>3. CASE Account(q)
  BY <1>3 DEF Account, AccountStart, AccountVerified, SetupStore, AccountCommit, ClearPreAuth, ClearSetups,
     preVars
<1> QED BY <1>1, <1>2, <1>3 DEF Handles

\* The counters of wrong codes.
LEMMA CountStep ==
    ASSUME TypeOK, NEW q \in Req, Handles(q)
    PROVE  \/ /\ UNCHANGED <<attempts, wrong>>
              /\ \/ ~(pc[q] = "bump" \/ pc'[q] = "bump")
                 \/ pc[q] = "bump" /\ pc'[q] = "fail" /\ tok' = tok /\ tok[q] \notin preAuth /\ preAuth' = preAuth
           \/ /\ pc[q] = "match" /\ pc'[q] = "bump" /\ UNCHANGED <<attempts, kind, tok, preAuth>>
              /\ wrong' = [wrong EXCEPT ![tok[q]] = @ + 1]
           \/ /\ pc[q] = "bump" /\ pc'[q] = "fail" /\ UNCHANGED <<wrong, kind, tok>> /\ tok[q] \in preAuth
              /\ attempts' = [attempts EXCEPT ![tok[q]] = @ + 1]
              /\ preAuth' = IF attempts[tok[q]] + 1 >= MaxAttempts THEN preAuth \ {tok[q]} ELSE preAuth
<1>1. CASE Login(q)
  BY <1>1 DEF Login, LoginStart, Acquire, Verify, Rehash, LoginVerified, LoginSession, CreatePreAuth, preVars,
     Goto, TypeOK
<1>2. CASE TotpMatch(q)
  BY <1>2 DEF TotpMatch, preVars, Goto, TypeOK
<1>3. CASE TotpBump(q)
  BY <1>3 DEF TotpBump, CountedOnce, reqVars, Goto, TypeOK
<1>4. CASE Totp(q) /\ ~TotpMatch(q) /\ ~TotpBump(q)
  BY <1>4 DEF Totp, TotpStart, TotpLookup, TotpFail, TotpClaim, TotpConsume,
     TotpConsumeFails, TotpRelease, TotpDelete, ClearFailures, preVars, Goto, TypeOK
<1>5. CASE Account(q)
  BY <1>5 DEF Account, AccountStart, AccountVerified, SetupStore, AccountCommit, ClearPreAuth, ClearSetups,
     preVars, Goto, TypeOK
<1> QED BY <1>1, <1>2, <1>3, <1>4, <1>5 DEF Handles

LEMMA IssueInvStep ==
    ASSUME TypeOK, RequestInv, IssueInv, Next
    PROVE  IssueInv'
<1>1. CASE Passes
  <2>1. UNCHANGED <<busy, attempts, kind, tok, wrong>> /\ preAuth' \subseteq preAuth
    BY <1>1, PassesFrame
  <2> QED BY <2>1 DEF IssueInv, Issued
<1>2. ASSUME NEW q \in Req, Handles(q) PROVE IssueInv'
  <2>0. Issued \subseteq Issued' /\ (CreatePreAuth(q) => q \in Issued')
    BY <1>2, IssuedStep
  <2>1. preAuth' \subseteq Issued'
    BY <1>2, <2>0, PreAuthStep DEF IssueInv
  <2>2. busy' \subseteq Issued'
    BY <1>2, <2>0, BusyStep DEF IssueInv, Claimable
  <2>3. pc[q] = "match" => tok[q] \in Issued
    BY DEF RequestInv, TotpPlace
  <2>4. \A p \in Req : attempts'[p] # 0 \/ wrong'[p] # 0 => p \in Issued'
    BY <1>2, <2>0, <2>3, CountStep DEF IssueInv, TypeOK
  <2> QED BY <2>1, <2>2, <2>4 DEF IssueInv
<1> QED BY <1>1, <1>2, NextCases

-----------------------------------------------------------------------------
(* Claims.                                                                 *)

Active(q) == Holder(q) \/ Winner(q)

LEMMA ActiveStep ==
    ASSUME TypeOK, RequestInv, NEW q \in Req, Handles(q), Active(q)'
    PROVE  /\ tok'[q] = tok[q]
           /\ \/ Active(q)
              \/ TotpClaim(q) /\ Claimable(tok[q]) /\ busy' = busy \cup {tok[q]}
           /\ Holder(q)' /\ Active(q) => Holder(q) /\ ~TotpRelease(q)
           /\ Winner(q)' => tok[q] \notin preAuth' \/ (Winner(q) /\ preAuth' = preAuth)
<1>1. CASE Login(q)
  BY <1>1 DEF Login, LoginStart, Acquire, Verify, Rehash, LoginVerified, LoginSession, CreatePreAuth,
     Goto, reqVars, TypeOK, RequestInv, TotpPlace, Active, Holder, Winner
<1>2. CASE Totp(q)
  BY <1>2 DEF Totp, TotpStart, TotpLookup, TotpMatch, TotpBump, TotpFail, TotpClaim, TotpConsume,
     TotpConsumeFails, TotpRelease, TotpDelete, ClearFailures, Goto, Refuse, preVars, reqVars, TypeOK, RequestInv, TotpPlace,
     Active, Holder, Winner
<1>3. CASE Account(q)
  BY <1>3 DEF Account, AccountStart, AccountVerified, SetupStore, AccountCommit, ClearPreAuth, ClearSetups,
     Goto, reqVars, TypeOK, RequestInv, TotpPlace, AccountKind, Active, Holder, Winner
<1> QED BY <1>1, <1>2, <1>3 DEF Handles

LEMMA ClaimInvStep ==
    ASSUME TypeOK, RequestInv, IssueInv, ClaimInv, Next
    PROVE  ClaimInv'
<1>1. CASE Passes
  <2>1. UNCHANGED <<busy, pc, kind, tok, code>> /\ preAuth' \subseteq preAuth
    BY <1>1, PassesFrame
  <2> QED BY <2>1 DEF ClaimInv, Holder, Winner
<1>2. ASSUME NEW q \in Req, Handles(q) PROVE ClaimInv'
  <2>0. \A r \in Req \ {q} : tok'[r] = tok[r] /\ (Holder(r)' <=> Holder(r)) /\ (Winner(r)' <=> Winner(r))
    BY <1>2, HandlesFrame DEF Holder, Winner
  <2>1. ASSUME NEW r \in Req, Holder(r)' PROVE tok'[r] \in busy'
    <3>1. CASE r # q
      <4>1. Holder(r) /\ tok'[r] = tok[r] /\ tok[r] \in busy
        BY <2>0, <2>1, <3>1 DEF ClaimInv
      <4>2. TotpRelease(q) => Holder(q)
        BY DEF TotpRelease, Holder
      <4> QED BY <1>2, <3>1, <4>1, <4>2, BusyStep DEF ClaimInv
    <3>2. CASE r = q
      <4>1. Active(q)'
        BY <2>1, <3>2 DEF Active
      <4> QED BY <1>2, <2>1, <3>2, <4>1, ActiveStep, BusyStep DEF ClaimInv
    <3> QED BY <3>1, <3>2
  <2>2. ASSUME NEW r \in Req, Winner(r)' PROVE tok'[r] \notin preAuth'
    <3>1. CASE r # q
      <4>1. Winner(r) /\ tok'[r] = tok[r] /\ tok[r] \notin preAuth
        BY <2>0, <2>2, <3>1 DEF ClaimInv
      <4>2. tok[r] \in Issued
        BY <4>1 DEF Winner, RequestInv
      <4> QED BY <1>2, <4>1, <4>2, PreAuthStep, IssuedStep
    <3>2. CASE r = q
      <4>1. Active(q)'
        BY <2>2, <3>2 DEF Active
      <4> QED BY <1>2, <2>2, <3>2, <4>1, ActiveStep DEF ClaimInv
    <3> QED BY <3>1, <3>2
  <2>3. ASSUME NEW r \in Req, Active(q)', Active(r)', tok'[q] = tok'[r], r # q
        PROVE  FALSE
    <3>1. Active(r) /\ tok'[r] = tok[r] /\ tok'[q] = tok[q]
      BY <1>2, <2>0, <2>3, ActiveStep DEF Active
    <3>2. CASE Active(q)
      BY <2>3, <3>1, <3>2 DEF ClaimInv, Active
    <3>3. CASE Claimable(tok[q])
      BY <2>3, <3>1, <3>3 DEF ClaimInv, Active, Claimable
    <3> QED BY <1>2, <2>3, <3>2, <3>3, ActiveStep
  <2>4. \A r, t \in Req : Active(r)' /\ Active(t)' /\ tok'[r] = tok'[t] => r = t
    <3>1. ASSUME NEW r \in Req, NEW t \in Req, Active(r)', Active(t)', tok'[r] = tok'[t], r # q, t # q
          PROVE  r = t
      BY <2>0, <3>1 DEF ClaimInv, Active
    <3> QED BY <2>3, <3>1
  <2> QED BY <2>1, <2>2, <2>4 DEF ClaimInv, Active
<1> QED BY <1>1, <1>2, NextCases

LEMMA BusyIsOwnedStep ==
    ASSUME TypeOK, RequestInv, IssueInv, BusyIsOwned, Next
    PROVE  BusyIsOwned'
<1>1. CASE Passes
  <2>1. UNCHANGED <<busy, pc, kind, tok>> /\ preAuth' \subseteq preAuth
    BY <1>1, PassesFrame
  <2> QED BY <2>1 DEF BusyIsOwned
<1>2. ASSUME NEW q \in Req, Handles(q) PROVE BusyIsOwned'
  <2> DEFINE Own(r, p) == tok[r] = p /\ kind[r] = "totp" /\ pc[r] \in {"consume", "release", "delete"}
  <2> SUFFICES ASSUME NEW p \in preAuth', p \in busy' PROVE \E r \in Req : Own(r, p)'
    BY DEF BusyIsOwned
  <2>1. CASE p \in busy /\ p \in preAuth
    <3>1. PICK r \in Req : Own(r, p)
      BY <2>1 DEF BusyIsOwned
    <3>2. CASE r # q
      BY <1>2, <3>1, <3>2, HandlesFrame
    <3>3. CASE r = q
      <4>1. TotpConsume(q) \/ TotpConsumeFails(q) \/ TotpRelease(q) \/ TotpDelete(q)
        BY <1>2, <3>1, <3>3 DEF Handles, Login, LoginStart, Acquire, Verify, Rehash, LoginVerified, LoginSession,
           CreatePreAuth, Totp, TotpStart, TotpLookup, TotpMatch, TotpBump, TotpFail, TotpClaim, ClearFailures, Account,
           AccountStart, AccountVerified, SetupStore, AccountCommit, ClearPreAuth, ClearSetups
      <4>2. CASE TotpRelease(q) \/ TotpDelete(q)
        BY <3>1, <3>3, <4>2 DEF TotpRelease, TotpDelete, Released
      <4>3. CASE TotpConsume(q) \/ TotpConsumeFails(q)
        BY <3>1, <3>3, <4>3 DEF TotpConsume, TotpConsumeFails, Goto, TypeOK
      <4> QED BY <4>1, <4>2, <4>3
    <3> QED BY <3>2, <3>3
  <2>2. CASE p \notin busy
    <3>1. TotpClaim(q) /\ Claimable(tok[q]) /\ p = tok[q]
      BY <1>2, <2>2, BusyStep
    <3>2. kind[q] = "totp"
      BY <3>1 DEF TotpClaim, RequestInv, TotpPlace
    <3> QED BY <3>1, <3>2 DEF TotpClaim, Goto, TypeOK
  <2>3. CASE p \notin preAuth
    <3>1. CreatePreAuth(q) /\ p = q
      BY <1>2, <2>3, PreAuthStep
    <3>2. q \notin busy
      BY <1>2, <3>1, IssuedStep DEF IssueInv
    <3> QED BY <3>1, <3>2 DEF CreatePreAuth
  <2> QED BY <2>1, <2>2, <2>3
<1> QED BY <1>1, <1>2, NextCases

LEMMA LockInvStep ==
    ASSUME TypeOK, RequestInv, LockInv, Next
    PROVE  LockInv'
<1>1. CASE Passes
  <2>1. /\ UNCHANGED <<kind, tok>> /\ preAuth' \subseteq preAuth
        /\ failures' = failures \/ (failures' = 0 /\ failures # 0)
    BY <1>1, PassesFrame
  <2> QED BY <2>1 DEF LockInv, Locked
<1>2. ASSUME NEW q \in Req, Handles(q) PROVE LockInv'
  <2> SUFFICES ASSUME Locked', NEW r \in Req, kind'[r] = "totp"
               PROVE  tok'[r] \notin preAuth'
    BY DEF LockInv
  <2>1. CASE TotpFail(q)
    BY <2>1 DEF TotpFail, Locked, VoidedOnLock
  <2>2. CASE ~TotpFail(q)
    <3>1. failures' = failures \/ failures' = 0
      BY <1>2, <2>2 DEF Handles, Login, LoginStart, Acquire, Verify, Rehash, LoginVerified, LoginSession,
         CreatePreAuth, Totp, TotpStart, TotpLookup, TotpMatch, TotpBump, TotpClaim, TotpConsume,
         TotpConsumeFails, TotpRelease, TotpDelete, ClearFailures, Account, AccountStart, AccountVerified,
         SetupStore, AccountCommit, ClearPreAuth, ClearSetups
    <3>2. Locked
      BY <3>1 DEF Locked
    <3>3. kind[r] = "totp" /\ tok'[r] = tok[r]
      <4>1. CASE r # q
        BY <1>2, <4>1, HandlesFrame
      <4>2. CASE r = q
        <5>1. ~\E p \in Req : TotpStart(q, p)
          BY <3>2 DEF TotpStart
        <5>2. ~CreatePreAuth(q)
          BY <4>2 DEF CreatePreAuth, RequestInv
        <5> QED BY <1>2, <4>2, <5>1, <5>2 DEF Handles, Login, LoginStart, Acquire, Verify, Rehash, LoginVerified,
           LoginSession, Totp, TotpLookup, TotpMatch, TotpBump, TotpFail, TotpClaim, TotpConsume,
           TotpConsumeFails, TotpRelease, TotpDelete, ClearFailures, Account, AccountStart, AccountVerified,
           SetupStore, AccountCommit, ClearPreAuth, ClearSetups, reqVars, AccountKind, TypeOK
      <4> QED BY <4>1, <4>2
    <3>4. tok[r] \notin preAuth /\ tok[r] \in Issued
      BY <3>2, <3>3 DEF LockInv, RequestInv
    <3> QED BY <1>2, <3>3, <3>4, PreAuthStep, IssuedStep
  <2> QED BY <2>1, <2>2
<1> QED BY <1>1, <1>2, NextCases

-----------------------------------------------------------------------------
(* Wrong codes.                                                            *)

LEMMA ReqSubset ==
    ASSUME NEW S \in SUBSET Req
    PROVE  IsFiniteSet(S) /\ Cardinality(S) \in Nat /\ Cardinality(S) =< Cardinality(Req) /\ Cardinality(Req) \in Nat
BY FS_Subset, FS_CardinalityType

LEMMA OneMore ==
    ASSUME NEW S \in SUBSET Req, NEW x \in Req, x \notin S
    PROVE  Cardinality(S \cup {x}) = Cardinality(S) + 1
BY ReqSubset, FS_AddElement

LEMMA Smaller ==
    ASSUME NEW S \in SUBSET Req, NEW T \in SUBSET S
    PROVE  Cardinality(T) =< Cardinality(S)
BY ReqSubset, FS_Subset

LEMMA BumpingStep ==
    ASSUME TypeOK, RequestInv, NEW q \in Req, Handles(q), NEW p \in Req
    PROVE  /\ ~(pc[q] = "bump" \/ pc'[q] = "bump") => Bumping(p)' = Bumping(p)
           /\ pc[q] = "match" /\ pc'[q] = "bump" /\ tok' = tok =>
                 /\ q \notin Bumping(p)
                 /\ Bumping(p)' = IF tok[q] = p THEN Bumping(p) \cup {q} ELSE Bumping(p)
           /\ pc[q] = "bump" /\ pc'[q] = "fail" /\ tok' = tok =>
                 Bumping(p)' = IF tok[q] = p THEN Bumping(p) \ {q} ELSE Bumping(p)
<1>1. \A r \in Req \ {q} : r \in Bumping(p)' <=> r \in Bumping(p)
  BY HandlesFrame DEF Bumping
<1> QED BY <1>1 DEF Bumping

LEMMA ComparedStep ==
    ASSUME TypeOK, RequestInv, NEW q \in Req, Handles(q), NEW p \in Req
    PROVE  Compared(p) \subseteq Compared(p)'
<1>1. \A r \in Req \ {q} : r \in Compared(p)' <=> r \in Compared(p)
  BY HandlesFrame DEF Compared
<1>2. q \in Compared(p) => q \in Compared(p)'
  <2> SUFFICES ASSUME kind[q] = "totp", pc[q] \notin {"lookup", "match"}
               PROVE  kind'[q] = "totp" /\ tok'[q] = tok[q] /\ pc'[q] \notin {"lookup", "match"}
    BY DEF Compared
  <2>1. pc[q] # "idle" /\ ~CreatePreAuth(q)
    BY DEF RequestInv, CreatePreAuth
  <2> QED BY <2>1 DEF Handles, Login, LoginStart, Acquire, Verify, Rehash, LoginVerified,
       LoginSession, Totp, TotpStart, TotpLookup, TotpMatch, TotpBump, TotpFail, TotpClaim, TotpConsume,
       TotpConsumeFails, TotpRelease, TotpDelete, ClearFailures, Account, AccountStart, AccountVerified,
       SetupStore, AccountCommit, ClearPreAuth, ClearSetups, reqVars, Goto, TypeOK
<1> QED BY <1>1, <1>2 DEF Compared

LEMMA CountInvStep ==
    ASSUME TypeOK, RequestInv, IssueInv, CountInv, Next
    PROVE  CountInv' /\ wrong' \in [Req -> Nat] /\ attempts' \in [Req -> 0..MaxAttempts]
<1>0. wrong \in [Req -> Nat] /\ attempts \in [Req -> 0..MaxAttempts] /\ preAuth \subseteq Req
  BY ReqSubset DEF TypeOK
<1>1. CASE Passes
  <2>1. UNCHANGED <<attempts, pc, kind, tok, wrong>> /\ preAuth' \subseteq preAuth
    BY <1>1, PassesFrame
  <2> QED BY <1>0, <2>1 DEF CountInv, Compared, Bumping
<1>2. ASSUME NEW q \in Req, Handles(q)
      PROVE  CountInv' /\ wrong' \in [Req -> Nat] /\ attempts' \in [Req -> 0..MaxAttempts]
  <2>0. \A p \in Req : /\ Cardinality(Compared(p)) \in Nat /\ Cardinality(Compared(p)') \in Nat
                       /\ Cardinality(Compared(p)) =< Cardinality(Compared(p)')
                       /\ Cardinality(Bumping(p)) \in Nat
    <3> TAKE p \in Req
    <3>1. Compared(p) \subseteq Compared(p)' /\ Compared(p)' \subseteq Req /\ Bumping(p) \subseteq Req
      BY <1>2, ComparedStep DEF Compared, Bumping
    <3> QED BY <3>1, ReqSubset, Smaller
  <2>1. ASSUME NEW p \in Req, p \notin preAuth, p \in preAuth'
        PROVE  attempts'[p] < MaxAttempts /\ wrong'[p] = attempts'[p] + Cardinality(Bumping(p)')
    <3>1. CreatePreAuth(q) /\ p = q /\ q \notin Issued
      BY <1>2, <2>1, PreAuthStep, IssuedStep
    <3>2. UNCHANGED <<attempts, wrong>> /\ attempts[q] = 0 /\ wrong[q] = 0 /\ pc[q] = "preauth" /\ pc'[q] = "done"
      BY <3>1 DEF CreatePreAuth, IssueInv, Goto, TypeOK
    <3>3. Bumping(q)' = Bumping(q)
      BY <1>2, <3>2, BumpingStep
    <3>4. Bumping(q) = {}
      BY <3>1 DEF Bumping, RequestInv, TotpPlace
    <3> QED BY <3>1, <3>2, <3>3, <3>4, FS_EmptySet
  <2>2. CASE /\ UNCHANGED <<attempts, wrong>>
             /\ \/ ~(pc[q] = "bump" \/ pc'[q] = "bump")
                \/ pc[q] = "bump" /\ pc'[q] = "fail" /\ tok' = tok /\ tok[q] \notin preAuth /\ preAuth' = preAuth
    <3>1. \A p \in Req : wrong[p] =< Cardinality(Compared(p)')
      <4> TAKE p \in Req
      <4>1. wrong[p] \in Nat /\ wrong[p] =< Cardinality(Compared(p))
        BY <1>0 DEF CountInv
      <4> QED BY <2>0, <4>1
    <3>2. ASSUME NEW p \in Req, p \in preAuth, p \in preAuth'
          PROVE  attempts[p] < MaxAttempts /\ wrong[p] = attempts[p] + Cardinality(Bumping(p)')
      <4>1. Bumping(p)' = Bumping(p)
        BY <1>2, <2>2, <3>2, BumpingStep
      <4> QED BY <3>2, <4>1 DEF CountInv
    <3>3. \A p \in Req : p \in preAuth' => attempts'[p] < MaxAttempts /\ wrong'[p] = attempts'[p] + Cardinality(Bumping(p)')
      BY <2>1, <2>2, <3>2
    <3> QED BY <1>0, <2>2, <3>1, <3>3 DEF CountInv
  <2>3. CASE /\ pc[q] = "match" /\ pc'[q] = "bump" /\ UNCHANGED <<attempts, kind, tok, preAuth>>
             /\ wrong' = [wrong EXCEPT ![tok[q]] = @ + 1]
    <3>0. tok[q] \in Req /\ kind[q] = "totp"
      BY <2>3 DEF RequestInv, Issued, TotpPlace
    <3>1. \A p \in Req : wrong'[p] = IF p = tok[q] THEN wrong[p] + 1 ELSE wrong[p]
      BY <1>0, <2>3
    <3>2. wrong' \in [Req -> Nat]
      <4>1. wrong[tok[q]] + 1 \in Nat
        BY <1>0, <3>0
      <4> QED BY <1>0, <2>3, <4>1
    <3>3. ASSUME NEW p \in Req PROVE wrong'[p] =< Cardinality(Compared(p)')
      <4>0. wrong[p] \in Nat /\ wrong[p] =< Cardinality(Compared(p))
        BY <1>0 DEF CountInv
      <4>1. CASE p = tok[q]
        <5>1. q \notin Compared(p) /\ q \in Compared(p)' /\ Compared(p) \subseteq Req /\ Compared(p)' \subseteq Req
          BY <2>3, <3>0, <4>1 DEF Compared
        <5>2. Compared(p) \cup {q} \subseteq Compared(p)'
          BY <1>2, <5>1, ComparedStep
        <5>3. Cardinality(Compared(p)) + 1 =< Cardinality(Compared(p)')
          BY <5>1, <5>2, OneMore, Smaller
        <5>4. wrong[p] + 1 =< Cardinality(Compared(p)')
          BY <2>0, <4>0, <5>3
        <5> QED BY <3>1, <4>1, <5>4
      <4>2. CASE p # tok[q]
        <5>1. wrong[p] =< Cardinality(Compared(p)')
          BY <2>0, <4>0
        <5> QED BY <3>1, <4>2, <5>1
      <4> QED BY <4>1, <4>2
    <3>4. ASSUME NEW p \in Req, p \in preAuth
          PROVE  attempts[p] < MaxAttempts /\ wrong'[p] = attempts[p] + Cardinality(Bumping(p)')
      <4>0. attempts[p] < MaxAttempts /\ wrong[p] = attempts[p] + Cardinality(Bumping(p)) /\ attempts[p] \in Nat
        BY <1>0, <3>4 DEF CountInv
      <4>1. q \notin Bumping(p) /\ Bumping(p)' = IF tok[q] = p THEN Bumping(p) \cup {q} ELSE Bumping(p)
        BY <1>2, <2>3, BumpingStep
      <4>2. CASE p = tok[q]
        <5>1. Cardinality(Bumping(p)') = Cardinality(Bumping(p)) + 1
          BY <4>1, <4>2, OneMore DEF Bumping
        <5>2. wrong'[p] = wrong[p] + 1
          BY <3>1, <4>2
        <5>3. wrong[p] + 1 = attempts[p] + (Cardinality(Bumping(p)) + 1)
          BY <2>0, <4>0
        <5> QED BY <4>0, <5>1, <5>2, <5>3
      <4>3. CASE p # tok[q]
        BY <3>1, <4>0, <4>1, <4>3
      <4> QED BY <4>2, <4>3
    <3> QED BY <1>0, <2>3, <3>2, <3>3, <3>4 DEF CountInv
  <2>4. CASE /\ pc[q] = "bump" /\ pc'[q] = "fail" /\ UNCHANGED <<wrong, kind, tok>> /\ tok[q] \in preAuth
             /\ attempts' = [attempts EXCEPT ![tok[q]] = @ + 1]
             /\ preAuth' = IF attempts[tok[q]] + 1 >= MaxAttempts THEN preAuth \ {tok[q]} ELSE preAuth
    <3>0. tok[q] \in Req /\ attempts[tok[q]] < MaxAttempts /\ attempts[tok[q]] \in Nat
      BY <1>0, <2>4 DEF CountInv
    <3>1. \A p \in Req : attempts'[p] = IF p = tok[q] THEN attempts[p] + 1 ELSE attempts[p]
      BY <1>0, <2>4
    <3>2. attempts' \in [Req -> 0..MaxAttempts]
      BY <1>0, <2>4, <3>0
    <3>3. \A p \in Req : wrong[p] =< Cardinality(Compared(p)')
      <4> TAKE p \in Req
      <4>1. wrong[p] \in Nat /\ wrong[p] =< Cardinality(Compared(p))
        BY <1>0 DEF CountInv
      <4> QED BY <2>0, <4>1
    <3>4. ASSUME NEW p \in Req, p \in preAuth'
          PROVE  attempts'[p] < MaxAttempts /\ wrong[p] = attempts'[p] + Cardinality(Bumping(p)')
      <4>0. /\ p \in preAuth /\ attempts[p] < MaxAttempts /\ wrong[p] = attempts[p] + Cardinality(Bumping(p))
            /\ attempts[p] \in Nat
        BY <1>0, <2>4, <3>4 DEF CountInv
      <4>1. Bumping(p)' = IF tok[q] = p THEN Bumping(p) \ {q} ELSE Bumping(p)
        BY <1>2, <2>4, BumpingStep
      <4>2. CASE p = tok[q]
        <5>1. q \in Bumping(p) /\ IsFiniteSet(Bumping(p))
          BY <2>4, <4>2, ReqSubset DEF Bumping
        <5>2. Cardinality(Bumping(p)') = Cardinality(Bumping(p)) - 1
          <6>1. Cardinality(Bumping(p) \ {q}) = Cardinality(Bumping(p)) - 1
            BY <5>1, FS_RemoveElement
          <6> QED BY <4>1, <4>2, <6>1
        <5>3. attempts'[p] = attempts[p] + 1 /\ attempts[p] + 1 < MaxAttempts
          BY <2>4, <3>1, <3>4, <4>0, <4>2
        <5>4. wrong[p] = (attempts[p] + 1) + (Cardinality(Bumping(p)) - 1)
          BY <2>0, <4>0
        <5> QED BY <5>2, <5>3, <5>4
      <4>3. CASE p # tok[q]
        BY <3>1, <4>0, <4>1, <4>3
      <4> QED BY <4>2, <4>3
    <3> QED BY <1>0, <2>4, <3>2, <3>3, <3>4 DEF CountInv
  <2> QED BY <1>2, <2>2, <2>3, <2>4, CountStep
<1> QED BY <1>1, <1>2, NextCases

-----------------------------------------------------------------------------
(* The account and its sessions.                                           *)

LEMMA AccountStep ==
    ASSUME TypeOK, RequestInv, NEW q \in Req, Handles(q)
    PROVE  /\ admin' \in Admin
           /\ \/ sessions' = sessions /\ admin'.last = admin.last
              \/ sessions' = {}
              \/ /\ sessions' = sessions \cup {NewSession(q)} /\ NewSession(q) \in SessionRow
                 /\ \/ admin' = admin /\ NewSession(q).pre = None /\ NewSession(q).step = -1
                    \/ /\ NewSession(q).pre # None /\ NewSession(q).step \in Nat
                       /\ admin.last < NewSession(q).step /\ admin'.last = NewSession(q).step
<1>0. NewSession(q) \in SessionRow /\ NewSession(q).pre = tok[q] /\ NewSession(q).step = code[q]
  BY DEF NewSession, SessionRow, TypeOK, Admin
<1>1. CASE LoginSession(q)
  BY <1>0, <1>1 DEF LoginSession, RequestInv, TypeOK
<1>2. CASE TotpConsume(q)
  <2>0. code[q] # -1 /\ code[q] \in -1..MaxStep /\ tok[q] \in Req /\ admin \in Admin
    BY <1>2 DEF TotpConsume, RequestInv, TotpPlace, Issued, TypeOK
  <2>1. CASE UNCHANGED accountVars
    BY <2>0, <2>1 DEF accountVars
  <2>2. CASE /\ After(code[q]) /\ admin' = [admin EXCEPT !.last = code[q]]
             /\ sessions' = sessions \cup {NewSession(q)}
    <3>1. admin' \in Admin /\ admin'.last = code[q]
      BY <2>0, <2>2 DEF Admin
    <3> QED BY <1>0, <2>0, <2>2, <3>1 DEF After
  <2> QED BY <1>2, <2>1, <2>2 DEF TotpConsume
<1>3. CASE Rehash(q)
  BY <1>3 DEF Rehash, TypeOK, Admin
<1>4. CASE AccountCommit(q)
  <2>1. admin \in Admin /\ tok[q] \in Secret /\ None \in Secret /\ -1 \in -1..MaxStep
    BY DEF TypeOK, Secret
  <2>2. kind[q] \in {"username", "password", "enable", "disable"}
    BY <1>4 DEF AccountCommit, RequestInv
  <2>3. CASE UNCHANGED accountVars
    BY <2>1, <2>3 DEF accountVars
  <2>4. CASE ~UNCHANGED accountVars
    <3>1. /\ sessions' = {}
          /\ \/ admin' = [admin EXCEPT !.user = q]
             \/ admin' = [admin EXCEPT !.pw = q, !.hash = "argon2id"]
             \/ admin' = [admin EXCEPT !.secret = tok[q], !.last = -1]
             \/ admin' = [admin EXCEPT !.secret = None, !.last = -1]
      BY <1>4, <2>2, <2>4 DEF AccountCommit
    <3>2. admin' = [admin EXCEPT !.user = q] => admin' \in Admin
      BY <2>1 DEF Admin
    <3>3. admin' = [admin EXCEPT !.pw = q, !.hash = "argon2id"] => admin' \in Admin
      BY <2>1 DEF Admin
    <3>4. admin' = [admin EXCEPT !.secret = tok[q], !.last = -1] => admin' \in Admin
      BY <2>1 DEF Admin
    <3>5. admin' = [admin EXCEPT !.secret = None, !.last = -1] => admin' \in Admin
      BY <2>1 DEF Admin
    <3> QED BY <3>1, <3>2, <3>3, <3>4, <3>5
  <2> QED BY <2>3, <2>4
<1>5. CASE ~LoginSession(q) /\ ~TotpConsume(q) /\ ~Rehash(q) /\ ~AccountCommit(q)
  BY <1>5 DEF Handles, Login, LoginStart, Acquire, Verify, LoginVerified,
     CreatePreAuth, Totp, TotpStart, TotpLookup, TotpMatch, TotpBump, TotpFail, TotpClaim,
     TotpConsumeFails, TotpRelease, TotpDelete, ClearFailures, Account, AccountStart, AccountVerified,
     SetupStore, ClearPreAuth, ClearSetups, accountVars, TypeOK
<1> QED BY <1>1, <1>2, <1>3, <1>4, <1>5

LEMMA SessionInvStep ==
    ASSUME TypeOK, RequestInv, SessionInv, TOTPStepOnce, Next
    PROVE  SessionInv' /\ TOTPStepOnce'
<1>0. admin.last \in Int
  BY DEF TypeOK, Admin
<1>1. CASE Passes
  <2>1. admin' = admin /\ sessions' \subseteq sessions
    BY <1>1, PassesFrame
  <2> QED BY <2>1 DEF SessionInv, TOTPStepOnce
<1>2. ASSUME NEW q \in Req, Handles(q) PROVE SessionInv' /\ TOTPStepOnce'
  <2>1. CASE sessions' = sessions /\ admin'.last = admin.last
    BY <2>1 DEF SessionInv, TOTPStepOnce
  <2>2. CASE sessions' = {}
    BY <2>2 DEF SessionInv, TOTPStepOnce
  <2>3. ASSUME NEW n, sessions' = sessions \cup {n}, admin' = admin, n.pre = None, n.step = -1
        PROVE  SessionInv' /\ TOTPStepOnce'
    <3>1. SessionInv'
      BY <2>3 DEF SessionInv
    <3>2. \A r \in sessions : r.pre # None => r.step # -1
      BY DEF SessionInv
    <3> QED BY <2>3, <3>1, <3>2 DEF TOTPStepOnce
  <2>4. ASSUME NEW n, sessions' = sessions \cup {n}, n.pre # None, n.step \in Nat,
               admin.last < n.step, admin'.last = n.step
        PROVE  SessionInv' /\ TOTPStepOnce'
    <3>1. SessionInv'
      BY <1>0, <2>4 DEF SessionInv
    <3>2. \A r \in sessions : r.step # n.step
      BY <1>0, <2>4 DEF SessionInv
    <3> QED BY <2>4, <3>1, <3>2 DEF TOTPStepOnce
  <2> QED BY <1>2, <2>1, <2>2, <2>3, <2>4, AccountStep
<1> QED BY <1>1, <1>2, NextCases

-----------------------------------------------------------------------------
(* The types.                                                              *)

LEMMA TypeStep ==
    ASSUME TypeOK, RequestInv, IssueInv, CountInv, CountInv', Next
    PROVE  TypeOK'
<1>0. wrong' \in [Req -> 0..Cardinality(Req)] /\ attempts' \in [Req -> 0..MaxAttempts]
  <2>1. wrong' \in [Req -> Nat] /\ attempts' \in [Req -> 0..MaxAttempts]
    BY CountInvStep
  <2>2. ASSUME NEW p \in Req PROVE wrong'[p] \in 0..Cardinality(Req)
    <3>1. wrong'[p] \in Nat /\ wrong'[p] =< Cardinality(Compared(p)')
      BY <2>1 DEF CountInv
    <3>2. /\ Cardinality(Compared(p)') \in Nat /\ Cardinality(Compared(p)') =< Cardinality(Req)
          /\ Cardinality(Req) \in Nat
      BY ReqSubset DEF Compared
    <3>3. \A a, b, c \in Nat : a =< b /\ b =< c => a \in 0..c
      OBVIOUS
    <3> QED BY <3>1, <3>2, <3>3
  <2> QED BY <2>1, <2>2
<1>1. CASE Passes
  <2>1. /\ UNCHANGED <<admin, busy, born, pc, kind, tok, snap, code, using>>
        /\ preAuth' \subseteq preAuth /\ sessions' \subseteq sessions
        /\ failures' = failures \/ (failures' = 0 /\ failures # 0)
        /\ setups' \in [Req -> Req \cup {None}]
    BY <1>1, PassesFrame
  <2>2. failures' \in 0..MaxFailures
    BY <2>1 DEF TypeOK
  <2> QED BY <1>0, <2>1, <2>2 DEF TypeOK
<1>2. ASSUME NEW q \in Req, Handles(q) PROVE TypeOK'
  <2>1. admin' \in Admin /\ sessions' \in SUBSET SessionRow
    BY <1>2, AccountStep DEF TypeOK
  <2>2. preAuth' \in SUBSET Req /\ busy' \in SUBSET Req
    BY <1>2, PreAuthStep, BusyStep DEF TypeOK, Claimable
  <2>3. born' \in [Req -> 0..Cardinality(Req)]
    <3>1. CASE CreatePreAuth(q)
      <4>1. q \notin Issued /\ Issued \subseteq Req /\ Issued \cup {q} \subseteq Req
        BY <1>2, <3>1, IssuedStep DEF Issued
      <4>2. Cardinality(Issued) + 1 \in 0..Cardinality(Req)
        <5>1. /\ Cardinality(Issued \cup {q}) \in Nat /\ Cardinality(Issued \cup {q}) =< Cardinality(Req)
              /\ Cardinality(Req) \in Nat
          BY <4>1, ReqSubset
        <5>2. Cardinality(Issued \cup {q}) = Cardinality(Issued) + 1
          BY <4>1, OneMore
        <5> QED BY <5>1, <5>2
      <4> QED BY <3>1, <4>2 DEF CreatePreAuth, TypeOK
    <3>2. CASE ~CreatePreAuth(q)
      <4>1. born' = born
        BY <1>2, <3>2 DEF Handles, Login, LoginStart, Acquire, Verify, Rehash, LoginVerified,
           LoginSession, Totp, TotpStart, TotpLookup, TotpMatch, TotpBump, TotpFail, TotpClaim, TotpConsume,
           TotpConsumeFails, TotpRelease, TotpDelete, ClearFailures, Account, AccountStart, AccountVerified,
           SetupStore, AccountCommit, ClearPreAuth, ClearSetups, preVars
      <4> QED BY <4>1 DEF TypeOK
    <3> QED BY <3>1, <3>2
  <2>4. failures' \in 0..MaxFailures
    <3>1. CASE TotpFail(q)
      BY <3>1 DEF TotpFail, Locked, TypeOK
    <3>2. CASE ~TotpFail(q)
      <4>1. failures' = failures \/ failures' = 0
        BY <1>2, <3>2 DEF Handles, Login, LoginStart, Acquire, Verify, Rehash, LoginVerified, LoginSession,
           CreatePreAuth, Totp, TotpStart, TotpLookup, TotpMatch, TotpBump, TotpClaim, TotpConsume,
           TotpConsumeFails, TotpRelease, TotpDelete, ClearFailures, Account, AccountStart, AccountVerified,
           SetupStore, AccountCommit, ClearPreAuth, ClearSetups
      <4> QED BY <4>1 DEF TypeOK
    <3> QED BY <3>1, <3>2
  <2>5. setups' \in [Req -> Req \cup {None}]
    BY <1>2 DEF Handles, Login, LoginStart, Acquire, Verify, Rehash, LoginVerified, LoginSession,
       CreatePreAuth, Totp, TotpStart, TotpLookup, TotpMatch, TotpBump, TotpFail, TotpClaim, TotpConsume,
       TotpConsumeFails, TotpRelease, TotpDelete, ClearFailures, Account, AccountStart, AccountVerified,
       SetupStore, AccountCommit, ClearPreAuth, ClearSetups, TypeOK
  <2>6. snap' \in [Req -> Admin]
    <3>1. snap' = snap \/ snap' = [snap EXCEPT ![q] = admin]
      BY <1>2 DEF Handles, Login, LoginStart, Acquire, Verify, Rehash, LoginVerified, LoginSession,
         CreatePreAuth, Totp, TotpStart, TotpLookup, TotpMatch, TotpBump, TotpFail, TotpClaim, TotpConsume,
         TotpConsumeFails, TotpRelease, TotpDelete, ClearFailures, Account, AccountStart, AccountVerified,
         SetupStore, AccountCommit, ClearPreAuth, ClearSetups, reqVars
    <3> QED BY <3>1 DEF TypeOK
  <2> QED BY <1>0, <1>2, <2>1, <2>2, <2>3, <2>4, <2>5, <2>6, PlaceTypes DEF TypeOK
<1> QED BY <1>1, <1>2, NextCases

-----------------------------------------------------------------------------
(* Every state.                                                            *)

LEMMA LoginInit == Init => TypeOK /\ LoginInv
<1> SUFFICES ASSUME Init PROVE TypeOK /\ LoginInv
  OBVIOUS
<1>0. Cardinality(Req) \in Nat /\ Cardinality({}) = 0
  BY ReqSubset, FS_EmptySet
<1>1. TypeOK
  <2>1. admin \in Admin
    BY DEF Init, Admin, Secret
  <2> QED BY <1>0, <2>1 DEF Init, TypeOK
<1>2. RequestInv /\ IssueInv
  BY DEF Init, RequestInv, IssueInv, TotpPlace, Issued
<1>3. CountInv
  <2>1. \A p \in Req : Compared(p) = {} /\ wrong[p] = 0 /\ p \notin preAuth
    BY DEF Init, Compared
  <2> QED BY <1>0, <2>1 DEF CountInv
<1>4. ClaimInv /\ BusyIsOwned /\ SessionInv /\ TOTPStepOnce /\ LockInv
  BY DEF Init, ClaimInv, Holder, Winner, BusyIsOwned, SessionInv, TOTPStepOnce, LockInv
<1> QED BY <1>1, <1>2, <1>3, <1>4 DEF LoginInv

LEMMA LoginStep == TypeOK /\ LoginInv /\ [Next]_vars => TypeOK' /\ LoginInv'
<1> SUFFICES ASSUME TypeOK, LoginInv, [Next]_vars PROVE TypeOK' /\ LoginInv'
  OBVIOUS
<1>0. RequestInv /\ IssueInv /\ CountInv /\ ClaimInv /\ BusyIsOwned /\ SessionInv /\ TOTPStepOnce /\ LockInv
  BY DEF LoginInv
<1>1. CASE Next
  <2>1. CountInv'
    BY <1>0, <1>1, CountInvStep
  <2>2. TypeOK'
    BY <1>0, <1>1, <2>1, TypeStep
  <2> QED BY <1>0, <1>1, <2>1, <2>2, RequestInvStep, IssueInvStep, ClaimInvStep, BusyIsOwnedStep, SessionInvStep,
          LockInvStep DEF LoginInv
<1>2. CASE UNCHANGED vars
  <2>1. UNCHANGED <<admin, sessions, preAuth, busy, attempts, born, failures, setups, pc, kind, tok, snap, code,
                    using, wrong>>
    BY <1>2 DEF vars, accountVars, preVars, reqVars
  <2>2. TypeOK'
    BY <2>1 DEF TypeOK
  <2>3. RequestInv' /\ IssueInv'
    BY <1>0, <2>1 DEF RequestInv, IssueInv, Issued
  <2>5. CountInv'
    <3>1. \A p \in Req : Compared(p)' = Compared(p) /\ Bumping(p)' = Bumping(p)
      BY <2>1 DEF Compared, Bumping
    <3> QED BY <1>0, <2>1, <3>1 DEF CountInv
  <2>4. ClaimInv' /\ BusyIsOwned' /\ SessionInv' /\ TOTPStepOnce' /\ LockInv'
    BY <1>0, <2>1 DEF ClaimInv, Holder, Winner, BusyIsOwned, SessionInv, TOTPStepOnce, LockInv, Locked
  <2> QED BY <2>2, <2>3, <2>4, <2>5 DEF LoginInv
<1> QED BY <1>1, <1>2

\* The types and the strengthening of the second stage (internal/server/auth.go), for every
\* number of requests and every limit, hold in every state.
THEOREM LoginInvHolds == Spec => [](TypeOK /\ LoginInv)
BY LoginInit, LoginStep, PTL DEF Spec

\* Every variable keeps its range: in particular bumpPreAuthAttempt never counts past
\* preauth_max_attempts, and recordTOTPAuthFailure never past totp_max_failures.
THEOREM TypeCorrect == Spec => []TypeOK
BY LoginInvHolds, PTL

\* ConsumeTOTPLoginStepAndCreateSession (internal/server/store.go): no two sessions that are
\* valid at the same time came from codes of one time step, although enabling and disabling
\* TOTP set the recorded step back.
THEOREM TOTPStepOnceHolds == Spec => []TOTPStepOnce
BY LoginInvHolds, PTL DEF LoginInv

\* claimPreAuth, releasePreAuth and deletePreAuthKey (internal/server/auth.go): however the
\* requests that bring one pre-auth overlap, at most one of them is accepted.
THEOREM PreAuthOnceHolds == Spec => []PreAuthOnce
<1>1. ASSUME TypeOK, LoginInv PROVE PreAuthOnce
  <2>1. \A q \in Req : Accepted(q) => Holder(q) \/ Winner(q)
    BY DEF Accepted, Holder, Winner
  <2>2. ClaimInv
    BY <1>1 DEF LoginInv
  <2> QED BY <2>1, <2>2 DEF PreAuthOnce, ClaimInv
<1> QED BY <1>1, LoginInvHolds, PTL

\* claimPreAuth (internal/server/auth.go): an entry that is marked busy belongs to a request
\* that will release or delete it, whatever fails and whoever overlaps.
THEOREM BusyIsOwnedHolds == Spec => []BusyIsOwned
BY LoginInvHolds, PTL DEF LoginInv

\* recordTOTPAuthFailure and claimPreAuth (internal/server/auth.go): while the second stage is
\* locked no request claims a pre-auth, not even one that was let in before the lock.
THEOREM LockVoidsPreAuthHolds == Spec => LockVoidsPreAuth
<1>1. ASSUME TypeOK, LoginInv, [Next]_vars
      PROVE  [\A q \in Req : Locked /\ pc[q] = "claim" => pc'[q] # "consume"]_vars
  <2> SUFFICES ASSUME Next, NEW q \in Req, Locked, pc[q] = "claim", pc'[q] = "consume" PROVE FALSE
    BY <1>1
  <2>1. RequestInv /\ LockInv
    BY <1>1 DEF LoginInv
  <2>2. kind[q] = "totp" /\ tok[q] \notin preAuth
    BY <2>1 DEF RequestInv, LockInv, TotpPlace
  <2>3. ~Passes
    BY <1>1, PassesFrame
  <2>4. Handles(q)
    BY <1>1, <2>3, NextCases, HandlesFrame
  <2>5. TotpClaim(q)
    BY <2>4 DEF Handles, Login, LoginStart, Acquire, Verify, Rehash, LoginVerified, LoginSession,
       CreatePreAuth, Totp, TotpStart, TotpLookup, TotpMatch, TotpBump, TotpFail, TotpConsume,
       TotpConsumeFails, TotpRelease, TotpDelete, ClearFailures, Account, AccountStart, AccountVerified,
       SetupStore, AccountCommit, ClearPreAuth, ClearSetups
  <2> QED BY <1>1, <2>2, <2>5 DEF TotpClaim, Claimable, Goto, TypeOK
<1> QED BY <1>1, LoginInvHolds, PTL DEF Spec, LockVoidsPreAuth

\* handleLoginTOTP and bumpPreAuthAttempt (internal/server/auth.go): the attempts are tested at
\* the lookup and counted later, and yet no code is compared once preauth_max_attempts wrong
\* ones have been counted.
THEOREM OverrunIsOverlapHolds == Spec => OverrunIsOverlap
<1>1. ASSUME TypeOK, LoginInv, [Next]_vars
      PROVE  [\A q \in Req : pc[q] = "lookup" /\ pc'[q] = "match" => CountedWrong(tok[q]) < MaxAttempts]_vars
  <2> SUFFICES ASSUME Next, NEW q \in Req, pc[q] = "lookup", pc'[q] = "match"
               PROVE  CountedWrong(tok[q]) < MaxAttempts
    BY <1>1
  <2>1. CountInv
    BY <1>1 DEF LoginInv
  <2>2. ~Passes
    BY <1>1, PassesFrame
  <2>3. Handles(q)
    BY <1>1, <2>2, NextCases, HandlesFrame
  <2>4. TotpLookup(q)
    BY <2>3 DEF Handles, Login, LoginStart, Acquire, Verify, Rehash, LoginVerified, LoginSession,
       CreatePreAuth, Totp, TotpStart, TotpMatch, TotpBump, TotpFail, TotpClaim, TotpConsume,
       TotpConsumeFails, TotpRelease, TotpDelete, ClearFailures, Account, AccountStart, AccountVerified,
       SetupStore, AccountCommit, ClearPreAuth, ClearSetups
  <2>5. tok[q] \in preAuth /\ tok[q] \in Req /\ attempts[tok[q]] < MaxAttempts
    BY <1>1, <2>4 DEF TotpLookup, Goto, TypeOK
  <2>6. wrong[tok[q]] = attempts[tok[q]] + Cardinality(Bumping(tok[q]))
    BY <2>1, <2>5 DEF CountInv
  <2>7. Cardinality(Bumping(tok[q])) \in Nat /\ attempts[tok[q]] \in Nat
    BY <1>1, <2>5, ReqSubset DEF Bumping, TypeOK
  <2>8. CountedWrong(tok[q]) = wrong[tok[q]] - Cardinality(Bumping(tok[q]))
    BY DEF CountedWrong, Bumping
  <2> QED BY <2>5, <2>6, <2>7, <2>8
<1> QED BY <1>1, LoginInvHolds, PTL DEF Spec, OverrunIsOverlap

=============================================================================
