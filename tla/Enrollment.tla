----------------------------- MODULE Enrollment -----------------------------
(***************************************************************************)
(* How an agent gets and keeps its identity: state.json on the agent       *)
(* (cmd/agent/state.go, main and run of cmd/agent/main.go), the handshake  *)
(* of handleAgentWS, and the enrollment tokens and device credentials of   *)
(* internal/server/store.go, with crashes of the agent, failing writes and *)
(* lost connections between any two steps.                                 *)
(*                                                                         *)
(* saveState writes a temporary file and renames it, so it either happens  *)
(* or leaves the old file.  EnrollDevice is one transaction.  A Conn is a  *)
(* WebSocket; the server may still handle a hello whose agent has given    *)
(* up.  Tokens are compared, never parsed: a hello without enrollment      *)
(* token carries a device token, which is not a valid enrollment token.    *)
(***************************************************************************)
EXTENDS Naturals

CONSTANTS
    Agent, Conn,
    Id,          \* pool of random device ids
    Token,       \* pool of random device tokens
    Enroll,      \* enrollment tokens
    None,
    MaxFaults    \* bound: crashes, failed writes, lost connections

ASSUME EnrollmentAssumption ==
    /\ None \notin Id \cup Token \cup Enroll \cup Conn
    /\ Id \cap {"new", "unused", "expired"} = {}
    /\ MaxFaults \in Nat

VARIABLES
    disk,    \* state.json of each agent; without a file the id is None
    mem,     \* agent.state of the running process
    cfg,     \* enroll_token of its config.json
    apc,     \* where the process stands
    conn,    \* its connection
    stage,   \* where the server's handler of a connection stands
    hello,   \* what it was sent
    row,     \* the devices table: the token whose hash is stored for an id
    enroll,  \* the enrollment_tokens table: "new" (not created), "unused",
             \* "expired", or the id the token was used for
    uses,    \* rows inserted under each of them, for TokenBindsOnce only
    deleting,  \* devices whose row handleDeleteDevice has deleted and whose
               \* connection it has yet to stop
    minted,  \* ids and tokens already drawn from the pools
    faults

agentVars == <<disk, mem, cfg, apc, conn>>
serverVars == <<row, enroll, uses, deleting>>
vars == <<agentVars, stage, hello, serverVars, minted, faults>>

State == [id : Id \cup {None}, token : Token \cup {None}, pending : BOOLEAN]
Blank == [id |-> None, token |-> None, pending |-> FALSE]
Hello == [id : Id \cup {None}, token : Token \cup {None}, enroll : Enroll \cup {None}]

TypeOK ==
    /\ disk \in [Agent -> State] /\ mem \in [Agent -> State]
    /\ cfg \in [Agent -> Enroll]
    /\ apc \in [Agent -> {"down", "identity", "dial", "wait", "serve"}]
    /\ conn \in [Agent -> Conn \cup {None}]
    /\ stage \in [Conn -> {"free", "sent", "enroll", "acked", "closed"}]
    /\ hello \in [Conn -> Hello]
    /\ row \in [Id -> Token \cup {None}]
    /\ enroll \in [Enroll -> {"new", "unused", "expired"} \cup Id]
    /\ uses \in [Enroll -> Nat] /\ deleting \in SUBSET Id
    /\ minted \in SUBSET (Id \cup Token)
    /\ faults \in 0..MaxFaults

Init ==
    /\ disk = [a \in Agent |-> Blank] /\ mem = [a \in Agent |-> Blank]
    /\ cfg \in [Agent -> Enroll]
    /\ apc = [a \in Agent |-> "down"] /\ conn = [a \in Agent |-> None]
    /\ stage = [c \in Conn |-> "free"]
    /\ hello = [c \in Conn |-> [id |-> None, token |-> None, enroll |-> None]]
    /\ row = [i \in Id |-> None]
    /\ enroll = [t \in Enroll |-> "new"]
    /\ uses = [t \in Enroll |-> 0] /\ deleting = {}
    /\ minted = {} /\ faults = 0

Goto(a, l) == apc' = [apc EXCEPT ![a] = l]
Fault == faults < MaxFaults /\ faults' = faults + 1

-----------------------------------------------------------------------------
(* The agent.                                                              *)

\* loadOrCreateState: without a file a random id is drawn and saved.
LoadState(a) ==
    /\ apc[a] = "down"
    /\ IF disk[a].id # None
          THEN mem' = [mem EXCEPT ![a] = disk[a]] /\ UNCHANGED <<disk, minted>>
          ELSE \E i \in Id \ minted :
                  /\ mem' = [mem EXCEPT ![a] = [Blank EXCEPT !.id = i]]
                  /\ disk' = [disk EXCEPT ![a] = [Blank EXCEPT !.id = i]]
                  /\ minted' = minted \cup {i}
    /\ Goto(a, "identity")
    /\ UNCHANGED <<cfg, conn, stage, hello, serverVars, faults>>

\* The file after the save of the new token.  Mutant: it is saved only once the
\* server has accepted it.
SavedLater(a, s) == disk
SavedFirst(a, s) == [disk EXCEPT ![a] = s]

\* main: a device without a token draws one and saves it, marked pending, before
\* the server sees it.
NewIdentity(a) ==
    /\ apc[a] = "identity"
    /\ IF mem[a].token # None
          THEN UNCHANGED <<disk, mem, minted>>
          ELSE \E k \in Token \ minted :
                  LET s == [mem[a] EXCEPT !.token = k, !.pending = TRUE]
                  IN  /\ mem' = [mem EXCEPT ![a] = s]
                      /\ disk' = SavedFirst(a, s)
                      /\ minted' = minted \cup {k}
    /\ Goto(a, "dial")
    /\ UNCHANGED <<cfg, conn, stage, hello, serverVars, faults>>

\* run dials and sends hello; a pending device adds its enrollment token.
Dial(a, c) ==
    /\ apc[a] = "dial" /\ stage[c] = "free"
    /\ conn' = [conn EXCEPT ![a] = c]
    /\ stage' = [stage EXCEPT ![c] = "sent"]
    /\ hello' = [hello EXCEPT ![c] = [id |-> mem[a].id, token |-> mem[a].token,
                                      enroll |-> IF mem[a].pending THEN cfg[a] ELSE None]]
    /\ Goto(a, "wait")
    /\ UNCHANGED <<disk, mem, cfg, serverVars, minted, faults>>

\* The ack of a pending device clears the mark, in memory and then in the file.
ReceiveAck(a) ==
    /\ apc[a] = "wait" /\ stage[conn[a]] = "acked"
    /\ mem' = [mem EXCEPT ![a].pending = FALSE]
    /\ disk' = IF mem[a].pending THEN [disk EXCEPT ![a] = mem'[a]] ELSE disk
    /\ Goto(a, "serve")
    /\ UNCHANGED <<cfg, conn, stage, hello, serverVars, minted, faults>>

\* The file cannot be written: run returns with an error, and the memory keeps
\* what the file does not say.
SaveFails(a) ==
    /\ apc[a] = "wait" /\ stage[conn[a]] = "acked" /\ mem[a].pending
    /\ Fault
    /\ mem' = [mem EXCEPT ![a].pending = FALSE]
    /\ conn' = [conn EXCEPT ![a] = None]
    /\ Goto(a, "dial")
    /\ UNCHANGED <<disk, cfg, stage, hello, serverVars, minted>>

\* The server has closed the connection.
Refused(a) ==
    /\ apc[a] = "wait" /\ stage[conn[a]] = "closed"
    /\ conn' = [conn EXCEPT ![a] = None]
    /\ Goto(a, "dial")
    /\ UNCHANGED <<disk, mem, cfg, stage, hello, serverVars, minted, faults>>

\* The handshake times out, or the connection is lost.
ConnectionLost(a) ==
    /\ apc[a] \in {"wait", "serve"} /\ Fault
    /\ conn' = [conn EXCEPT ![a] = None]
    /\ Goto(a, "dial")
    /\ UNCHANGED <<disk, mem, cfg, stage, hello, serverVars, minted>>

\* The process ends at any point, by a crash or a fatal error, and is started
\* again by its service manager.
Crash(a) ==
    /\ apc[a] # "down" /\ Fault
    /\ Goto(a, "down")
    /\ conn' = [conn EXCEPT ![a] = None]
    /\ mem' = [mem EXCEPT ![a] = Blank]
    /\ UNCHANGED <<disk, cfg, stage, hello, serverVars, minted>>

-----------------------------------------------------------------------------
(* The server.                                                             *)

\* Only an unknown device is enrolled.  Mutant: any that brings a token is.
BringsToken(h) == h.enroll # None
Unknown(h) == row[h.id] = None

\* The device is looked up: an unknown one must bring an enrollment token, a
\* known one its device token, whatever enrollment token comes with it.  Left out: an
\* enrollment token in the place of the device token, which no agent of this
\* repository sends.
ServerLookup(c) ==
    /\ stage[c] = "sent"
    /\ LET h == hello[c]
       IN  stage' = [stage EXCEPT ![c] =
              IF Unknown(h) THEN IF h.enroll # None THEN "enroll" ELSE "closed"
                            ELSE IF row[h.id] = h.token THEN "acked" ELSE "closed"]
    /\ UNCHANGED <<agentVars, hello, serverVars, minted, faults>>

\* used_at = 0 and not expired.  Mutant: a used token is good until it expires.
NotExpired(t) == enroll[t] \notin {"new", "expired"}
Usable(t) == enroll[t] = "unused"

\* The credential of the new row.  Mutant: the enrollment token is stored.
EnrollmentStored(h) == h.enroll
Credential(h) == h.token

\* EnrollDevice: the token is marked used and the row inserted, or, when the
\* token is no good or another connection has inserted the row, neither.
ServerEnroll(c) ==
    /\ stage[c] = "enroll"
    /\ LET h == hello[c]
       IN  IF Usable(h.enroll) /\ row[h.id] = None
              THEN /\ row' = [row EXCEPT ![h.id] = Credential(h)]
                   /\ enroll' = [enroll EXCEPT ![h.enroll] = h.id]
                   /\ uses' = [uses EXCEPT ![h.enroll] = @ + 1]
                   /\ stage' = [stage EXCEPT ![c] = "acked"]
                   /\ UNCHANGED deleting
              ELSE /\ stage' = [stage EXCEPT ![c] = "closed"]
                   /\ UNCHANGED serverVars
    /\ UNCHANGED <<agentVars, hello, minted, faults>>

\* Both ends are done with a connection, or its hello never arrives.
ConnectionEnds(c) ==
    /\ stage[c] \in {"sent", "acked", "closed"} /\ \A a \in Agent : conn[a] # c
    /\ stage' = [stage EXCEPT ![c] = "free"]
    /\ UNCHANGED <<agentVars, hello, serverVars, minted, faults>>

\* handleCreateEnrollmentToken, and the end of its lifetime.
CreateEnrollmentToken(t) ==
    /\ enroll[t] = "new"
    /\ enroll' = [enroll EXCEPT ![t] = "unused"]
    /\ UNCHANGED <<agentVars, stage, hello, row, uses, deleting, minted, faults>>

TokenExpires(t) ==
    /\ enroll[t] = "unused"
    /\ enroll' = [enroll EXCEPT ![t] = "expired"]
    /\ UNCHANGED <<agentVars, stage, hello, row, uses, deleting, minted, faults>>

\* handleDeleteDevice: the row goes first.
DeleteDevice(i) ==
    /\ row[i] # None
    /\ row' = [row EXCEPT ![i] = None]
    /\ deleting' = deleting \cup {i}
    /\ UNCHANGED <<agentVars, stage, hello, enroll, uses, minted, faults>>

\* Then the connection is stopped that is registered by now, which may be one that
\* has enrolled the device again.  None may be: "acked" also stands for a connection
\* between the check of its token and its registration.
StopDeleted(i) ==
    /\ i \in deleting
    /\ deleting' = deleting \ {i}
    /\ \/ UNCHANGED stage
       \/ \E c \in Conn : /\ stage[c] = "acked" /\ hello[c].id = i
                          /\ stage' = [stage EXCEPT ![c] = "closed"]
    /\ UNCHANGED <<agentVars, hello, row, enroll, uses, minted, faults>>

\* The stop of the server's end reaches an agent that serves.
Disconnected(a) ==
    /\ apc[a] = "serve" /\ stage[conn[a]] = "closed"
    /\ conn' = [conn EXCEPT ![a] = None]
    /\ Goto(a, "dial")
    /\ UNCHANGED <<disk, mem, cfg, stage, hello, serverVars, minted, faults>>

\* The operator adds a deleted device again: docs/AGENT.md, chapter 7.
Reinstall(a, t) ==
    /\ apc[a] = "down" /\ disk[a].id # None
    /\ disk' = [disk EXCEPT ![a] = Blank]
    /\ cfg' = [cfg EXCEPT ![a] = t]
    /\ UNCHANGED <<mem, apc, conn, stage, hello, serverVars, minted, faults>>

-----------------------------------------------------------------------------
AgentStep(a) ==
    \/ LoadState(a) \/ NewIdentity(a) \/ ReceiveAck(a) \/ Refused(a) \/ Disconnected(a)
    \/ \E c \in Conn : Dial(a, c)

ServerStep(c) == ServerLookup(c) \/ ServerEnroll(c) \/ ConnectionEnds(c)

Next ==
    \/ \E a \in Agent : AgentStep(a) \/ SaveFails(a) \/ ConnectionLost(a) \/ Crash(a)
    \/ \E c \in Conn : ServerStep(c)
    \/ \E t \in Enroll : CreateEnrollmentToken(t) \/ TokenExpires(t)
    \/ \E i \in Id : DeleteDevice(i) \/ StopDeleted(i)
    \/ \E a \in Agent, t \in Enroll : Reinstall(a, t)

\* The agent dials for ever, its service manager restarts it, the server's
\* handlers run.  Nothing is assumed of the administrator or of the faults but
\* that there are finitely many.
Fairness ==
    /\ \A a \in Agent : WF_vars(AgentStep(a))
    /\ \A c \in Conn : WF_vars(ServerStep(c))

Spec == Init /\ [][Next]_vars
FairSpec == Spec /\ Fairness

-----------------------------------------------------------------------------
(* Properties.                                                             *)

\* docs/SECURITY.md:113: the agent writes its token to state.json first.  So
\* whatever the server has stored for a device is what the device's file holds,
\* and no crash or lost ack leaves a device that the server knows and that can
\* never authenticate again.
NeverLockedOut ==
    \A a \in Agent : disk[a].id # None /\ row[disk[a].id] # None => row[disk[a].id] = disk[a].token

\* docs/SECURITY.md:113: an enrollment token is consumed by the first binding.  As long
\* as it exists one row is inserted under it: not a second one by a connection that
\* has found its device unknown at the same time, and not the same one again by a
\* late hello of the device after it was deleted.  No token is consumed without a row,
\* and every device of the table came in under a token of its own.
TokenBindsOnce ==
    /\ \A t \in Enroll : uses[t] = IF enroll[t] \in Id THEN 1 ELSE 0
    /\ \A i \in Id : row[i] # None => \E t \in Enroll : enroll[t] = i

\* server_test.go, TestPreGeneratedDeviceTokenEnrollmentRecoversAfterLostAck, for
\* every interleaving: a device whose row has been inserted gets online although
\* its ack is lost, unless the administrator deletes it or the operator starts
\* over.
EnrolledGetsOnline ==
    \A a \in Agent, i \in Id :
        disk[a].id = i /\ row[i] # None ~> apc[a] = "serve" \/ row[i] = None \/ disk[a].id # i

\* docs/AGENT.md:118: a device that is online has its identity in state.json, so
\* that enroll_token may be emptied and restarts go by the file.  main refuses to
\* start a pending device without enroll_token, so this means that the file of a
\* device that is being served is not marked pending.
OnlineIsSaved == \A a \in Agent : apc[a] = "serve" => ~disk[a].pending

-----------------------------------------------------------------------------
(* The strengthening that makes NeverLockedOut and TokenBindsOnce inductive.*)

\* A process that runs has the id and the token of its file; only the pending
\* mark may differ.  It dials with a token, and has a connection while it waits
\* on one.
ProcessInv ==
    \A a \in Agent :
        /\ disk[a].id = None => disk[a].token = None
        /\ apc[a] # "down" =>
              mem[a].id # None /\ mem[a].id = disk[a].id /\ mem[a].token = disk[a].token
        /\ apc[a] \in {"dial", "wait", "serve"} => mem[a].token # None
        /\ apc[a] \in {"wait", "serve"} => conn[a] \in Conn

\* An id is drawn once: no two files have the same, and none that a file, a hello
\* or a row has ever had is drawn again, also after the file is gone.
IdInv ==
    /\ \A a \in Agent : disk[a].id # None => disk[a].id \in minted
    /\ \A a, b \in Agent : disk[a].id # None /\ disk[a].id = disk[b].id => a = b
    /\ \A c \in Conn : hello[c].id # None => hello[c].id \in minted
    /\ \A i \in Id : row[i] # None => i \in minted

\* What was sent for an id, on a connection that may be long given up, is what its
\* file holds; and what was stored for it came from such a hello.
CredentialInv ==
    /\ \A c \in Conn : hello[c].id # None => hello[c].token # None
    /\ \A c \in Conn : stage[c] # "free" => hello[c].id # None
    /\ \A c \in Conn : stage[c] = "enroll" => hello[c].enroll # None
    /\ \A c \in Conn, a \in Agent :
          hello[c].id # None /\ hello[c].id = disk[a].id => hello[c].token = disk[a].token
    /\ \A i \in Id, a \in Agent :
          row[i] # None /\ i = disk[a].id => row[i] = disk[a].token

EnrollmentInv == ProcessInv /\ IdInv /\ CredentialInv /\ TokenBindsOnce

=============================================================================
