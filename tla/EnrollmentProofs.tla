-------------------------- MODULE EnrollmentProofs --------------------------
(***************************************************************************)
(* Enrollment, for any number of agents and connections, any pools of ids  *)
(* and tokens and any number of faults: no device that the server knows is *)
(* locked out, and an enrollment token binds one device.                   *)
(*                                                                         *)
(* The actions are grouped by what they write: the ones that give an agent *)
(* its identity (LoadState, NewIdentity), the one that sends it (Dial),    *)
(* the ones that only move the process or its mark, the one that removes   *)
(* the file (Reinstall), and the server's.                                 *)
(***************************************************************************)
EXTENDS Enrollment, TLAPS

-----------------------------------------------------------------------------
(* What the actions write.                                                 *)

\* A record of state.json is known by its fields.
LEMMA StateFacts ==
    /\ Blank \in State /\ Blank.id = None /\ Blank.token = None
    /\ \A s \in State : /\ s.id \in Id \cup {None} /\ s.token \in Token \cup {None}
                        /\ s.pending \in BOOLEAN
    /\ \A i \in Id : LET s == [Blank EXCEPT !.id = i]
                     IN  s \in State /\ s.id = i /\ s.token = None
    /\ \A s \in State, p \in BOOLEAN : LET u == [s EXCEPT !.pending = p]
                                       IN  u \in State /\ u.id = s.id /\ u.token = s.token
  BY DEF State, Blank

\* A hello is known by its fields.
LEMMA HelloFacts ==
    /\ \A h \in Hello : /\ h.id \in Id \cup {None} /\ h.token \in Token \cup {None}
                        /\ h.enroll \in Enroll \cup {None}
    /\ \A i \in Id \cup {None}, k \in Token \cup {None}, t \in Enroll \cup {None} :
          LET h == [id |-> i, token |-> k, enroll |-> t]
          IN  h \in Hello /\ h.id = i /\ h.token = k /\ h.enroll = t
  BY DEF Hello

\* Only the tables of the server and the count are in TokenBindsOnce.
LEMMA BindsFrame ==
    ASSUME TokenBindsOnce, UNCHANGED <<row, enroll, uses>>
    PROVE  TokenBindsOnce'
  BY DEF TokenBindsOnce

\* The steps that leave the id and the token of every file and of every running
\* process alone, and move one process, if any.
Moves(a, l) ==
    /\ apc' = [apc EXCEPT ![a] = l]
    /\ \/ conn' = conn \/ conn' = [conn EXCEPT ![a] = None]
    /\ \A b \in Agent : /\ disk'[b].id = disk[b].id /\ disk'[b].token = disk[b].token
                        /\ b # a \/ l # "down" => mem'[b].id = mem[b].id /\ mem'[b].token = mem[b].token
    /\ disk' \in [Agent -> State] /\ mem' \in [Agent -> State]
    /\ faults' \in 0..MaxFaults
    /\ UNCHANGED <<cfg, stage, hello, serverVars, minted>>

Moving(a) ==
    ReceiveAck(a) \/ SaveFails(a) \/ Refused(a) \/ Disconnected(a) \/ ConnectionLost(a) \/ Crash(a)

\* Receiving an ack, with or without a file that can be written, losing the
\* connection in any way and a crash are such steps; the process goes on with its
\* connection, or dials again, or is down.
LEMMA MovingMoves ==
    ASSUME TypeOK, ProcessInv, NEW a \in Agent, Moving(a)
    PROVE  \/ Moves(a, "serve") /\ conn' = conn /\ apc[a] = "wait"
           \/ Moves(a, "dial") /\ apc[a] \in {"wait", "serve"}
           \/ Moves(a, "down")
  <1>0. /\ disk \in [Agent -> State] /\ mem \in [Agent -> State] /\ faults \in 0..MaxFaults
        /\ MaxFaults \in Nat
    BY EnrollmentAssumption DEF TypeOK
  <1>1. /\ [mem[a] EXCEPT !.pending = FALSE] \in State
        /\ [mem[a] EXCEPT !.pending = FALSE].id = mem[a].id
        /\ [mem[a] EXCEPT !.pending = FALSE].token = mem[a].token
    BY <1>0, StateFacts
  <1>2. ASSUME Fault PROVE faults' \in 0..MaxFaults
    BY <1>0, <1>2 DEF Fault
  <1>3. ASSUME mem' = [mem EXCEPT ![a].pending = FALSE]
        PROVE  /\ mem' \in [Agent -> State]
               /\ \A b \in Agent : mem'[b].id = mem[b].id /\ mem'[b].token = mem[b].token
    BY <1>0, <1>1, <1>3
  <1>4. CASE ReceiveAck(a)
    <2>1. mem' = [mem EXCEPT ![a].pending = FALSE]
      BY <1>4 DEF ReceiveAck
    <2>2. disk' = disk \/ disk' = [disk EXCEPT ![a] = mem'[a]]
      BY <1>4 DEF ReceiveAck
    <2>3. mem'[a].id = disk[a].id /\ mem'[a].token = disk[a].token /\ mem'[a] \in State
      BY <1>3, <1>4, <2>1 DEF ReceiveAck, ProcessInv
    <2>4. /\ disk' \in [Agent -> State]
          /\ \A b \in Agent : disk'[b].id = disk[b].id /\ disk'[b].token = disk[b].token
      BY <1>0, <2>2, <2>3
    <2>5. UNCHANGED <<conn, cfg, stage, hello, serverVars, minted, faults>>
          /\ apc' = [apc EXCEPT ![a] = "serve"] /\ apc[a] = "wait"
      BY <1>4 DEF ReceiveAck, Goto
    <2> QED
      BY <1>0, <1>3, <2>1, <2>4, <2>5 DEF Moves
  <1>5. CASE SaveFails(a)
    BY <1>0, <1>2, <1>3, <1>5 DEF SaveFails, Moves, Goto
  <1>6. CASE Refused(a) \/ Disconnected(a)
    BY <1>0, <1>6 DEF Refused, Disconnected, Moves, Goto
  <1>7. CASE ConnectionLost(a)
    BY <1>0, <1>2, <1>7 DEF ConnectionLost, Moves, Goto
  <1>8. CASE Crash(a)
    <2>1. mem' = [mem EXCEPT ![a] = Blank] /\ disk' = disk
      BY <1>8 DEF Crash
    <2>2. /\ mem' \in [Agent -> State]
          /\ \A b \in Agent : b # a => mem'[b] = mem[b]
      BY <1>0, <2>1, StateFacts
    <2>3. /\ UNCHANGED <<cfg, stage, hello, serverVars, minted>> /\ faults' \in 0..MaxFaults
          /\ apc' = [apc EXCEPT ![a] = "down"] /\ conn' = [conn EXCEPT ![a] = None]
      BY <1>2, <1>8 DEF Crash, Goto
    <2> QED
      BY <1>0, <2>1, <2>2, <2>3 DEF Moves
  <1> QED
    BY <1>4, <1>5, <1>6, <1>7, <1>8 DEF Moving

\* Such a step keeps everything: nothing it writes is in the invariant but where
\* the process stands.
LEMMA MovingKeeps ==
    ASSUME TypeOK, EnrollmentInv, NEW a \in Agent, Moving(a)
    PROVE  TypeOK' /\ EnrollmentInv'
  <1>1. PICK l \in {"serve", "dial", "down"} :
           /\ Moves(a, l)
           /\ l = "serve" => conn' = conn /\ apc[a] = "wait"
           /\ l = "dial" => apc[a] \in {"wait", "serve"}
    BY MovingMoves DEF EnrollmentInv
  <1>2. TypeOK'
    BY <1>1 DEF TypeOK, Moves, serverVars
  <1>3. ProcessInv'
    <2>1. \A b \in Agent :
             /\ disk'[b].id = disk[b].id /\ disk'[b].token = disk[b].token
             /\ b # a => apc'[b] = apc[b] /\ conn'[b] = conn[b]
             /\ b # a \/ l # "down" => mem'[b].id = mem[b].id /\ mem'[b].token = mem[b].token
      BY <1>1 DEF Moves, TypeOK
    <2>2. apc'[a] = l
      BY <1>1 DEF Moves, TypeOK
    <2>3. l = "serve" => conn'[a] \in Conn
      BY <1>1 DEF EnrollmentInv, ProcessInv
    <2> QED
      BY <1>1, <2>1, <2>2, <2>3 DEF EnrollmentInv, ProcessInv
  <1>4. IdInv' /\ CredentialInv'
    BY <1>1 DEF Moves, EnrollmentInv, IdInv, CredentialInv, serverVars
  <1>5. TokenBindsOnce'
    BY <1>1, BindsFrame DEF Moves, EnrollmentInv, serverVars
  <1> QED
    BY <1>2, <1>3, <1>4, <1>5 DEF EnrollmentInv

-----------------------------------------------------------------------------
(* The identity.                                                           *)

\* The file of one agent is written, and its memory with it.
Writes(a, s, l) ==
    /\ disk' = [disk EXCEPT ![a] = s] /\ mem' = [mem EXCEPT ![a] = s]
    /\ apc' = [apc EXCEPT ![a] = l]
    /\ UNCHANGED <<cfg, conn, stage, hello, serverVars, faults>>

\* loadOrCreateState: an agent with a file goes on with what it says, one without
\* draws an id that was never drawn.
LEMMA LoadKeeps ==
    ASSUME TypeOK, EnrollmentInv, NEW a \in Agent, LoadState(a)
    PROVE  TypeOK' /\ EnrollmentInv'
  <1>0. PICK s \in State :
           /\ Writes(a, s, "identity") /\ s.id # None
           /\ \/ s = disk[a] /\ minted' = minted
              \/ /\ disk[a].id = None /\ s.token = None /\ s.id \in Id \ minted
                 /\ minted' = minted \cup {s.id}
    <2>1. CASE disk[a].id # None
      <3>1. disk[a] \in State /\ disk' = [disk EXCEPT ![a] = disk[a]]
        BY <2>1 DEF LoadState, TypeOK
      <3> QED
        BY <2>1, <3>1 DEF LoadState, Writes, Goto
    <2>2. CASE disk[a].id = None
      <3>1. PICK i \in Id \ minted :
               /\ mem' = [mem EXCEPT ![a] = [Blank EXCEPT !.id = i]]
               /\ disk' = [disk EXCEPT ![a] = [Blank EXCEPT !.id = i]]
               /\ minted' = minted \cup {i}
        BY <2>2 DEF LoadState
      <3>2. PICK s \in State : s = [Blank EXCEPT !.id = i] /\ s.id = i /\ s.token = None
        BY StateFacts
      <3>3. i # None
        BY EnrollmentAssumption
      <3> QED
        BY <2>2, <3>1, <3>2, <3>3 DEF LoadState, Writes, Goto
    <2> QED
      BY <2>1, <2>2
  <1>1. TypeOK'
    BY <1>0 DEF TypeOK, Writes, serverVars
  <1>2. /\ \A b \in Agent : b # a => /\ disk'[b] = disk[b] /\ mem'[b] = mem[b]
                                     /\ apc'[b] = apc[b]
        /\ disk'[a] = s /\ mem'[a] = s /\ apc'[a] = "identity"
        /\ UNCHANGED <<conn, stage, hello, row, enroll, uses>>
    BY <1>0 DEF Writes, TypeOK, serverVars
  <1>3. ProcessInv'
    BY <1>0, <1>2 DEF EnrollmentInv, ProcessInv
  <1>4. IdInv'
    BY <1>0, <1>2 DEF EnrollmentInv, IdInv
  <1>5. CredentialInv'
    <2>1. s # disk[a] => /\ \A c \in Conn : hello[c].id # s.id
                         /\ \A i \in Id : row[i] # None => i # s.id
      BY <1>0 DEF EnrollmentInv, IdInv
    <2> QED
      BY <1>0, <1>2, <2>1 DEF EnrollmentInv, CredentialInv
  <1>6. TokenBindsOnce'
    BY <1>2, BindsFrame DEF EnrollmentInv
  <1> QED
    BY <1>1, <1>3, <1>4, <1>5, <1>6 DEF EnrollmentInv

\* main: while a device has no token nothing was sent or stored for its id, so the
\* one it draws contradicts nothing.
LEMMA NewIdentityKeeps ==
    ASSUME TypeOK, EnrollmentInv, NEW a \in Agent, NewIdentity(a)
    PROVE  TypeOK' /\ EnrollmentInv'
  <1>0. PICK s \in State, d \in State :
           /\ disk' = [disk EXCEPT ![a] = d] /\ mem' = [mem EXCEPT ![a] = s]
           /\ d.id = disk[a].id /\ s.id = d.id /\ s.token = d.token /\ s.token # None
           /\ disk[a].token # None => s.token = disk[a].token
           /\ minted \subseteq minted' /\ minted' \subseteq Id \cup Token
    <2>0. /\ mem[a] \in State /\ disk[a] \in State
          /\ mem[a].id = disk[a].id /\ mem[a].token = disk[a].token
          /\ minted \subseteq Id \cup Token
      BY DEF NewIdentity, TypeOK, EnrollmentInv, ProcessInv
    <2>1. CASE mem[a].token # None
      <3>1. /\ mem' = [mem EXCEPT ![a] = mem[a]] /\ disk' = [disk EXCEPT ![a] = disk[a]]
            /\ minted' = minted
        BY <2>1 DEF NewIdentity, TypeOK
      <3> QED
        BY <2>0, <2>1, <3>1
    <2>2. CASE mem[a].token = None
      <3>1. PICK k \in Token \ minted :
               /\ mem' = [mem EXCEPT ![a] = [mem[a] EXCEPT !.token = k, !.pending = TRUE]]
               /\ disk' = [disk EXCEPT ![a] = [mem[a] EXCEPT !.token = k, !.pending = TRUE]]
               /\ minted' = minted \cup {k}
        BY <2>2 DEF NewIdentity, SavedFirst
      <3> DEFINE u == [mem[a] EXCEPT !.token = k, !.pending = TRUE]
      <3>2. u \in State /\ u.id = mem[a].id /\ u.token = k
        <4>1. k \in Token
          OBVIOUS
        <4> QED
          BY <2>0, <4>1 DEF State
      <3>3. k # None
        BY EnrollmentAssumption
      <3>4. disk' = [disk EXCEPT ![a] = u] /\ mem' = [mem EXCEPT ![a] = u]
        BY <3>1
      <3>5. minted \subseteq minted' /\ minted' \subseteq Id \cup Token
        BY <2>0, <3>1
      <3> HIDE DEF u
      <3> QED
        BY <2>0, <2>2, <3>2, <3>3, <3>4, <3>5
    <2> QED
      BY <2>1, <2>2
  <1>1. TypeOK'
    BY <1>0 DEF NewIdentity, Goto, TypeOK, serverVars
  <1>2. /\ \A b \in Agent : b # a => /\ disk'[b] = disk[b] /\ mem'[b] = mem[b]
                                     /\ apc'[b] = apc[b]
        /\ disk'[a].id = s.id /\ disk'[a].token = s.token
        /\ mem'[a] = s /\ apc'[a] = "dial" /\ apc[a] = "identity"
        /\ UNCHANGED <<conn, stage, hello, row, enroll, uses>>
    BY <1>0 DEF NewIdentity, Goto, TypeOK, serverVars
  <1>3. ProcessInv'
    BY <1>0, <1>2 DEF EnrollmentInv, ProcessInv
  <1>4. IdInv'
    BY <1>0, <1>2 DEF EnrollmentInv, IdInv
  <1>5. CredentialInv'
    BY <1>0, <1>2 DEF EnrollmentInv, CredentialInv
  <1>6. TokenBindsOnce'
    BY <1>2, BindsFrame DEF EnrollmentInv
  <1> QED
    BY <1>1, <1>3, <1>4, <1>5, <1>6 DEF EnrollmentInv

-----------------------------------------------------------------------------
(* The hello, the file's removal, and the server.                          *)

\* run: what is sent is what the file holds, an enrollment token aside.
LEMMA DialKeeps ==
    ASSUME TypeOK, EnrollmentInv, NEW a \in Agent, NEW c \in Conn, Dial(a, c)
    PROVE  TypeOK' /\ EnrollmentInv'
  <1>0. PICK h \in Hello :
           /\ hello' = [hello EXCEPT ![c] = h]
           /\ h.id = mem[a].id /\ h.token = mem[a].token
    <2>1. /\ mem[a].id \in Id \cup {None} /\ mem[a].token \in Token \cup {None}
          /\ (IF mem[a].pending THEN cfg[a] ELSE None) \in Enroll \cup {None}
      BY DEF TypeOK, State
    <2>2. \A t \in Enroll \cup {None} :
             LET h == [id |-> mem[a].id, token |-> mem[a].token, enroll |-> t]
             IN  h \in Hello /\ h.id = mem[a].id /\ h.token = mem[a].token
      BY <2>1, HelloFacts
    <2> QED
      BY <2>1, <2>2 DEF Dial
  <1>1. /\ conn' = [conn EXCEPT ![a] = c] /\ stage' = [stage EXCEPT ![c] = "sent"]
        /\ apc' = [apc EXCEPT ![a] = "wait"] /\ apc[a] = "dial"
        /\ UNCHANGED <<disk, mem, cfg, row, enroll, uses, deleting, minted, faults>>
    BY DEF Dial, Goto, serverVars
  <1>2. TypeOK'
    BY <1>0, <1>1 DEF TypeOK
  <1>3. /\ \A b \in Agent : b # a => apc'[b] = apc[b] /\ conn'[b] = conn[b]
        /\ apc'[a] = "wait" /\ conn'[a] = c
        /\ \A e \in Conn : e # c => hello'[e] = hello[e] /\ stage'[e] = stage[e]
        /\ hello'[c] = h /\ stage'[c] = "sent"
    BY <1>0, <1>1 DEF TypeOK
  <1>4. h.id # None /\ h.id = disk[a].id /\ h.token = disk[a].token /\ h.token # None
    BY <1>0, <1>1 DEF EnrollmentInv, ProcessInv
  <1>5. ProcessInv'
    BY <1>1, <1>3 DEF EnrollmentInv, ProcessInv
  <1>6. IdInv'
    BY <1>1, <1>3, <1>4 DEF EnrollmentInv, IdInv
  <1>7. CredentialInv'
    <2>1. \A b \in Agent : h.id = disk[b].id => b = a
      BY <1>4 DEF EnrollmentInv, IdInv
    <2> QED
      BY <1>1, <1>3, <1>4, <2>1 DEF EnrollmentInv, CredentialInv
  <1>8. TokenBindsOnce'
    BY <1>1, BindsFrame DEF EnrollmentInv
  <1> QED
    BY <1>2, <1>5, <1>6, <1>7, <1>8 DEF EnrollmentInv

\* A new install directory: what was sent and stored for the old id belongs to no
\* file any more.
LEMMA ReinstallKeeps ==
    ASSUME TypeOK, EnrollmentInv, NEW a \in Agent, NEW t \in Enroll, Reinstall(a, t)
    PROVE  TypeOK' /\ EnrollmentInv'
  <1>1. /\ disk' = [disk EXCEPT ![a] = Blank] /\ cfg' = [cfg EXCEPT ![a] = t] /\ apc[a] = "down"
        /\ UNCHANGED <<mem, apc, conn, stage, hello, row, enroll, uses, deleting, minted, faults>>
    BY DEF Reinstall, serverVars
  <1>2. TypeOK'
    BY <1>1, StateFacts DEF TypeOK
  <1>3. /\ \A b \in Agent : b # a => disk'[b] = disk[b]
        /\ disk'[a].id = None /\ disk'[a].token = None
    BY <1>1, StateFacts DEF TypeOK
  <1>4. ProcessInv'
    BY <1>1, <1>3 DEF EnrollmentInv, ProcessInv
  <1>5. IdInv'
    BY <1>1, <1>3 DEF EnrollmentInv, IdInv
  <1>6. CredentialInv'
    BY <1>1, <1>3, EnrollmentAssumption DEF EnrollmentInv, CredentialInv
  <1>7. TokenBindsOnce'
    BY <1>1, BindsFrame DEF EnrollmentInv
  <1> QED
    BY <1>2, <1>4, <1>5, <1>6, <1>7 DEF EnrollmentInv

\* The look-up and the end of a connection write its stage alone.
LEMMA StageKeeps ==
    ASSUME TypeOK, EnrollmentInv, NEW c \in Conn, ServerLookup(c) \/ ConnectionEnds(c)
    PROVE  TypeOK' /\ EnrollmentInv'
  <1>1. PICK g \in {"free", "acked", "closed", "enroll"} :
           /\ stage' = [stage EXCEPT ![c] = g] /\ stage[c] # "free"
           /\ g = "enroll" => hello[c].enroll # None
           /\ UNCHANGED <<disk, mem, cfg, apc, conn, hello, row, enroll, uses, deleting, minted, faults>>
    BY DEF ServerLookup, ConnectionEnds, Unknown, agentVars, serverVars
  <1>2. TypeOK'
    BY <1>1 DEF TypeOK
  <1>3. \A e \in Conn : IF e = c THEN stage'[e] = g ELSE stage'[e] = stage[e]
    BY <1>1 DEF TypeOK
  <1>4. ProcessInv' /\ IdInv'
    BY <1>1 DEF EnrollmentInv, ProcessInv, IdInv
  <1>5. CredentialInv'
    BY <1>1, <1>3 DEF EnrollmentInv, CredentialInv
  <1>6. TokenBindsOnce'
    BY <1>1, BindsFrame DEF EnrollmentInv
  <1> QED
    BY <1>2, <1>4, <1>5, <1>6 DEF EnrollmentInv

\* EnrollDevice: the row gets the token of the hello, which is the one of the file.
LEMMA EnrollKeeps ==
    ASSUME TypeOK, EnrollmentInv, NEW c \in Conn, ServerEnroll(c)
    PROVE  TypeOK' /\ EnrollmentInv'
  <1>0. /\ UNCHANGED <<disk, mem, cfg, apc, conn, hello, minted, faults>> /\ stage[c] = "enroll"
        /\ hello[c] \in Hello
    BY DEF ServerEnroll, agentVars, TypeOK
  <1>1. /\ hello[c].id \in Id /\ hello[c].token \in Token /\ hello[c].enroll \in Enroll
        /\ hello[c].id \in minted
    BY <1>0, HelloFacts DEF EnrollmentInv, CredentialInv, IdInv
  <1>2. CASE Usable(hello[c].enroll) /\ row[hello[c].id] = None
    <2>1. /\ row' = [row EXCEPT ![hello[c].id] = hello[c].token]
          /\ enroll' = [enroll EXCEPT ![hello[c].enroll] = hello[c].id]
          /\ uses' = [uses EXCEPT ![hello[c].enroll] = @ + 1]
          /\ stage' = [stage EXCEPT ![c] = "acked"] /\ deleting' = deleting
      BY <1>2 DEF ServerEnroll, Credential
    <2>2. TypeOK'
      BY <1>0, <1>1, <2>1 DEF TypeOK
    <2>3. /\ \A e \in Conn : IF e = c THEN stage'[e] = "acked" ELSE stage'[e] = stage[e]
          /\ \A i \in Id : row'[i] = IF i = hello[c].id THEN hello[c].token ELSE row[i]
      BY <1>0, <1>1, <2>1 DEF TypeOK
    <2>4. ProcessInv' /\ IdInv'
      BY <1>0, <1>1, <2>3 DEF EnrollmentInv, ProcessInv, IdInv
    <2>5. CredentialInv'
      BY <1>0, <1>1, <2>3, EnrollmentAssumption DEF EnrollmentInv, CredentialInv
    <2>6. TokenBindsOnce'
      <3>1. enroll[hello[c].enroll] = "unused" /\ "unused" \notin Id
        BY <1>2, EnrollmentAssumption DEF Usable
      <3>2. \A t \in Enroll :
               IF t = hello[c].enroll THEN enroll'[t] = hello[c].id /\ uses'[t] = uses[t] + 1
                                      ELSE enroll'[t] = enroll[t] /\ uses'[t] = uses[t]
        BY <1>1, <2>1 DEF TypeOK
      <3>3. uses[hello[c].enroll] = 0
        BY <1>1, <3>1 DEF EnrollmentInv, TokenBindsOnce
      <3>4. \A t \in Enroll : uses'[t] = IF enroll'[t] \in Id THEN 1 ELSE 0
        BY <1>1, <3>2, <3>3 DEF EnrollmentInv, TokenBindsOnce
      <3>5. \A i \in Id : row'[i] # None => \E t \in Enroll : enroll'[t] = i
        BY <1>1, <2>3, <3>1, <3>2 DEF EnrollmentInv, TokenBindsOnce
      <3> QED
        BY <3>4, <3>5 DEF TokenBindsOnce
    <2> QED
      BY <2>2, <2>4, <2>5, <2>6 DEF EnrollmentInv
  <1>3. CASE ~(Usable(hello[c].enroll) /\ row[hello[c].id] = None)
    <2>1. stage' = [stage EXCEPT ![c] = "closed"] /\ UNCHANGED <<row, enroll, uses, deleting>>
      BY <1>3 DEF ServerEnroll, serverVars
    <2>2. TypeOK'
      BY <1>0, <2>1 DEF TypeOK
    <2>3. \A e \in Conn : IF e = c THEN stage'[e] = "closed" ELSE stage'[e] = stage[e]
      BY <2>1 DEF TypeOK
    <2>4. ProcessInv' /\ IdInv'
      BY <1>0, <2>1 DEF EnrollmentInv, ProcessInv, IdInv
    <2>5. CredentialInv'
      BY <1>0, <2>1, <2>3 DEF EnrollmentInv, CredentialInv
    <2>6. TokenBindsOnce'
      BY <2>1, BindsFrame DEF EnrollmentInv
    <2> QED
      BY <2>2, <2>4, <2>5, <2>6 DEF EnrollmentInv
  <1> QED
    BY <1>2, <1>3

\* The administrator's steps write the tables, and stop connections.
LEMMA AdminKeeps ==
    ASSUME TypeOK, EnrollmentInv,
           \/ \E t \in Enroll : CreateEnrollmentToken(t) \/ TokenExpires(t)
           \/ \E i \in Id : DeleteDevice(i) \/ StopDeleted(i)
    PROVE  TypeOK' /\ EnrollmentInv'
  <1>1. CASE \E t \in Enroll : CreateEnrollmentToken(t) \/ TokenExpires(t)
    <2>1. PICK t \in Enroll, v \in {"unused", "expired"} :
             /\ enroll' = [enroll EXCEPT ![t] = v] /\ enroll[t] \in {"new", "unused"}
             /\ UNCHANGED <<disk, mem, cfg, apc, conn, stage, hello, row, uses, deleting, minted, faults>>
      BY <1>1 DEF CreateEnrollmentToken, TokenExpires, agentVars
    <2>2. TypeOK'
      BY <2>1 DEF TypeOK
    <2>3. ProcessInv' /\ IdInv' /\ CredentialInv'
      BY <2>1 DEF EnrollmentInv, ProcessInv, IdInv, CredentialInv
    <2>4. TokenBindsOnce'
      <3>1. \A u \in Enroll : enroll'[u] = enroll[u] \/ (enroll[u] \notin Id /\ enroll'[u] \notin Id)
        BY <2>1, EnrollmentAssumption DEF TypeOK
      <3> QED
        BY <2>1, <3>1 DEF EnrollmentInv, TokenBindsOnce
    <2> QED
      BY <2>2, <2>3, <2>4 DEF EnrollmentInv
  <1>2. CASE \E i \in Id : DeleteDevice(i)
    <2>1. PICK i \in Id :
             /\ row' = [row EXCEPT ![i] = None] /\ deleting' = deleting \cup {i}
             /\ UNCHANGED <<disk, mem, cfg, apc, conn, stage, hello, enroll, uses, minted, faults>>
      BY <1>2 DEF DeleteDevice, agentVars
    <2>2. TypeOK'
      BY <2>1 DEF TypeOK
    <2>3. \A j \in Id : row'[j] # None => row'[j] = row[j] /\ row[j] # None
      BY <2>1 DEF TypeOK
    <2> QED
      BY <2>1, <2>2, <2>3 DEF EnrollmentInv, ProcessInv, IdInv, CredentialInv, TokenBindsOnce
  <1>3. CASE \E i \in Id : StopDeleted(i)
    <2>1. /\ stage' = stage \/ \E c \in Conn : stage[c] = "acked" /\ stage' = [stage EXCEPT ![c] = "closed"]
          /\ deleting' \subseteq deleting
          /\ UNCHANGED <<disk, mem, cfg, apc, conn, hello, row, enroll, uses, minted, faults>>
      BY <1>3 DEF StopDeleted, agentVars
    <2>2. TypeOK'
      BY <2>1 DEF TypeOK
    <2>3. \A c \in Conn : stage'[c] # stage[c] => stage'[c] = "closed" /\ stage[c] = "acked"
      BY <2>1 DEF TypeOK
    <2>4. TokenBindsOnce'
      BY <2>1, BindsFrame DEF EnrollmentInv
    <2> QED
      BY <2>1, <2>2, <2>3, <2>4 DEF EnrollmentInv, ProcessInv, IdInv, CredentialInv
  <1> QED
    BY <1>1, <1>2, <1>3

-----------------------------------------------------------------------------
(* The theorems.                                                           *)

LEMMA EnrollmentInit == Init => TypeOK /\ EnrollmentInv
  <1> SUFFICES ASSUME Init PROVE TypeOK /\ EnrollmentInv
    OBVIOUS
  <1>1. TypeOK
    <2>1. [id |-> None, token |-> None, enroll |-> None] \in Hello
      BY HelloFacts
    <2>2. 0 \in 0..MaxFaults
      BY EnrollmentAssumption
    <2> QED
      BY <2>1, <2>2, StateFacts DEF Init, TypeOK
  <1>2. EnrollmentInv
    <2>1. ProcessInv /\ IdInv /\ CredentialInv
      BY DEF Init, ProcessInv, IdInv, CredentialInv, Blank
    <2>2. TokenBindsOnce
      BY EnrollmentAssumption DEF Init, TokenBindsOnce
    <2> QED
      BY <2>1, <2>2 DEF EnrollmentInv
  <1> QED
    BY <1>1, <1>2

LEMMA EnrollmentStep == TypeOK /\ EnrollmentInv /\ [Next]_vars => (TypeOK /\ EnrollmentInv)'
  <1> SUFFICES ASSUME TypeOK, EnrollmentInv, [Next]_vars PROVE (TypeOK /\ EnrollmentInv)'
    OBVIOUS
  <1>1. ASSUME NEW a \in Agent, AgentStep(a) \/ SaveFails(a) \/ ConnectionLost(a) \/ Crash(a)
        PROVE  (TypeOK /\ EnrollmentInv)'
    BY <1>1, LoadKeeps, NewIdentityKeeps, DialKeeps, MovingKeeps DEF AgentStep, Moving
  <1>2. ASSUME NEW c \in Conn, ServerStep(c) PROVE (TypeOK /\ EnrollmentInv)'
    BY <1>2, StageKeeps, EnrollKeeps DEF ServerStep
  <1>3. CASE \/ \E t \in Enroll : CreateEnrollmentToken(t) \/ TokenExpires(t)
             \/ \E i \in Id : DeleteDevice(i) \/ StopDeleted(i)
    BY <1>3, AdminKeeps
  <1>4. ASSUME NEW a \in Agent, NEW t \in Enroll, Reinstall(a, t) PROVE (TypeOK /\ EnrollmentInv)'
    BY <1>4, ReinstallKeeps
  <1>5. CASE UNCHANGED vars
    BY <1>5, BindsFrame DEF vars, agentVars, serverVars, TypeOK, EnrollmentInv, ProcessInv, IdInv, CredentialInv
  <1> QED
    BY <1>1, <1>2, <1>3, <1>4, <1>5 DEF Next

\* The inductive invariant: file, memory, hellos and rows agree on the token of an
\* id, and no id is drawn twice.
THEOREM EnrollmentInvHolds == Spec => [](TypeOK /\ EnrollmentInv)
  BY EnrollmentInit, EnrollmentStep, PTL DEF Spec

\* Every variable keeps to its type, whatever fails when.
THEOREM TypeCorrect == Spec => []TypeOK
  BY EnrollmentInvHolds, PTL

\* main saves the token before it dials: whatever the server has stored for the id
\* of a file is the token of that file, whatever crashes, failed writes, lost acks
\* and late hellos came before.
THEOREM NeverLockedOutHolds == Spec => []NeverLockedOut
  <1>1. TypeOK /\ EnrollmentInv => NeverLockedOut
    BY DEF TypeOK, State, EnrollmentInv, CredentialInv, NeverLockedOut
  <1> QED
    BY <1>1, EnrollmentInvHolds, PTL

\* EnrollDevice checks and consumes the token in the transaction that inserts the row:
\* one row is ever inserted under a token, however many connections were told that
\* their device is unknown and however late the hello of a deleted device comes.
THEOREM TokenBindsOnceHolds == Spec => []TokenBindsOnce
  BY EnrollmentInvHolds, PTL DEF EnrollmentInv

=============================================================================
