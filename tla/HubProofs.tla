----------------------------- MODULE HubProofs -----------------------------
(* Proofs about Hub for any sets of connections, requests, terminals,      *)
(* sessions and devices, finite or not.                                    *)
EXTENDS Hub, TLAPS

\* The registry of a server that has just started is well typed.
LEMMA TypeInit == Init => TypeOK
  BY HubAssumption DEF Init, TypeOK, Proc

\* Every handler step, and every step of the outside world, keeps the types.
LEMMA TypeStep == TypeOK /\ [Next]_vars => TypeOK'
<1> SUFFICES ASSUME TypeOK, [Next]_vars PROVE TypeOK'
  OBVIOUS
<1> USE HubAssumption DEF TypeOK, Proc, Goto, TermGoto
<1>1. ASSUME NEW s \in Session, CreateWebSession(s)
     PROVE  TypeOK'
  BY <1>1 DEF CreateWebSession, procVars, termVars
<1>2. ASSUME NEW s \in Session, SessionExpires(s)
     PROVE  TypeOK'
  BY <1>2 DEF SessionExpires, procVars, termVars
<1>3. ASSUME NEW x \in Proc, SnapshotTerms(x)
     PROVE  TypeOK'
  BY <1>3 DEF SnapshotTerms, procVars, termVars
<1>4. ASSUME NEW x \in Proc, NEW t \in Term, ForceClose(x, t)
     PROVE  TypeOK'
  BY <1>4 DEF ForceClose, procVars, termVars
<1>5. ASSUME NEW x \in Proc, NEW c \in Conn, StopAgent(x, c)
     PROVE  TypeOK'
  BY <1>5 DEF StopAgent, Stopped, procVars, termVars
<1>6. ASSUME NEW r \in Request, RequestReturns(r)
     PROVE  TypeOK'
  BY <1>6 DEF RequestReturns, procVars, termVars
<1>7. ASSUME NEW c \in Conn, NEW d \in Device, AgentHello(c, d)
     PROVE  TypeOK'
  BY <1>7 DEF AgentHello, procVars, termVars
<1>8. ASSUME NEW c \in Conn, AgentEnroll(c)
     PROVE  TypeOK'
  BY <1>8 DEF AgentEnroll, procVars, termVars
<1>9. ASSUME NEW c \in Conn, AgentRegister(c)
     PROVE  TypeOK'
  BY <1>9 DEF AgentRegister, Registered, procVars, termVars
<1>10. ASSUME NEW c \in Conn, AgentDrops(c)
     PROVE  TypeOK'
  BY <1>10 DEF AgentDrops, procVars, termVars
<1>11. ASSUME NEW c \in Conn, AgentReadError(c)
     PROVE  TypeOK'
  BY <1>11 DEF AgentReadError, procVars, termVars
<1>12. ASSUME NEW c \in Conn, AgentRemove(c)
     PROVE  TypeOK'
  BY <1>12 DEF AgentRemove, StillRegistered, procVars, termVars
<1>13. ASSUME NEW c \in Conn, NEW t \in Term, AgentEndsTerminal(c, t)
     PROVE  TypeOK'
  BY <1>13 DEF AgentEndsTerminal, procVars, termVars
<1>14. ASSUME NEW r \in Request, NEW s \in Session, NEW k \in {"logout", "credential"}, StartRevocation(r, s, k)
     PROVE  TypeOK'
  BY <1>14 DEF StartRevocation, procVars, termVars
<1>15. ASSUME NEW r \in Request, RevokeSessions(r)
     PROVE  TypeOK'
  BY <1>15 DEF RevokeSessions, procVars, termVars
<1>16. ASSUME NEW r \in Request, NEW d \in Device, StartDelete(r, d)
     PROVE  TypeOK'
  BY <1>16 DEF StartDelete, procVars, termVars
<1>17. ASSUME NEW r \in Request, DeleteRow(r)
     PROVE  TypeOK'
  BY <1>17 DEF DeleteRow, procVars, termVars
<1>18. ASSUME NEW r \in Request, DeleteRegistration(r)
     PROVE  TypeOK'
  BY <1>18 DEF DeleteRegistration, Registered, procVars, termVars
<1>19. ASSUME NEW r \in Request, Shutdown(r)
     PROVE  TypeOK'
  BY <1>19 DEF Shutdown, Registered, procVars, termVars
<1>20. ASSUME NEW t \in Term, NEW s \in Session, NEW d \in Device, TermStart(t, s, d)
     PROVE  TypeOK'
  BY <1>20 DEF TermStart, procVars, termVars
<1>21. ASSUME NEW t \in Term, TermLookupRow(t)
     PROVE  TypeOK'
  BY <1>21 DEF TermLookupRow, procVars, termVars
<1>22. ASSUME NEW t \in Term, TermLookupAgent(t)
     PROVE  TypeOK'
  BY <1>22 DEF TermLookupAgent, procVars, termVars
<1>23. ASSUME NEW t \in Term, TermRegister(t)
     PROVE  TypeOK'
  BY <1>23 DEF TermRegister, procVars, termVars
<1>24. ASSUME NEW t \in Term, TermRevalidate(t)
     PROVE  TypeOK'
  BY <1>24 DEF TermRevalidate, RevalidatedSession, procVars, termVars
<1>25. ASSUME NEW t \in Term, TermArmExpiry(t)
     PROVE  TypeOK'
  BY <1>25 DEF TermArmExpiry, WithTimer, procVars, termVars
<1>26. ASSUME NEW t \in Term, TermOpen(t)
     PROVE  TypeOK'
  BY <1>26 DEF TermOpen, procVars, termVars
<1>27. ASSUME NEW t \in Term, TermReadError(t)
     PROVE  TypeOK'
  BY <1>27 DEF TermReadError, procVars, termVars
<1>28. ASSUME NEW t \in Term, BrowserLeaves(t)
     PROVE  TypeOK'
  BY <1>28 DEF BrowserLeaves, procVars, termVars
<1>29. ASSUME NEW t \in Term, ExpiryFires(t)
     PROVE  TypeOK'
  BY <1>29 DEF ExpiryFires, procVars, termVars
<1>30. ASSUME NEW t \in Term, TermUnregister(t)
     PROVE  TypeOK'
  BY <1>30 DEF TermUnregister, procVars, termVars
<1>31. ASSUME NEW t \in Term, TermFinish(t)
     PROVE  TypeOK'
  BY <1>31 DEF TermFinish, procVars, termVars
<1>32. CASE UNCHANGED vars
  BY <1>32 DEF vars, procVars, termVars
<1> HIDE DEF TypeOK, Proc, Goto, TermGoto
<1>33. ASSUME NEW x \in Proc, CloserStep(x)
       PROVE  TypeOK'
  BY <1>33, <1>3, <1>4, <1>5 DEF CloserStep
<1>34. ASSUME NEW c \in Conn, AgentStep(c)
       PROVE  TypeOK'
  <2> c \in Proc
    BY DEF Proc
  <2> QED
    BY <1>34, <1>33, <1>8, <1>9, <1>11, <1>12 DEF AgentStep
<1>35. ASSUME NEW r \in Request, RequestStep(r)
       PROVE  TypeOK'
  <2> r \in Proc
    BY DEF Proc
  <2> QED
    BY <1>35, <1>33, <1>15, <1>17, <1>18, <1>6 DEF RequestStep
<1>36. ASSUME NEW t \in Term, TermStep(t)
       PROVE  TypeOK'
  BY <1>36, <1>21, <1>22, <1>23, <1>24, <1>25, <1>26, <1>27, <1>30, <1>31 DEF TermStep
<1>37. ASSUME Environment
       PROVE  TypeOK'
  BY <1>37, <1>1, <1>2, <1>7, <1>10, <1>13, <1>14, <1>16, <1>19, <1>20, <1>28 DEF Environment
<1>38. QED
  BY <1>29, <1>32, <1>34, <1>35, <1>36, <1>37 DEF Next

\* Every variable keeps its type in every behaviour of the server.
THEOREM TypeCorrect == Spec => []TypeOK
  BY TypeInit, TypeStep, PTL DEF Spec

-----------------------------------------------------------------------------
(* The registry.                                                           *)

\* A terminal handler touches neither the registry nor another handler.
LEMMA TermStepQuiet ==
    ASSUME NEW t \in Term, TermStep(t) \/ ExpiryFires(t)
    PROVE  UNCHANGED <<agents, up, procVars>>
  BY DEF TermStep, ExpiryFires, TermLookupRow, TermLookupAgent, TermRegister,
         TermRevalidate, TermArmExpiry, TermOpen, TermReadError, TermUnregister,
         TermFinish, procVars

\* The outside world reaches the registry through these five actions only.
LEMMA EnvironmentCases ==
    ASSUME Environment
    PROVE  \/ \E c \in Conn, d \in Device : AgentHello(c, d)
           \/ \E c \in Conn : AgentDrops(c)
           \/ \E r \in Request, s \in Session, k \in {"logout", "credential"} :
                 StartRevocation(r, s, k)
           \/ \E r \in Request, d \in Device : StartDelete(r, d)
           \/ \E r \in Request : Shutdown(r)
           \/ UNCHANGED <<agents, up, procVars>>
  BY DEF Environment, CreateWebSession, SessionExpires, AgentEndsTerminal, TermStart,
         BrowserLeaves

\* Work lists are filled and emptied where HandlerInv says.
LEMMA HandlerStep == TypeOK /\ RegistryInv /\ [Next]_vars => HandlerInv'
<1> SUFFICES ASSUME TypeOK, RegistryInv, [Next]_vars PROVE HandlerInv'
  OBVIOUS
<1> USE HubAssumption DEF TypeOK, RegistryInv, HandlerInv, Proc, Goto, procVars
<1>1. ASSUME NEW x \in Proc, SnapshotTerms(x)
     PROVE  HandlerInv'
  BY <1>1 DEF SnapshotTerms
<1>2. ASSUME NEW x \in Proc, NEW t \in Term, ForceClose(x, t)
     PROVE  HandlerInv'
  BY <1>2 DEF ForceClose
<1>3. ASSUME NEW x \in Proc, NEW c \in Conn, StopAgent(x, c)
     PROVE  HandlerInv'
  BY <1>3 DEF StopAgent, Stopped
<1>4. ASSUME NEW r \in Request, RequestReturns(r)
     PROVE  HandlerInv'
  BY <1>4 DEF RequestReturns
<1>5. ASSUME NEW c \in Conn, NEW d \in Device, AgentHello(c, d)
     PROVE  HandlerInv'
  BY <1>5 DEF AgentHello
<1>6. ASSUME NEW c \in Conn, AgentEnroll(c)
     PROVE  HandlerInv'
  BY <1>6 DEF AgentEnroll
<1>7. ASSUME NEW c \in Conn, AgentRegister(c)
     PROVE  HandlerInv'
  BY <1>7 DEF AgentRegister, Registered
<1>8. ASSUME NEW c \in Conn, AgentDrops(c)
     PROVE  HandlerInv'
  BY <1>8 DEF AgentDrops
<1>9. ASSUME NEW c \in Conn, AgentReadError(c)
     PROVE  HandlerInv'
  BY <1>9 DEF AgentReadError
<1>10. ASSUME NEW c \in Conn, AgentRemove(c)
     PROVE  HandlerInv'
  BY <1>10 DEF AgentRemove, StillRegistered
<1>11. ASSUME NEW r \in Request, NEW s \in Session, NEW k \in {"logout", "credential"}, StartRevocation(r, s, k)
     PROVE  HandlerInv'
  BY <1>11 DEF StartRevocation
<1>12. ASSUME NEW r \in Request, RevokeSessions(r)
     PROVE  HandlerInv'
  BY <1>12 DEF RevokeSessions
<1>13. ASSUME NEW r \in Request, NEW d \in Device, StartDelete(r, d)
     PROVE  HandlerInv'
  BY <1>13 DEF StartDelete
<1>14. ASSUME NEW r \in Request, DeleteRow(r)
     PROVE  HandlerInv'
  BY <1>14 DEF DeleteRow
<1>15. ASSUME NEW r \in Request, DeleteRegistration(r)
     PROVE  HandlerInv'
  BY <1>15 DEF DeleteRegistration, Registered
<1>16. ASSUME NEW r \in Request, Shutdown(r)
     PROVE  HandlerInv'
  BY <1>16 DEF Shutdown, Registered
<1>17. ASSUME UNCHANGED <<agents, up, procVars>>
     PROVE  HandlerInv'
  BY <1>17
<1> HIDE DEF TypeOK, RegistryInv, HandlerInv, Goto, procVars
<1>18. ASSUME NEW x \in Proc, CloserStep(x)
     PROVE  HandlerInv'
  BY <1>18, <1>1, <1>2, <1>3 DEF CloserStep
<1>19. ASSUME NEW c \in Conn, AgentStep(c)
     PROVE  HandlerInv'
  BY <1>19, <1>18, <1>6, <1>7, <1>9, <1>10 DEF AgentStep
<1>20. ASSUME NEW r \in Request, RequestStep(r)
     PROVE  HandlerInv'
  BY <1>20, <1>18, <1>12, <1>14, <1>15, <1>4 DEF RequestStep
<1>21. ASSUME NEW t \in Term, TermStep(t) \/ ExpiryFires(t)
     PROVE  HandlerInv'
  BY <1>21, <1>17, TermStepQuiet
<1>22. ASSUME Environment
     PROVE  HandlerInv'
  BY <1>22, <1>17, EnvironmentCases, <1>5, <1>8, <1>11, <1>13, <1>16
<1>23. QED
  BY <1>17, <1>19, <1>20, <1>21, <1>22 DEF Next, vars

\* Only a connection whose handler still runs is registered.
LEMMA DeadStep == TypeOK /\ RegistryInv /\ [Next]_vars => NoDeadRegistration'
<1> SUFFICES ASSUME TypeOK, RegistryInv, [Next]_vars PROVE NoDeadRegistration'
  OBVIOUS
<1> USE HubAssumption DEF TypeOK, RegistryInv, HandlerInv, NoDeadRegistration, Proc, Goto, procVars
<1>1. ASSUME NEW x \in Proc, SnapshotTerms(x)
     PROVE  NoDeadRegistration'
  BY <1>1 DEF SnapshotTerms
<1>2. ASSUME NEW x \in Proc, NEW t \in Term, ForceClose(x, t)
     PROVE  NoDeadRegistration'
  BY <1>2 DEF ForceClose
<1>3. ASSUME NEW x \in Proc, NEW c \in Conn, StopAgent(x, c)
     PROVE  NoDeadRegistration'
  BY <1>3 DEF StopAgent, Stopped
<1>4. ASSUME NEW r \in Request, RequestReturns(r)
     PROVE  NoDeadRegistration'
  BY <1>4 DEF RequestReturns
<1>5. ASSUME NEW c \in Conn, NEW d \in Device, AgentHello(c, d)
     PROVE  NoDeadRegistration'
  BY <1>5 DEF AgentHello
<1>6. ASSUME NEW c \in Conn, AgentEnroll(c)
     PROVE  NoDeadRegistration'
  BY <1>6 DEF AgentEnroll
<1>7. ASSUME NEW c \in Conn, AgentRegister(c)
     PROVE  NoDeadRegistration'
  BY <1>7 DEF AgentRegister, Registered
<1>8. ASSUME NEW c \in Conn, AgentDrops(c)
     PROVE  NoDeadRegistration'
  BY <1>8 DEF AgentDrops
<1>9. ASSUME NEW c \in Conn, AgentReadError(c)
     PROVE  NoDeadRegistration'
  BY <1>9 DEF AgentReadError
<1>10. ASSUME NEW c \in Conn, AgentRemove(c)
     PROVE  NoDeadRegistration'
  BY <1>10 DEF AgentRemove, StillRegistered
<1>11. ASSUME NEW r \in Request, NEW s \in Session, NEW k \in {"logout", "credential"}, StartRevocation(r, s, k)
     PROVE  NoDeadRegistration'
  BY <1>11 DEF StartRevocation
<1>12. ASSUME NEW r \in Request, RevokeSessions(r)
     PROVE  NoDeadRegistration'
  BY <1>12 DEF RevokeSessions
<1>13. ASSUME NEW r \in Request, NEW d \in Device, StartDelete(r, d)
     PROVE  NoDeadRegistration'
  BY <1>13 DEF StartDelete
<1>14. ASSUME NEW r \in Request, DeleteRow(r)
     PROVE  NoDeadRegistration'
  BY <1>14 DEF DeleteRow
<1>15. ASSUME NEW r \in Request, DeleteRegistration(r)
     PROVE  NoDeadRegistration'
  BY <1>15 DEF DeleteRegistration, Registered
<1>16. ASSUME NEW r \in Request, Shutdown(r)
     PROVE  NoDeadRegistration'
  BY <1>16 DEF Shutdown, Registered
<1>17. ASSUME UNCHANGED <<agents, up, procVars>>
     PROVE  NoDeadRegistration'
  BY <1>17
<1> HIDE DEF TypeOK, RegistryInv, HandlerInv, NoDeadRegistration, Goto, procVars
<1>18. ASSUME NEW x \in Proc, CloserStep(x)
     PROVE  NoDeadRegistration'
  BY <1>18, <1>1, <1>2, <1>3 DEF CloserStep
<1>19. ASSUME NEW c \in Conn, AgentStep(c)
     PROVE  NoDeadRegistration'
  BY <1>19, <1>18, <1>6, <1>7, <1>9, <1>10 DEF AgentStep
<1>20. ASSUME NEW r \in Request, RequestStep(r)
     PROVE  NoDeadRegistration'
  BY <1>20, <1>18, <1>12, <1>14, <1>15, <1>4 DEF RequestStep
<1>21. ASSUME NEW t \in Term, TermStep(t) \/ ExpiryFires(t)
     PROVE  NoDeadRegistration'
  BY <1>21, <1>17, TermStepQuiet
<1>22. ASSUME Environment
     PROVE  NoDeadRegistration'
  BY <1>22, <1>17, EnvironmentCases, <1>5, <1>8, <1>11, <1>13, <1>16
<1>23. QED
  BY <1>17, <1>19, <1>20, <1>21, <1>22 DEF Next, vars

\* A connection that loses its entry enters a list of connections to stop.
LEMMA SupersededStep == TypeOK /\ RegistryInv /\ [Next]_vars => SupersededIsStopped'
<1> SUFFICES ASSUME TypeOK, RegistryInv, [Next]_vars PROVE SupersededIsStopped'
  OBVIOUS
<1> USE HubAssumption DEF TypeOK, RegistryInv, HandlerInv, NoDeadRegistration, SupersededIsStopped, Proc, Goto, procVars
<1>1. ASSUME NEW x \in Proc, SnapshotTerms(x)
     PROVE  SupersededIsStopped'
  BY <1>1 DEF SnapshotTerms
<1>2. ASSUME NEW x \in Proc, NEW t \in Term, ForceClose(x, t)
     PROVE  SupersededIsStopped'
  BY <1>2 DEF ForceClose
<1>3. ASSUME NEW x \in Proc, NEW c \in Conn, StopAgent(x, c)
     PROVE  SupersededIsStopped'
  BY <1>3 DEF StopAgent, Stopped
<1>4. ASSUME NEW r \in Request, RequestReturns(r)
     PROVE  SupersededIsStopped'
  BY <1>4 DEF RequestReturns
<1>5. ASSUME NEW c \in Conn, NEW d \in Device, AgentHello(c, d)
     PROVE  SupersededIsStopped'
  BY <1>5 DEF AgentHello
<1>6. ASSUME NEW c \in Conn, AgentEnroll(c)
     PROVE  SupersededIsStopped'
  BY <1>6 DEF AgentEnroll
<1>7. ASSUME NEW c \in Conn, AgentRegister(c)
     PROVE  SupersededIsStopped'
  BY <1>7 DEF AgentRegister, Registered
<1>8. ASSUME NEW c \in Conn, AgentDrops(c)
     PROVE  SupersededIsStopped'
  BY <1>8 DEF AgentDrops
<1>9. ASSUME NEW c \in Conn, AgentReadError(c)
     PROVE  SupersededIsStopped'
  BY <1>9 DEF AgentReadError
<1>10. ASSUME NEW c \in Conn, AgentRemove(c)
     PROVE  SupersededIsStopped'
  BY <1>10 DEF AgentRemove, StillRegistered
<1>11. ASSUME NEW r \in Request, NEW s \in Session, NEW k \in {"logout", "credential"}, StartRevocation(r, s, k)
     PROVE  SupersededIsStopped'
  BY <1>11 DEF StartRevocation
<1>12. ASSUME NEW r \in Request, RevokeSessions(r)
     PROVE  SupersededIsStopped'
  BY <1>12 DEF RevokeSessions
<1>13. ASSUME NEW r \in Request, NEW d \in Device, StartDelete(r, d)
     PROVE  SupersededIsStopped'
  BY <1>13 DEF StartDelete
<1>14. ASSUME NEW r \in Request, DeleteRow(r)
     PROVE  SupersededIsStopped'
  BY <1>14 DEF DeleteRow
<1>15. ASSUME NEW r \in Request, DeleteRegistration(r)
     PROVE  SupersededIsStopped'
  BY <1>15 DEF DeleteRegistration, Registered
<1>16. ASSUME NEW r \in Request, Shutdown(r)
     PROVE  SupersededIsStopped'
  BY <1>16 DEF Shutdown, Registered
<1>17. ASSUME UNCHANGED <<agents, up, procVars>>
     PROVE  SupersededIsStopped'
  BY <1>17
<1> HIDE DEF TypeOK, RegistryInv, HandlerInv, NoDeadRegistration, SupersededIsStopped, Goto, procVars
<1>18. ASSUME NEW x \in Proc, CloserStep(x)
     PROVE  SupersededIsStopped'
  BY <1>18, <1>1, <1>2, <1>3 DEF CloserStep
<1>19. ASSUME NEW c \in Conn, AgentStep(c)
     PROVE  SupersededIsStopped'
  BY <1>19, <1>18, <1>6, <1>7, <1>9, <1>10 DEF AgentStep
<1>20. ASSUME NEW r \in Request, RequestStep(r)
     PROVE  SupersededIsStopped'
  BY <1>20, <1>18, <1>12, <1>14, <1>15, <1>4 DEF RequestStep
<1>21. ASSUME NEW t \in Term, TermStep(t) \/ ExpiryFires(t)
     PROVE  SupersededIsStopped'
  BY <1>21, <1>17, TermStepQuiet
<1>22. ASSUME Environment
     PROVE  SupersededIsStopped'
  BY <1>22, <1>17, EnvironmentCases, <1>5, <1>8, <1>11, <1>13, <1>16
<1>23. QED
  BY <1>17, <1>19, <1>20, <1>21, <1>22 DEF Next, vars

\* Work lists, registry and superseded connections are in step in every
\* behaviour.
LEMMA RegistryInvariant == Spec => []RegistryInv
<1>1. Init => RegistryInv
  BY HubAssumption DEF Init, RegistryInv, HandlerInv, NoDeadRegistration, SupersededIsStopped, Proc
<1>2. TypeOK /\ RegistryInv /\ [Next]_vars => RegistryInv'
  BY HandlerStep, DeadStep, SupersededStep DEF RegistryInv
<1>3. QED
  BY <1>1, <1>2, TypeCorrect, PTL DEF Spec

\* Server.agents never names a connection whose handler has removed itself.
THEOREM NoDeadRegistrationHolds == Spec => []NoDeadRegistration
  BY RegistryInvariant, PTL DEF RegistryInv

\* No replaced or deleted connection goes on serving without being stopped.
THEOREM SupersededIsStoppedHolds == Spec => []SupersededIsStopped
  BY RegistryInvariant, PTL DEF RegistryInv

-----------------------------------------------------------------------------
(* Terminals.                                                              *)

\* Every step keeps each admitted, open terminal within reach of the requests
\* that revoke its session.
LEMMA TerminalStep == TypeOK /\ HandlerInv /\ TerminalInv /\ [Next]_vars => TerminalInv'
<1> SUFFICES ASSUME TypeOK, HandlerInv, TerminalInv, [Next]_vars PROVE TerminalInv'
  OBVIOUS
<1> USE HubAssumption DEF TypeOK, HandlerInv, TerminalInv, Admitted, WillClose, Matches, Proc, Goto, TermGoto, procVars, termVars
<1>1. ASSUME NEW s \in Session, CreateWebSession(s)
     PROVE  TerminalInv'
  BY <1>1 DEF CreateWebSession
<1>2. ASSUME NEW s \in Session, SessionExpires(s)
     PROVE  TerminalInv'
  BY <1>2 DEF SessionExpires
<1>3. ASSUME NEW x \in Proc, SnapshotTerms(x)
     PROVE  TerminalInv'
  BY <1>3 DEF SnapshotTerms
<1>4. ASSUME NEW x \in Proc, NEW u \in Term, ForceClose(x, u)
     PROVE  TerminalInv'
  BY <1>4 DEF ForceClose
<1>5. ASSUME NEW x \in Proc, NEW c \in Conn, StopAgent(x, c)
     PROVE  TerminalInv'
  BY <1>5 DEF StopAgent, Stopped
<1>6. ASSUME NEW r \in Request, RequestReturns(r)
     PROVE  TerminalInv'
  BY <1>6 DEF RequestReturns
<1>7. ASSUME NEW c \in Conn, NEW d \in Device, AgentHello(c, d)
     PROVE  TerminalInv'
  BY <1>7 DEF AgentHello
<1>8. ASSUME NEW c \in Conn, AgentEnroll(c)
     PROVE  TerminalInv'
  BY <1>8 DEF AgentEnroll
<1>9. ASSUME NEW c \in Conn, AgentRegister(c)
     PROVE  TerminalInv'
  BY <1>9 DEF AgentRegister, Registered
<1>10. ASSUME NEW c \in Conn, AgentDrops(c)
     PROVE  TerminalInv'
  BY <1>10 DEF AgentDrops
<1>11. ASSUME NEW c \in Conn, AgentReadError(c)
     PROVE  TerminalInv'
  BY <1>11 DEF AgentReadError
<1>12. ASSUME NEW c \in Conn, AgentRemove(c)
     PROVE  TerminalInv'
  BY <1>12 DEF AgentRemove, StillRegistered
<1>13. ASSUME NEW c \in Conn, NEW u \in Term, AgentEndsTerminal(c, u)
     PROVE  TerminalInv'
  BY <1>13 DEF AgentEndsTerminal
<1>14. ASSUME NEW r \in Request, NEW s \in Session, NEW k \in {"logout", "credential"}, StartRevocation(r, s, k)
     PROVE  TerminalInv'
  BY <1>14 DEF StartRevocation
<1>15. ASSUME NEW r \in Request, RevokeSessions(r)
     PROVE  TerminalInv'
  BY <1>15 DEF RevokeSessions
<1>16. ASSUME NEW r \in Request, NEW d \in Device, StartDelete(r, d)
     PROVE  TerminalInv'
  BY <1>16 DEF StartDelete
<1>17. ASSUME NEW r \in Request, DeleteRow(r)
     PROVE  TerminalInv'
  BY <1>17 DEF DeleteRow
<1>18. ASSUME NEW r \in Request, DeleteRegistration(r)
     PROVE  TerminalInv'
  BY <1>18 DEF DeleteRegistration, Registered
<1>19. ASSUME NEW r \in Request, Shutdown(r)
     PROVE  TerminalInv'
  BY <1>19 DEF Shutdown, Registered
<1>20. ASSUME NEW u \in Term, NEW s \in Session, NEW d \in Device, TermStart(u, s, d)
     PROVE  TerminalInv'
  BY <1>20 DEF TermStart
<1>21. ASSUME NEW u \in Term, TermLookupRow(u)
     PROVE  TerminalInv'
  BY <1>21 DEF TermLookupRow
<1>22. ASSUME NEW u \in Term, TermLookupAgent(u)
     PROVE  TerminalInv'
  BY <1>22 DEF TermLookupAgent
<1>23. ASSUME NEW u \in Term, TermRegister(u)
     PROVE  TerminalInv'
  BY <1>23 DEF TermRegister
<1>24. ASSUME NEW u \in Term, TermRevalidate(u)
     PROVE  TerminalInv'
  BY <1>24 DEF TermRevalidate, RevalidatedSession, SessionValid
<1>25. ASSUME NEW u \in Term, TermArmExpiry(u)
     PROVE  TerminalInv'
  BY <1>25 DEF TermArmExpiry, WithTimer
<1>26. ASSUME NEW u \in Term, TermOpen(u)
     PROVE  TerminalInv'
  BY <1>26 DEF TermOpen
<1>27. ASSUME NEW u \in Term, TermReadError(u)
     PROVE  TerminalInv'
  BY <1>27 DEF TermReadError
<1>28. ASSUME NEW u \in Term, BrowserLeaves(u)
     PROVE  TerminalInv'
  BY <1>28 DEF BrowserLeaves
<1>29. ASSUME NEW u \in Term, ExpiryFires(u)
     PROVE  TerminalInv'
  BY <1>29 DEF ExpiryFires
<1>30. ASSUME NEW u \in Term, TermUnregister(u)
     PROVE  TerminalInv'
  BY <1>30 DEF TermUnregister
<1>31. ASSUME NEW u \in Term, TermFinish(u)
     PROVE  TerminalInv'
  BY <1>31 DEF TermFinish
<1>32. CASE UNCHANGED vars
  BY <1>32 DEF vars, procVars, termVars
<1> HIDE DEF TypeOK, HandlerInv, TerminalInv, Admitted, WillClose, Matches, Proc, Goto, TermGoto, procVars, termVars
<1>33. ASSUME NEW x \in Proc, CloserStep(x)
       PROVE  TerminalInv'
  BY <1>33, <1>3, <1>4, <1>5 DEF CloserStep
<1>34. ASSUME NEW c \in Conn, AgentStep(c)
       PROVE  TerminalInv'
  <2> c \in Proc
    BY DEF Proc
  <2> QED
    BY <1>34, <1>33, <1>8, <1>9, <1>11, <1>12 DEF AgentStep
<1>35. ASSUME NEW r \in Request, RequestStep(r)
       PROVE  TerminalInv'
  <2> r \in Proc
    BY DEF Proc
  <2> QED
    BY <1>35, <1>33, <1>15, <1>17, <1>18, <1>6 DEF RequestStep
<1>36. ASSUME NEW t \in Term, TermStep(t)
       PROVE  TerminalInv'
  BY <1>36, <1>21, <1>22, <1>23, <1>24, <1>25, <1>26, <1>27, <1>30, <1>31 DEF TermStep
<1>37. ASSUME Environment
       PROVE  TerminalInv'
  BY <1>37, <1>1, <1>2, <1>7, <1>10, <1>13, <1>14, <1>16, <1>19, <1>20, <1>28 DEF Environment
<1>38. QED
  BY <1>29, <1>32, <1>34, <1>35, <1>36, <1>37 DEF Next

\* Every admitted terminal that is open stays within reach of the requests that
\* revoke its session.
LEMMA TerminalInvariant == Spec => []TerminalInv
<1>1. Init => TerminalInv
  BY DEF Init, TerminalInv, Admitted
<1>2. QED
  BY <1>1, TerminalStep, TypeCorrect, RegistryInvariant, PTL DEF Spec, RegistryInv

\* A terminal whose session was revoked or expired is always about to be closed.
THEOREM NoDetachedTerminalHolds == Spec => []NoDetachedTerminal
<1>1. TypeOK /\ TerminalInv => NoDetachedTerminal
  BY DEF TypeOK, TerminalInv, NoDetachedTerminal, Admitted, SessionValid
<1>2. QED
  BY <1>1, TypeCorrect, TerminalInvariant, PTL

=============================================================================
