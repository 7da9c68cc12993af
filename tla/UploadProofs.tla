---------------------------- MODULE UploadProofs ----------------------------
(* Proofs about Upload for every window, every queue that is large enough  *)
(* for it, and bodies of any length.                                       *)
EXTENDS Upload, TLAPS

-----------------------------------------------------------------------------
(* Messages and queues.                                                    *)

\* A chunk of the body is a message for the agent and an event of its worker.
LEMMA ChunkFacts ==
    \A n \in 1..MaxChunks :
        /\ Chunk(n).type = "chunk" /\ Chunk(n).n = n
        /\ Chunk(n) \in Event /\ Chunk(n) \in AgentMsg
  BY DEF AgentMsg, Event, Chunk

\* The start, the end and the abort are messages for the agent, the end is an
\* event as well, and each is told apart by its type.
LEMMA ControlFacts ==
    /\ Start \in AgentMsg /\ End \in AgentMsg /\ Abort \in AgentMsg /\ End \in Event
    /\ Start.type = "start" /\ End.type = "end" /\ Abort.type = "abort" /\ End.n = 0
  BY DEF AgentMsg, Event, Start, End, Abort

\* An event of the worker's queue is the end or a chunk.
LEMMA EventCases ==
    \A m \in Event : m = End \/ (m.n \in 1..MaxChunks /\ m = Chunk(m.n))
<1> TAKE m \in Event
<1>1. CASE m # End
  <2> PICK n \in 1..MaxChunks : m = Chunk(n)
    BY <1>1 DEF Event
  <2> QED
    BY ChunkFacts
<1>2. QED
  BY <1>1

\* A message for the agent is one of the four kinds its read loop tells apart.
LEMMA AgentMsgCases ==
    \A m \in AgentMsg :
        m \in {Start, End, Abort} \/ (m.n \in 1..MaxChunks /\ m = Chunk(m.n))
<1> TAKE m \in AgentMsg
<1>1. CASE m \notin {Start, End, Abort}
  <2> PICK n \in 1..MaxChunks : m = Chunk(n)
    BY <1>1 DEF AgentMsg
  <2> QED
    BY ChunkFacts
<1>2. QED
  BY <1>1

\* The five answers of the agent differ, and a credit is worth one.
LEMMA ServerMessages ==
    /\ Ready \in ServerMsg /\ NotReady \in ServerMsg /\ Credit \in ServerMsg
    /\ Success \in ServerMsg /\ Failure \in ServerMsg
    /\ Credit.n = 1
    /\ Ready # Success /\ Ready # Credit /\ NotReady # Success /\ Credit # Success
    /\ Failure # Success /\ Failure # Credit /\ Ready # NotReady
  BY DEF ServerMsg, Ready, NotReady, Credit, Success, Failure

\* The absence of the target is not the content of a file.
LEMMA NoFileIsNotContent == NoFile \notin Seq(1..MaxChunks)
  BY DEF NoFile

\* A send leaves a queue of messages of the same kind, on a broken link too.
LEMMA SentType ==
    ASSUME NEW S, NEW q \in Seq(S), NEW m \in S
    PROVE  Sent(q, m) \in Seq(S)
  BY DEF Sent

\* Appending to a sequence: its type, its length and its elements.
LEMMA AppendType ==
    ASSUME NEW S, NEW q \in Seq(S), NEW m \in S
    PROVE  /\ Append(q, m) \in Seq(S)
           /\ Len(Append(q, m)) = Len(q) + 1
           /\ Append(q, m)[Len(q) + 1] = m
           /\ \A i \in 1..Len(q) : Append(q, m)[i] = q[i]
  OBVIOUS

\* Taking the head off a sequence: the type, the length and the elements left.
LEMMA TailType ==
    ASSUME NEW S, NEW q \in Seq(S), q # <<>>
    PROVE  /\ Len(q) \in Nat \ {0}
           /\ Head(q) \in S /\ Head(q) = q[1]
           /\ Tail(q) \in Seq(S)
           /\ Len(Tail(q)) = Len(q) - 1
           /\ \A i \in 1..(Len(q) - 1) : Tail(q)[i] = q[i + 1]
  OBVIOUS

-----------------------------------------------------------------------------
(* Types.                                                                  *)

\* An upload that has not begun is well typed.
LEMMA TypeInit == Init => TypeOK
  BY UploadAssumption DEF Init, TypeOK

\* Every step keeps the types; the worker writes a chunk it holds.
LEMMA TypeStep ==
    ASSUME TypeOK, OwnerInv, [Next]_vars
    PROVE  TypeOK'
<1> USE DEF TypeOK, setup, serverVars, agentVars
<1>1. CASE Drop
  BY <1>1 DEF Drop
<1>2. CASE Deliver
  <2>1. Head(toServer) \in ServerMsg /\ Tail(toServer) \in Seq(ServerMsg)
    BY <1>2, TailType DEF Deliver
  <2>2. Append(pend, Head(toServer)) \in Seq(ServerMsg)
    BY <2>1, AppendType
  <2>3. toServer' \in Seq(ServerMsg) /\ pend' \in Seq(ServerMsg) /\ pstate' \in {"open", "finished"}
    BY <1>2, <2>1, <2>2 DEF Deliver
  <2>4. QED
    BY <1>2, <2>3 DEF Deliver
<1>3. CASE SendStart
  <2>1. Sent(toAgent, Start) \in Seq(AgentMsg)
    BY SentType, ControlFacts
  <2>2. QED
    BY <1>3, <2>1 DEF SendStart, ToAgent, GiveUp
<1>4. CASE Receive
  <2>1. Head(pend) \in ServerMsg /\ Tail(pend) \in Seq(ServerMsg)
    BY <1>4, TailType DEF Receive
  <2>2. Aborted \in Seq(AgentMsg)
    BY SentType, ControlFacts DEF Aborted
  <2>3. Head(pend) = Credit => WithCredit(Head(pend)) \in 0..Window
    BY ServerMessages, UploadAssumption DEF WithCredit
  <2>4. QED
    BY <1>4, <2>1, <2>2, <2>3 DEF Receive, GiveUp
<1>5. CASE WaitFails
  BY <1>5, SentType, ControlFacts DEF WaitFails, GiveUp, Aborted
<1>6. CASE SendChunk
  <2>1. AbortedTwice \in Seq(AgentMsg)
    BY SentType, ControlFacts DEF Aborted, AbortedTwice
  <2>2. Sent(toAgent, Chunk(sent + 1)) \in Seq(AgentMsg)
    <3>1. sent + 1 \in 1..MaxChunks
      BY <1>6, UploadAssumption DEF SendChunk
    <3>2. QED
      BY <3>1, SentType, ChunkFacts
  <2>3. QED
    BY <1>6, <2>1, <2>2, UploadAssumption DEF SendChunk, GiveUp, ToAgent, OutOfCredit
<1>7. CASE BodyFails
  <2>1. AbortedTwice \in Seq(AgentMsg)
    BY SentType, ControlFacts DEF Aborted, AbortedTwice
  <2>2. QED
    BY <1>7, <2>1 DEF BodyFails, GiveUp
<1>8. CASE BodyEnds
  BY <1>8 DEF BodyEnds
<1>9. CASE SendEnd
  <2>1. Sent(toAgent, End) \in Seq(AgentMsg) /\ Aborted \in Seq(AgentMsg)
    BY SentType, ControlFacts DEF Aborted
  <2>2. QED
    BY <1>9, <2>1 DEF SendEnd, ToAgent, GiveUp
<1>10. CASE ReadStart
  <2>1. toAgent' \in Seq(AgentMsg)
    BY <1>10, TailType DEF ReadStart, Consume
  <2>2. Sent(toServer, Ready) \in Seq(ServerMsg) /\ Sent(toServer, NotReady) \in Seq(ServerMsg)
    BY SentType, ServerMessages
  <2>3. toServer' \in Seq(ServerMsg) /\ session' \in SUBSET {"entry", "stop", "fd", "tmp"}
    BY <1>10, <2>2 DEF ReadStart, UploadStart, Reply
  <2>4. QED
    BY <1>10, <2>1, <2>3 DEF ReadStart, Consume, UploadStart
<1>11. CASE ReadChunk
  <2>1. toAgent' \in Seq(AgentMsg) /\ Head(toAgent) \in AgentMsg
    BY <1>11, TailType DEF ReadChunk, Consume
  <2>2. Head(toAgent) \in Event /\ Head(toAgent).n \in 1..MaxChunks
    <3>1. Head(toAgent).type = "chunk"
      BY <1>11 DEF ReadChunk, Consume
    <3>2. Head(toAgent) \notin {Start, End, Abort}
      BY <3>1, ControlFacts
    <3>3. QED
      BY <2>1, <3>2, AgentMsgCases, ChunkFacts
  <2>3. /\ Append(events, Head(toAgent)) \in Seq(Event)
        /\ Append(content, Head(toAgent).n) \in Seq(1..MaxChunks)
        /\ Sent(toServer, Failure) \in Seq(ServerMsg)
    BY <2>2, AppendType, SentType, ServerMessages
  <2>4. /\ toServer' \in Seq(ServerMsg) /\ events' \in Seq(Event)
        /\ content' \in Seq(1..MaxChunks)
    BY <1>11, <2>3 DEF ReadChunk, UploadChunk, QueueEvent, Reply
  <2>5. session' \in SUBSET {"entry", "stop", "fd", "tmp"}
    BY <1>11 DEF ReadChunk, UploadChunk, QueueEvent, StopUpload
  <2>6. QED
    BY <1>11, <2>1, <2>4, <2>5 DEF ReadChunk, Consume, UploadChunk, QueueEvent
<1>12. CASE ReadEnd
  <2>1. toAgent' \in Seq(AgentMsg)
    BY <1>12, TailType DEF ReadEnd, Consume
  <2>2. /\ Append(events, End) \in Seq(Event)
        /\ Sent(toServer, Failure) \in Seq(ServerMsg)
        /\ Sent(toServer, Success) \in Seq(ServerMsg)
    BY AppendType, SentType, ServerMessages, ControlFacts
  <2>3. toServer' \in Seq(ServerMsg) /\ events' \in Seq(Event)
    BY <1>12, <2>2 DEF ReadEnd, UploadEnd, QueueEvent, Reply, FinishError
  <2>4. session' \in SUBSET {"entry", "stop", "fd", "tmp"}
    BY <1>12 DEF ReadEnd, UploadEnd, QueueEvent, StopUpload
  <2>5. QED
    BY <1>12, <2>1, <2>3, <2>4 DEF ReadEnd, Consume, UploadEnd, QueueEvent
<1>13. CASE ReadAbort
  <2>1. toAgent' \in Seq(AgentMsg)
    BY <1>13, TailType DEF ReadAbort, Consume
  <2>2. session' \in SUBSET {"entry", "stop", "fd", "tmp"}
    BY <1>13 DEF ReadAbort, UploadAbort, StopUpload
  <2>3. QED
    BY <1>13, <2>1, <2>2 DEF ReadAbort, Consume, UploadAbort
<1>14. CASE CloseFileTransfers
  <2>1. session' \in SUBSET {"entry", "stop", "fd", "tmp"}
    BY <1>14 DEF CloseFileTransfers, StopUpload
  <2>2. QED
    BY <1>14, <2>1 DEF CloseFileTransfers
<1>15. CASE WorkerStops
  BY <1>15 DEF WorkerStops, WorkerGoto, workerOthers
<1>16. CASE WorkerTakes
  <2>1. Head(events) \in Event /\ Tail(events) \in Seq(Event)
    BY <1>16, TailType DEF WorkerTakes
  <2>2. Head(events).n \in 0..MaxChunks
    BY <2>1, EventCases, ControlFacts, UploadAssumption
  <2>3. QED
    BY <1>16, <2>1, <2>2 DEF WorkerTakes, WorkerGoto, workerOthers
<1>17. CASE WorkerWrites
  <2>1. Append(content, held) \in Seq(1..MaxChunks)
    BY <1>17, AppendType DEF WorkerWrites, OwnerInv
  <2>2. QED
    BY <1>17, <2>1 DEF WorkerWrites, WorkerGoto, workerOthers
<1>18. CASE WorkerFails
  <2>1. Sent(toServer, Failure) \in Seq(ServerMsg)
    BY SentType, ServerMessages
  <2>2. QED
    BY <1>18, <2>1 DEF WorkerFails, Reply, WorkerGoto, workerOthers
<1>19. CASE WorkerCredits
  <2>1. toServer' \in Seq(ServerMsg)
    BY <1>19, SentType, ServerMessages DEF WorkerCredits, CreditReturned
  <2>2. QED
    BY <1>19, <2>1 DEF WorkerCredits, WorkerGoto, workerOthers
<1>20. CASE WorkerEnds
  BY <1>20 DEF WorkerEnds, OwnsUpload, WorkerGoto, workerOthers
<1>21. CASE WorkerCommits
  <2>1. Sent(toServer, Failure) \in Seq(ServerMsg)
    BY SentType, ServerMessages
  <2>2. QED
    BY <1>21, <2>1 DEF WorkerCommits, Reply, FinishError, WorkerGoto, workerOthers
<1>22. CASE WorkerReplies
  <2>1. toServer' \in Seq(ServerMsg)
    BY <1>22, SentType, ServerMessages DEF WorkerReplies, Reply
  <2>2. QED
    BY <1>22, <2>1 DEF WorkerReplies, WorkerGoto, workerOthers
<1>23. CASE WorkerCleans
  BY <1>23 DEF WorkerCleans, CleanedUp, WorkerGoto, workerOthers
<1>24. CASE UNCHANGED vars
  BY <1>24 DEF vars
<1> HIDE DEF TypeOK
<1>25. QED
  BY <1>1, <1>2, <1>3, <1>4, <1>5, <1>6, <1>7, <1>8, <1>9, <1>10,
     <1>11, <1>12, <1>13, <1>14, <1>15, <1>16, <1>17, <1>18, <1>19, <1>20,
     <1>21, <1>22, <1>23, <1>24
  DEF Next, Server, AgentReads, Worker

\* Ownership of the map entry passes between the read loop and the worker.
LEMMA OwnerStep ==
    ASSUME TypeOK, OwnerInv, [Next]_vars
    PROVE  OwnerInv'
<1> USE DEF OwnerInv, Credited, Entry, Stopped, setup, serverVars, agentVars
<1>1. CASE Drop
  BY <1>1 DEF Drop
<1>2. CASE Deliver
  BY <1>2 DEF Deliver
<1>3. CASE SendStart
  BY <1>3 DEF SendStart, GiveUp
<1>4. CASE Receive
  BY <1>4 DEF Receive, GiveUp
<1>5. CASE WaitFails
  BY <1>5 DEF WaitFails, GiveUp
<1>6. CASE SendChunk
  BY <1>6 DEF SendChunk, GiveUp
<1>7. CASE BodyFails
  BY <1>7 DEF BodyFails, GiveUp
<1>8. CASE BodyEnds
  BY <1>8 DEF BodyEnds
<1>9. CASE SendEnd
  BY <1>9 DEF SendEnd, GiveUp
<1>10. CASE ReadStart
  BY <1>10 DEF ReadStart, Consume, UploadStart
<1>11. CASE ReadChunk
  BY <1>11 DEF ReadChunk, Consume, UploadChunk, QueueEvent, StopUpload
<1>12. CASE ReadEnd
  BY <1>12 DEF ReadEnd, Consume, UploadEnd, QueueEvent, StopUpload
<1>13. CASE ReadAbort
  BY <1>13 DEF ReadAbort, Consume, UploadAbort, StopUpload
<1>14. CASE CloseFileTransfers
  BY <1>14 DEF CloseFileTransfers, StopUpload
<1>15. CASE WorkerStops
  BY <1>15 DEF WorkerStops, WorkerGoto, workerOthers
<1>16. CASE WorkerTakes
  <2>1. Head(events) \in Event
    BY <1>16, TailType DEF WorkerTakes, TypeOK
  <2>2. Head(events) # End => Head(events).n # 0
    BY <2>1, EventCases
  <2>3. QED
    BY <1>16, <2>2 DEF WorkerTakes, WorkerGoto, workerOthers
<1>17. CASE WorkerWrites
  BY <1>17 DEF WorkerWrites, WorkerGoto, workerOthers
<1>18. CASE WorkerFails
  BY <1>18 DEF WorkerFails, WorkerGoto, workerOthers
<1>19. CASE WorkerCredits
  BY <1>19 DEF WorkerCredits, WorkerGoto, workerOthers
<1>20. CASE WorkerEnds
  BY <1>20 DEF WorkerEnds, OwnsUpload, WorkerGoto, workerOthers
<1>21. CASE WorkerCommits
  BY <1>21 DEF WorkerCommits, WorkerGoto, workerOthers
<1>22. CASE WorkerReplies
  BY <1>22 DEF WorkerReplies, WorkerGoto, workerOthers
<1>23. CASE WorkerCleans
  BY <1>23 DEF WorkerCleans, CleanedUp, WorkerGoto, workerOthers
<1>24. CASE UNCHANGED vars
  BY <1>24 DEF vars
<1> HIDE DEF OwnerInv
<1>25. QED
  BY <1>1, <1>2, <1>3, <1>4, <1>5, <1>6, <1>7, <1>8, <1>9, <1>10,
     <1>11, <1>12, <1>13, <1>14, <1>15, <1>16, <1>17, <1>18, <1>19, <1>20,
     <1>21, <1>22, <1>23, <1>24
  DEF Next, Server, AgentReads, Worker

\* A queue of messages to the server promises nothing it did not promise before
\* if a message is taken from it, or one is put into it that is no success or is
\* sent when the file is there.
LEMMA SentPromise ==
    ASSUME NEW q \in Seq(ServerMsg), NEW m \in ServerMsg, NEW f,
           \A i \in 1..Len(q) : q[i] = Success => f # NoFile,
           m = Success => f # NoFile
    PROVE  \A i \in 1..Len(Sent(q, m)) : Sent(q, m)[i] = Success => f # NoFile
<1>1. \A i \in 1..Len(Append(q, m)) : Append(q, m)[i] = Success => f # NoFile
  BY AppendType
<1>2. QED
  BY <1>1 DEF Sent

\* The same for a message the read loop puts into the pending request's channel.
LEMMA AppendPromise ==
    ASSUME NEW q \in Seq(ServerMsg), NEW m \in ServerMsg, NEW f,
           \A i \in 1..Len(q) : q[i] = Success => f # NoFile,
           m = Success => f # NoFile
    PROVE  \A i \in 1..Len(Append(q, m)) : Append(q, m)[i] = Success => f # NoFile
  BY AppendType

\* The same for a message that is taken from a queue.
LEMMA TailPromise ==
    ASSUME NEW q \in Seq(ServerMsg), q # <<>>, NEW f,
           \A i \in 1..Len(q) : q[i] = Success => f # NoFile
    PROVE  /\ \A i \in 1..Len(Tail(q)) : Tail(q)[i] = Success => f # NoFile
           /\ Head(q) = Success => f # NoFile
<1>1. \A i \in 1..(Len(q) - 1) : i + 1 \in 1..Len(q) /\ Tail(q)[i] = q[i + 1]
  BY TailType
<1>2. QED
  BY <1>1, TailType

\* A success is sent after the rename, and nothing takes the file away.
LEMMA ReplyStep ==
    ASSUME TypeOK, ReplyInv, OkMeansCommitted, [Next]_vars
    PROVE  ReplyInv' /\ OkMeansCommitted'
<1> USE DEF ReplyInv, OkMeansCommitted, setup, serverVars, agentVars
<1>1. CASE Drop
  BY <1>1 DEF Drop
<1>2. CASE Deliver
  <2>1. /\ toServer # <<>> /\ Head(toServer) \in ServerMsg
        /\ Head(toServer) = Success => target # NoFile
        /\ \A i \in 1..Len(Tail(toServer)) : Tail(toServer)[i] = Success => target # NoFile
    BY <1>2, TailType, TailPromise DEF Deliver, TypeOK
  <2>2. \A i \in 1..Len(Append(pend, Head(toServer))) :
            Append(pend, Head(toServer))[i] = Success => target # NoFile
    BY <2>1, AppendPromise DEF TypeOK
  <2>3. QED
    BY <1>2, <2>1, <2>2 DEF Deliver
<1>3. CASE SendStart
  BY <1>3 DEF SendStart, GiveUp
<1>4. CASE Receive
  <2>1. /\ Head(pend) = Success => target # NoFile
        /\ \A i \in 1..Len(Tail(pend)) : Tail(pend)[i] = Success => target # NoFile
    BY <1>4, TailPromise DEF Receive, TypeOK
  <2>2. outcome' = "ok" => outcome = "ok" \/ Head(pend) = Success
    BY <1>4 DEF Receive, GiveUp
  <2>3. QED
    BY <1>4, <2>1, <2>2 DEF Receive
<1>5. CASE WaitFails
  BY <1>5 DEF WaitFails, GiveUp
<1>6. CASE SendChunk
  BY <1>6 DEF SendChunk, GiveUp
<1>7. CASE BodyFails
  BY <1>7 DEF BodyFails, GiveUp
<1>8. CASE BodyEnds
  BY <1>8 DEF BodyEnds
<1>9. CASE SendEnd
  BY <1>9 DEF SendEnd, GiveUp
<1>10. CASE ReadStart
  <2>1. /\ \A i \in 1..Len(Sent(toServer, Ready)) : Sent(toServer, Ready)[i] = Success => target # NoFile
        /\ \A i \in 1..Len(Sent(toServer, NotReady)) : Sent(toServer, NotReady)[i] = Success => target # NoFile
    BY ServerMessages, SentPromise DEF TypeOK
  <2>2. QED
    BY <1>10, <2>1 DEF ReadStart, Consume, UploadStart, Reply
<1>11. CASE ReadChunk
  <2>1. \A i \in 1..Len(Sent(toServer, Failure)) : Sent(toServer, Failure)[i] = Success => target # NoFile
    BY ServerMessages, SentPromise DEF TypeOK
  <2>2. QED
    BY <1>11, <2>1 DEF ReadChunk, Consume, UploadChunk, QueueEvent, Reply
<1>12. CASE ReadEnd
  <2>1. \A i \in 1..Len(Sent(toServer, Failure)) : Sent(toServer, Failure)[i] = Success => target # NoFile
    BY ServerMessages, SentPromise DEF TypeOK
  <2>2. content # NoFile
    BY NoFileIsNotContent DEF TypeOK
  <2>3. target' = content => \A i \in 1..Len(Sent(toServer, Success)) : Sent(toServer, Success)[i] = Success => target' # NoFile
    BY <2>2, ServerMessages, SentPromise DEF TypeOK
  <2>4. target' = target \/ target' = content
    BY <1>12 DEF ReadEnd, UploadEnd, QueueEvent
  <2>5. QED
    BY <1>12, <2>1, <2>2, <2>3, <2>4 DEF ReadEnd, Consume, UploadEnd, QueueEvent, Reply, FinishError
<1>13. CASE ReadAbort
  BY <1>13 DEF ReadAbort, Consume, UploadAbort
<1>14. CASE CloseFileTransfers
  BY <1>14 DEF CloseFileTransfers
<1>15. CASE WorkerStops
  BY <1>15 DEF WorkerStops, WorkerGoto, workerOthers
<1>16. CASE WorkerTakes
  BY <1>16 DEF WorkerTakes, WorkerGoto, workerOthers
<1>17. CASE WorkerWrites
  BY <1>17 DEF WorkerWrites, WorkerGoto, workerOthers
<1>18. CASE WorkerFails
  <2>1. \A i \in 1..Len(Sent(toServer, Failure)) : Sent(toServer, Failure)[i] = Success => target # NoFile
    BY ServerMessages, SentPromise DEF TypeOK
  <2>2. QED
    BY <1>18, <2>1 DEF WorkerFails, Reply, WorkerGoto, workerOthers
<1>19. CASE WorkerCredits
  <2>1. \A i \in 1..Len(Sent(toServer, Credit)) : Sent(toServer, Credit)[i] = Success => target # NoFile
    BY ServerMessages, SentPromise DEF TypeOK
  <2>2. QED
    BY <1>19, <2>1 DEF WorkerCredits, CreditReturned, WorkerGoto, workerOthers
<1>20. CASE WorkerEnds
  BY <1>20 DEF WorkerEnds, OwnsUpload, WorkerGoto, workerOthers
<1>21. CASE WorkerCommits
  <2>1. \A i \in 1..Len(Sent(toServer, Failure)) : Sent(toServer, Failure)[i] = Success => target # NoFile
    BY ServerMessages, SentPromise DEF TypeOK
  <2>2. content # NoFile
    BY NoFileIsNotContent DEF TypeOK
  <2>3. QED
    BY <1>21, <2>1, <2>2 DEF WorkerCommits, Reply, FinishError, WorkerGoto, workerOthers
<1>22. CASE WorkerReplies
  <2>1. \A i \in 1..Len(Sent(toServer, Success)) : Sent(toServer, Success)[i] = Success => target # NoFile
    BY <1>22, ServerMessages, SentPromise DEF WorkerReplies, TypeOK
  <2>2. QED
    BY <1>22, <2>1 DEF WorkerReplies, Reply, WorkerGoto, workerOthers
<1>23. CASE WorkerCleans
  BY <1>23 DEF WorkerCleans, CleanedUp, WorkerGoto, workerOthers
<1>24. CASE UNCHANGED vars
  BY <1>24 DEF vars
<1> HIDE DEF ReplyInv, OkMeansCommitted
<1>25. QED
  BY <1>1, <1>2, <1>3, <1>4, <1>5, <1>6, <1>7, <1>8, <1>9, <1>10,
     <1>11, <1>12, <1>13, <1>14, <1>15, <1>16, <1>17, <1>18, <1>19, <1>20,
     <1>21, <1>22, <1>23, <1>24
  DEF Next, Server, AgentReads, Worker

-----------------------------------------------------------------------------
(* The theorems.                                                           *)

\* Types and ownership are inductive together.
LEMMA OwnerInvariant == Spec => [](TypeOK /\ OwnerInv)
<1>1. Init => OwnerInv
  BY DEF Init, OwnerInv, Credited, Entry, Stopped
<1>2. TypeOK /\ OwnerInv /\ [Next]_vars => (TypeOK /\ OwnerInv)'
  BY TypeStep, OwnerStep
<1>3. QED
  BY <1>1, <1>2, TypeInit, PTL DEF Spec

\* Every variable keeps its type: in particular the handler never has more
\* credits than the window and never sends past the end of the body.
THEOREM TypeCorrect == Spec => []TypeOK
  BY OwnerInvariant, PTL

\* handleFileUpload answers ok only when the renamed file is there.
THEOREM OkMeansCommittedHolds == Spec => []OkMeansCommitted
<1>1. Init => ReplyInv /\ OkMeansCommitted
  BY DEF Init, ReplyInv, OkMeansCommitted
<1>2. TypeOK /\ ReplyInv /\ OkMeansCommitted /\ [Next]_vars => (ReplyInv /\ OkMeansCommitted)'
  BY ReplyStep
<1>3. QED
  BY <1>1, <1>2, TypeCorrect, PTL DEF Spec

\* A stopped upload is not renamed any more, although the end of the file may be
\* queued, or in the hands of the worker, when stopUpload takes the entry.
THEOREM StoppedNeverCommitsHolds == Spec => StoppedNeverCommits
<1>1. TypeOK /\ OwnerInv /\ [Next]_vars => [Stopped => target' = target]_target
  <2> SUFFICES ASSUME OwnerInv, [Next]_vars, Stopped PROVE target' = target
    OBVIOUS
  <2> USE DEF OwnerInv, Credited, Entry, Stopped, setup, serverVars, agentVars
  <2>1. CASE ReadEnd
    BY <2>1 DEF ReadEnd, UploadEnd, QueueEvent
  <2>2. CASE WorkerCommits
    BY <2>2 DEF WorkerCommits
  <2>3. CASE ReadStart \/ ReadChunk \/ ReadAbort
    BY <2>3 DEF ReadStart, UploadStart, ReadChunk, UploadChunk, QueueEvent, ReadAbort, UploadAbort
  <2>4. CASE Server \/ WaitFails \/ BodyFails \/ Deliver \/ Drop
    BY <2>4 DEF Server, SendStart, Receive, SendChunk, BodyEnds, SendEnd, WaitFails, BodyFails,
                Deliver, Drop
  <2>5. CASE CloseFileTransfers \/ (Worker /\ ~WorkerCommits)
    BY <2>5 DEF CloseFileTransfers, Worker, WorkerStops, WorkerTakes, WorkerWrites, WorkerFails,
                WorkerCredits, WorkerEnds, WorkerReplies, WorkerCleans, workerOthers
  <2>6. CASE UNCHANGED vars
    BY <2>6 DEF vars
  <2>7. QED
    BY <2>1, <2>2, <2>3, <2>4, <2>5, <2>6 DEF Next, AgentReads
<1>2. QED
  BY <1>1, OwnerInvariant, PTL DEF Spec, StoppedNeverCommits

=============================================================================
