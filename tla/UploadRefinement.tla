-------------------------- MODULE UploadRefinement --------------------------
(***************************************************************************)
(* UploadInv is an invariant of Upload, for every window, every queue that *)
(* is large enough for it and bodies of any length.  From it follow that   *)
(* neither queue overflows, that the target is never a part of the body,   *)
(* and that Upload implements AtomicUpload.                                *)
(*                                                                         *)
(* Each conjunct has a lemma with one step per action that can disturb it. *)
(***************************************************************************)
EXTENDS UploadProofs

-----------------------------------------------------------------------------
(* What the steps of each process leave alone.                             *)

\* handleFileUpload changes its own variables and what it sends.
HandlerStep == Server \/ WaitFails \/ BodyFails

LEMMA HandlerFrame ==
    ASSUME HandlerStep
    PROVE  UNCHANGED <<setup, link, toServer, agentVars>>
BY DEF HandlerStep, Server, SendStart, Receive, WaitFails, SendChunk, BodyFails, BodyEnds, SendEnd

\* The agent's read loop changes nothing of the server but the wire.
LEMMA ReadFrame ==
    ASSUME AgentReads
    PROVE  /\ UNCHANGED <<setup, serverVars, pend, pstate, link, held>>
           /\ Up /\ toAgent # <<>> /\ toAgent' = Tail(toAgent)
BY DEF AgentReads, ReadStart, ReadChunk, ReadEnd, ReadAbort, Consume

\* The worker reads no message.
LEMMA WorkerFrame ==
    ASSUME Worker
    PROVE  UNCHANGED <<setup, serverVars, pend, pstate, link, toAgent>>
BY DEF Worker, WorkerStops, WorkerTakes, WorkerWrites, WorkerFails, WorkerCredits, WorkerEnds,
       WorkerCommits, WorkerReplies, WorkerCleans, workerOthers

\* The wire to the agent after the handler has put some m on it, or failed to.
WireGrows(m) ==
    /\ toAgent' \in Seq(AgentMsg) /\ Len(toAgent') >= Len(toAgent)
    /\ \A i \in 1..Len(toAgent) : toAgent'[i] = toAgent[i]
    /\ \A i \in 1..Len(toAgent') : i > Len(toAgent) => toAgent'[i] = m
    /\ ~Up => toAgent' = toAgent

\* One message, or none on a broken connection.
LEMMA SendWire ==
    ASSUME TypeOK, NEW m \in AgentMsg, ToAgent(m)
    PROVE  WireGrows(m) /\ (Up => Len(toAgent') = Len(toAgent) + 1)
<1>1. CASE Up
  BY <1>1, AppendType DEF TypeOK, ToAgent, Sent, WireGrows
<1>2. CASE ~Up
  BY <1>2 DEF TypeOK, ToAgent, Sent, WireGrows
<1> QED BY <1>1, <1>2

\* The handler gives up: nothing but aborts follows.
LEMMA GiveUpWire ==
    ASSUME TypeOK, toAgent' \in {toAgent, Aborted, AbortedTwice}
    PROVE  WireGrows(Abort)
<1>1. CASE toAgent' = toAgent
  BY <1>1 DEF TypeOK, WireGrows
<1>2. CASE toAgent' = Append(toAgent, Abort) /\ Up
  BY <1>2, AppendType, ControlFacts DEF TypeOK, WireGrows
<1>3. CASE toAgent' = Append(Append(toAgent, Abort), Abort) /\ Up
  <2> DEFINE once == Append(toAgent, Abort)
  <2>1. /\ once \in Seq(AgentMsg) /\ Len(once) = Len(toAgent) + 1
        /\ once[Len(toAgent) + 1] = Abort
        /\ \A i \in 1..Len(toAgent) : once[i] = toAgent[i]
    BY AppendType, ControlFacts DEF TypeOK
  <2> HIDE DEF once
  <2>2. /\ toAgent' \in Seq(AgentMsg) /\ Len(toAgent') = Len(once) + 1
        /\ toAgent'[Len(once) + 1] = Abort
        /\ \A i \in 1..Len(once) : toAgent'[i] = once[i]
    BY <1>3, <2>1, AppendType, ControlFacts DEF once
  <2> QED BY <1>3, <2>1, <2>2 DEF WireGrows, TypeOK
<1> QED BY <1>1, <1>2, <1>3 DEF Aborted, AbortedTwice, Sent

\* The read loop takes the first message.
LEMMA ReadWire ==
    ASSUME TypeOK, AgentReads
    PROVE  /\ toAgent' \in Seq(AgentMsg) /\ Len(toAgent') = Len(toAgent) - 1 /\ Len(toAgent) > 0
           /\ \A i \in 1..Len(toAgent') : i + 1 \in 1..Len(toAgent) /\ toAgent'[i] = toAgent[i + 1]
           /\ Head(toAgent) = toAgent[1]
<1>1. toAgent \in Seq(AgentMsg) /\ toAgent # <<>> /\ toAgent' = Tail(toAgent)
  BY ReadFrame DEF TypeOK
<1>2. Len(toAgent) \in Nat \ {0} /\ Len(toAgent') = Len(toAgent) - 1 /\ toAgent' \in Seq(AgentMsg)
  BY <1>1, TailType
<1>3. \A i \in 1..(Len(toAgent) - 1) : toAgent'[i] = toAgent[i + 1]
  BY <1>1, TailType
<1> QED BY <1>1, <1>2, <1>3, TailType

-----------------------------------------------------------------------------
(* The handler.                                                            *)

LEMMA HandlerInvStep ==
    ASSUME TypeOK, HandlerInv, Next
    PROVE  HandlerInv'
<1> USE UploadAssumption DEF TypeOK, HandlerInv, Credited
<1>1. CASE SendStart
  BY <1>1 DEF SendStart, GiveUp, setup
<1>2. CASE Receive
  BY <1>2, ServerMessages DEF Receive, GiveUp, setup, WithCredit
<1>3. CASE WaitFails \/ BodyFails
  BY <1>3 DEF WaitFails, BodyFails, GiveUp, setup
<1>4. CASE SendChunk
  BY <1>4 DEF SendChunk, GiveUp, setup, OutOfCredit
<1>5. CASE BodyEnds
  BY <1>5 DEF BodyEnds, setup
<1>6. CASE SendEnd
  BY <1>6 DEF SendEnd, GiveUp, setup
<1>7. CASE Deliver
  BY <1>7 DEF Deliver, setup, serverVars
<1>8. CASE Drop \/ CloseFileTransfers
  BY <1>8 DEF Drop, CloseFileTransfers, setup, serverVars
<1>9. CASE AgentReads \/ Worker
  BY <1>9, ReadFrame, WorkerFrame DEF setup, serverVars
<1> QED BY <1>1, <1>2, <1>3, <1>4, <1>5, <1>6, <1>7, <1>8, <1>9 DEF Next, Server

\* Once the handler has begun, a message other than the start leaves StartInv as it is.
LEMMA StartInvSend ==
    ASSUME TypeOK, StartInv, HandlerStep, NEW m \in AgentMsg \ {Start}, WireGrows(m),
           spc # "start", spc' # "start",
           pend' = pend \/ pend # <<>>,
           spc \in {"ready", "done"} => spc' \in {"ready", "done"} /\ sent' = sent
    PROVE  StartInv'
<1> USE DEF TypeOK, StartInv, WireGrows
<1>0. UNCHANGED <<link, toServer, agentVars>>
  BY HandlerFrame
<1>1. \A i \in 1..Len(toAgent') : toAgent'[i] = Start => i \in 1..Len(toAgent) /\ toAgent[i] = Start
  OBVIOUS
<1>2. toAgent' # <<>> /\ toAgent'[1] = Start => toAgent # <<>> /\ toAgent[1] = Start
  BY <1>1
<1>3. \A i \in 1..Len(toAgent') : toAgent'[i] = Start =>
          i = 1 /\ spc' \in {"ready", "done"} /\ sent' = 0
  BY <1>1
<1> QED BY <1>0, <1>2, <1>3 DEF agentVars, Up

LEMMA StartInvStep ==
    ASSUME TypeOK, HandlerInv, StartInv, OwnerInv, Next
    PROVE  StartInv'
<1> USE DEF TypeOK, StartInv, Up
<1>1. CASE SendStart
  BY <1>1, ControlFacts DEF SendStart, GiveUp, ToAgent, Sent, agentVars, HandlerInv
<1> HIDE DEF TypeOK, StartInv, Up
<1>2. CASE Receive
  <2>1. CASE toAgent' = Aborted /\ spc' = "done" /\ sent' = sent
    BY <1>2, <2>1, GiveUpWire, ControlFacts, StartInvSend
       DEF Receive, HandlerStep, Server, Waiting
  <2>2. CASE toAgent' = toAgent /\ sent' = sent /\ spc' # "start"
    <3>1. ~(toAgent # <<>> /\ toAgent[1] = Start)
      BY <1>2 DEF Receive, StartInv
    <3>2. \A i \in 1..Len(toAgent) : toAgent[i] # Start
      BY <3>1 DEF StartInv, TypeOK
    <3> QED BY <1>2, <2>2, <3>1, <3>2 DEF Receive, StartInv, agentVars, Up, Waiting
  <2> QED BY <1>2, <2>1, <2>2 DEF Receive, GiveUp, Waiting
<1>3. CASE WaitFails \/ BodyFails
  BY <1>3, GiveUpWire, ControlFacts, StartInvSend
     DEF WaitFails, BodyFails, GiveUp, Waiting, HandlerStep
<1>4. CASE SendChunk
  <2>1. CASE Up
    <3>1. sent + 1 \in 1..MaxChunks
      BY <1>4, UploadAssumption DEF SendChunk, TypeOK
    <3> QED BY <1>4, <2>1, <3>1, SendWire, ChunkFacts, ControlFacts, StartInvSend
               DEF SendChunk, HandlerStep, Server
  <2>2. CASE ~Up
    BY <1>4, <2>2, GiveUpWire, ControlFacts, StartInvSend DEF SendChunk, GiveUp, HandlerStep, Server
  <2> QED BY <2>1, <2>2
<1>5. CASE BodyEnds
  BY <1>5 DEF BodyEnds, agentVars, StartInv, Up
<1>6. CASE SendEnd
  <2>1. CASE Up
    BY <1>6, <2>1, SendWire, ControlFacts, StartInvSend DEF SendEnd, HandlerStep, Server
  <2>2. CASE ~Up
    BY <1>6, <2>2, GiveUpWire, ControlFacts, StartInvSend DEF SendEnd, GiveUp, HandlerStep, Server
  <2> QED BY <2>1, <2>2
<1>7. CASE Deliver
  BY <1>7 DEF Deliver, serverVars, agentVars, StartInv, TypeOK, Up
<1>8. CASE Drop
  BY <1>8 DEF Drop, serverVars, agentVars, StartInv, Up
<1>9. CASE CloseFileTransfers
  BY <1>9 DEF CloseFileTransfers, serverVars, Entry, StartInv, Up
<1>10. CASE AgentReads
  <2>1. \A i \in 1..Len(toAgent') : toAgent'[i] # Start
    BY <1>10, ReadWire DEF StartInv
  <2>2. spc # "start" /\ spc' # "start"
    BY <1>10, ReadFrame DEF StartInv, serverVars
  <2>3. Up'
    BY <1>10, ReadFrame DEF Up
  <2> QED BY <1>10, ReadWire, <2>1, <2>2, <2>3 DEF StartInv, TypeOK
<1>11. CASE Worker
  <2>1. wpc # "none"
    BY <1>11 DEF Worker, WorkerStops, WorkerTakes, WorkerWrites, WorkerFails, WorkerCredits,
       WorkerEnds, WorkerCommits, WorkerReplies, WorkerCleans
  <2>2. ~Up => toServer' = toServer
    BY <1>11 DEF Worker, WorkerStops, WorkerTakes, WorkerWrites, WorkerFails, WorkerCredits,
       WorkerEnds, WorkerCommits, WorkerReplies, WorkerCleans, CreditReturned, Reply, Sent
  <2> QED BY <1>11, WorkerFrame, <2>1, <2>2 DEF StartInv, serverVars, Up
<1> QED BY <1>1, <1>2, <1>3, <1>4, <1>5, <1>6, <1>7, <1>8, <1>9, <1>10, <1>11 DEF Next, Server

-----------------------------------------------------------------------------
(* What the agent finds on the wire.                                       *)

\* The lengths are numbers.
LEMMA Counts ==
    ASSUME TypeOK
    PROVE  /\ Len(content) \in Nat /\ Len(events) \in Nat /\ Len(toAgent) \in Nat
           /\ Len(pend) \in Nat /\ Len(toServer) \in Nat
           /\ InHand \in {0, 1} /\ Queued \in Nat /\ Queued =< Len(events)
           /\ Arrived = Len(content) + InHand + Queued
           /\ sent \in Nat /\ credits \in 0..Window /\ size \in Nat
<1>1. events # <<>> => Len(events) > 0
  BY DEF TypeOK
<1> QED BY <1>1, UploadAssumption DEF TypeOK, InHand, Queued, EndQueued, Arrived

\* A message on the wire to the agent is one of its messages.
LEMMA ElementOfSeq ==
    ASSUME NEW S, NEW q \in Seq(S), NEW i \in 1..Len(q)
    PROVE  q[i] \in S
OBVIOUS

\* A queued end is alone in the queue, and everything has been written before it.
LEMMA QueuedEnd ==
    ASSUME TypeOK, ContentInv, wpc \in {"idle", "write", "credit", "failed"}, EndQueued
    PROVE  Len(events) = 1 /\ Len(content) = size
<1>1. Len(events) \in 1..Len(events)
  BY DEF TypeOK, EndQueued
<1>2. events[Len(events)] = End => events[Len(events)] # Chunk(Len(content) + InHand + Len(events))
  BY DEF Chunk, End
<1> QED BY <1>1, <1>2 DEF ContentInv, EndQueued

\* A start that is read is the first message of the upload, and nothing is there yet.
LEMMA FirstOfAll ==
    ASSUME TypeOK, StartInv, toAgent # <<>>, Head(toAgent).type = "start"
    PROVE  /\ toAgent[1] = Start /\ sent = 0 /\ spc \in {"ready", "done"}
           /\ session = {} /\ wpc = "none" /\ content = <<>> /\ events = <<>>
           /\ pend = <<>> /\ toServer = <<>> /\ target = NoFile
<1>1. 1 \in 1..Len(toAgent) /\ Head(toAgent) = toAgent[1] /\ toAgent[1] \in AgentMsg
  BY TailType DEF TypeOK
<1>2. toAgent[1] = Start
  BY <1>1, AgentMsgCases, ControlFacts, ChunkFacts
<1> QED BY <1>1, <1>2 DEF StartInv

\* A chunk that finds its upload is the next one, and the end has not arrived.
LEMMA NextChunk ==
    ASSUME TypeOK, HandlerInv, OwnerInv, ContentInv, WireInv, Entry,
           toAgent # <<>>, Head(toAgent).type = "chunk"
    PROVE  /\ Arrived < sent /\ Head(toAgent) = Chunk(Arrived + 1) /\ Arrived + 1 \in 1..MaxChunks
           /\ ~EndQueued /\ wpc # "end" /\ Queued = Len(events)
<1>1. 1 \in 1..Len(toAgent) /\ Head(toAgent) = toAgent[1]
  BY TailType DEF TypeOK
<1>2. toAgent[1] \notin {End, Abort}
  BY <1>1, ControlFacts
<1>3. 1 =< sent - Arrived /\ toAgent[1] = Chunk(Arrived + 1)
  BY <1>1, <1>2 DEF WireInv
<1>4. Arrived < size /\ Len(content) < size
  BY <1>3, Counts DEF HandlerInv
<1>5. wpc # "end" /\ ~EndQueued
  <2>1. wpc # "end"
    BY <1>4, Counts DEF ContentInv
  <2>2. CASE Credited
    BY <2>1, <2>2, <1>4, QueuedEnd, Counts DEF OwnerInv
  <2>3. CASE ~Credited
    BY <2>3 DEF OwnerInv, EndQueued
  <2> QED BY <2>1, <2>2, <2>3
<1>6. Arrived + 1 \in 1..MaxChunks
  BY <1>4, Counts, UploadAssumption DEF TypeOK
<1> QED BY <1>1, <1>3, <1>5, <1>6, Counts DEF Queued

\* The end of the file that finds its upload finds everything written.
LEMMA LastOfAll ==
    ASSUME TypeOK, HandlerInv, EndInv, OwnerInv, ContentInv, WireInv, CreditInv, Entry,
           toAgent # <<>>, Head(toAgent).type = "end"
    PROVE  /\ Len(content) = size /\ events = <<>> /\ InHand = 0 /\ Arrived = sent
           /\ Credited => wpc = "idle"
<1>1. 1 \in 1..Len(toAgent) /\ Head(toAgent) = toAgent[1] /\ toAgent[1] \in AgentMsg
  BY TailType DEF TypeOK
<1>2. toAgent[1] = End
  BY <1>1, AgentMsgCases, ControlFacts, ChunkFacts
<1>3. sent = size /\ ~EndArrived /\ (Credited => credits = Window)
  BY <1>1, <1>2 DEF EndInv
<1>4. ~(1 =< sent - Arrived)
  <2>1. End # Chunk(Arrived + 1)
    BY DEF Chunk, End
  <2> QED BY <2>1, <1>1, <1>2 DEF WireInv
<1>5. Arrived = sent
  BY <1>4, Counts DEF WireInv
<1>6. Queued = Len(events)
  BY <1>3 DEF EndArrived, Queued
<1>7. CASE Credited
  <2>1. sent =< Len(content) - (IF wpc = "credit" THEN 1 ELSE 0)
    BY <1>3, <1>7, Counts, UploadAssumption DEF CreditInv, Got, Returned
  <2>2. Len(content) = sent /\ InHand = 0 /\ Len(events) = 0 /\ wpc # "credit"
    BY <2>1, <1>5, <1>6, Counts
  <2>3. wpc = "idle"
    BY <2>2, <1>3, <1>7 DEF OwnerInv, EndArrived, InHand
  <2> QED BY <2>2, <2>3, <1>3, <1>5 DEF TypeOK
<1>8. CASE ~Credited
  <2>1. InHand = 0 /\ events = <<>>
    BY <1>8 DEF OwnerInv, InHand
  <2> QED BY <2>1, <1>3, <1>5, <1>6, <1>8, Counts
<1> QED BY <1>7, <1>8

\* The window keeps the queue of the worker from being full when a message comes.
LEMMA QueueFits ==
    ASSUME TypeOK, HandlerInv, EndInv, OwnerInv, ContentInv, WireInv, CreditInv
    PROVE  AgentQueueFits
<1> SUFFICES ASSUME Entry, Credited, toAgent # <<>>, Head(toAgent).type \in {"chunk", "end"}
             PROVE  Len(events) < Window
  BY DEF AgentQueueFits
<1>1. CASE Head(toAgent).type = "chunk"
  <2>1. Len(content) + InHand + Len(events) < sent
    BY <1>1, NextChunk, Counts
  <2>2. sent + credits - Window =< Len(content)
    BY Counts, UploadAssumption DEF CreditInv, Got, Returned
  <2> QED BY <2>1, <2>2, Counts, UploadAssumption
<1>2. CASE Head(toAgent).type = "end"
  BY <1>2, LastOfAll, UploadAssumption
<1> QED BY <1>1, <1>2

-----------------------------------------------------------------------------
(* The end and the abort.                                                  *)

\* The handler gives up: aborts follow what is on the wire.
LEMMA EndInvGiveUp ==
    ASSUME TypeOK, EndInv, HandlerStep, WireGrows(Abort), spc' = "done",
           UNCHANGED <<credits, sent>>
    PROVE  EndInv'
<1>0. UNCHANGED <<mode, size, events, wpc>>
  BY HandlerFrame DEF setup, agentVars
<1>1. \A i \in 1..Len(toAgent') :
          \/ i \in 1..Len(toAgent) /\ toAgent'[i] = toAgent[i]
          \/ toAgent'[i] = Abort
  BY DEF WireGrows, TypeOK
<1>2. Abort # End /\ Abort.type # "chunk"
  BY ControlFacts
<1> QED BY <1>0, <1>1, <1>2 DEF EndInv, EndArrived, EndQueued, Credited

\* The worker and the read loop make no end of their own.
LEMMA EndInvWorker ==
    ASSUME TypeOK, EndInv, ContentInv, Worker
    PROVE  EndInv'
<1>1. EndArrived' => EndArrived
  <2>1. CASE WorkerTakes
    <3>1. events \in Seq(Event) /\ events # <<>> /\ events' = Tail(events)
      BY <2>1 DEF WorkerTakes, TypeOK
    <3>2. EndQueued' => EndQueued
      BY <3>1, TailType DEF EndQueued
    <3>3. Head(events) = End => EndQueued
      <4>1. 1 \in 1..Len(events) /\ Head(events) = events[1]
        BY <3>1, TailType
      <4>2. Chunk(Len(content) + InHand + 1) # End
        BY DEF Chunk, End
      <4> QED BY <2>1, <3>1, <4>1, <4>2 DEF ContentInv, EndQueued, WorkerTakes
    <3> QED BY <2>1, <3>2, <3>3 DEF WorkerTakes, WorkerGoto, EndArrived
  <2>2. CASE Worker /\ ~WorkerTakes
    BY <2>2 DEF Worker, WorkerStops, WorkerWrites, WorkerFails, WorkerCredits, WorkerEnds,
       WorkerCommits, WorkerReplies, WorkerCleans, WorkerGoto, EndArrived, EndQueued
  <2> QED BY <2>1, <2>2
<1> QED BY <1>1, WorkerFrame DEF EndInv, setup, serverVars, Credited

LEMMA EndInvReads ==
    ASSUME TypeOK, EndInv, AgentReads
    PROVE  EndInv'
<1>1. CASE ~ReadEnd
  <2>1. EndArrived' => EndArrived
    <3>1. CASE ReadStart \/ ReadAbort
      BY <3>1 DEF ReadStart, UploadStart, ReadAbort, UploadAbort, EndArrived, EndQueued
    <3>2. CASE ReadChunk
      <4>1. CASE events' = events
        BY <3>2, <4>1 DEF ReadChunk, UploadChunk, QueueEvent, EndArrived, EndQueued
      <4>2. CASE events' = Append(events, Head(toAgent))
        <5>1. Head(toAgent) # End
          BY <3>2, ControlFacts DEF ReadChunk, Consume
        <5>2. ~EndQueued'
          BY <4>2, <5>1 DEF EndQueued, TypeOK
        <5> QED BY <3>2, <5>2 DEF ReadChunk, UploadChunk, QueueEvent, EndArrived
      <4> QED BY <3>2, <4>1, <4>2 DEF ReadChunk, UploadChunk, QueueEvent
    <3> QED BY <1>1, <3>1, <3>2 DEF AgentReads
  <2> QED BY <2>1, ReadWire, ReadFrame DEF EndInv, setup, serverVars, Credited
<1>2. CASE ReadEnd
  <2>1. toAgent[1] = End /\ 1 \in 1..Len(toAgent)
    <3>1. Head(toAgent).type = "end" /\ Head(toAgent) = toAgent[1] /\ toAgent[1] \in AgentMsg
          /\ 1 \in 1..Len(toAgent)
      BY <1>2, ReadWire DEF ReadEnd, Consume, TypeOK
    <3> QED BY <3>1, AgentMsgCases, ControlFacts, ChunkFacts
  <2>2. \A i \in 1..Len(toAgent') : toAgent'[i] # End
    <3> TAKE i \in 1..Len(toAgent')
    <3>1. i + 1 \in 1..Len(toAgent) /\ i + 1 # 1 /\ toAgent'[i] = toAgent[i + 1]
      BY ReadWire
    <3> QED BY <2>1, <3>1 DEF EndInv
  <2>3. spc' \in {"result", "done"}
    BY <2>1, ReadFrame DEF EndInv, serverVars
  <2> QED BY <2>2, <2>3, ReadWire, ReadFrame DEF EndInv, serverVars
<1> QED BY <1>1, <1>2

LEMMA EndInvStep ==
    ASSUME TypeOK, HandlerInv, StartInv, EndInv, OwnerInv, ContentInv, Next
    PROVE  EndInv'
<1>1. CASE SendStart
  <2>1. CASE Up
    <3>1. toAgent' = <<Start>> /\ UNCHANGED <<events, wpc>>
      BY <1>1, <2>1 DEF SendStart, ToAgent, Sent, StartInv, agentVars
    <3>2. ~EndArrived'
      BY <1>1, <3>1 DEF SendStart, StartInv, EndArrived, EndQueued
    <3> QED BY <3>1, <3>2, ControlFacts DEF EndInv
  <2>2. CASE ~Up
    BY <1>1, <2>2, GiveUpWire, EndInvGiveUp DEF SendStart, GiveUp, HandlerStep, Server
  <2> QED BY <2>1, <2>2
<1>2. CASE Receive
  <2>1. CASE toAgent' = Aborted /\ spc' = "done" /\ UNCHANGED <<credits, sent>>
    BY <1>2, <2>1, GiveUpWire, EndInvGiveUp DEF HandlerStep, Server
  <2>2. CASE UNCHANGED <<toAgent, sent>>
    <3>1. UNCHANGED <<mode, size, events, wpc>>
      BY <1>2 DEF Receive, setup, agentVars
    <3>2. spc \in {"result", "done"} => spc' \in {"result", "done"} /\ credits' = credits
      BY <1>2, <2>2, ServerMessages DEF Receive, GiveUp, Waiting
    <3>3. spc = "done" => spc' = "done"
      BY <1>2 DEF Receive, Waiting
    <3> QED BY <2>2, <3>1, <3>2, <3>3 DEF EndInv, EndArrived, EndQueued, Credited
  <2> QED BY <1>2, <2>1, <2>2 DEF Receive, GiveUp
<1>3. CASE WaitFails \/ BodyFails
  BY <1>3, GiveUpWire, EndInvGiveUp DEF WaitFails, BodyFails, GiveUp, HandlerStep
<1>4. CASE SendChunk
  <2>1. CASE Up
    <3>1. sent + 1 \in 1..MaxChunks /\ sent \in Nat
      BY <1>4, UploadAssumption DEF SendChunk, TypeOK
    <3>2. WireGrows(Chunk(sent + 1))
      BY <1>4, <2>1, <3>1, SendWire, ChunkFacts DEF SendChunk
    <3>3. \A i \in 1..Len(toAgent') :
              \/ i \in 1..Len(toAgent) /\ toAgent'[i] = toAgent[i]
              \/ toAgent'[i] = Chunk(sent + 1)
      BY <3>2 DEF WireGrows, TypeOK
    <3>4. /\ Chunk(sent + 1) # End /\ Chunk(sent + 1) # Abort /\ Chunk(sent + 1).n = sent + 1
      BY <3>1, ChunkFacts, ControlFacts
    <3>5. spc = "body" /\ spc' = "body" /\ sent' = sent + 1 /\ UNCHANGED <<events, wpc>>
      BY <1>4, <2>1 DEF SendChunk, agentVars
    <3>6. \A i \in 1..Len(toAgent') : toAgent'[i] \notin {End, Abort}
      BY <3>3, <3>4, <3>5 DEF EndInv
    <3>7. \A i \in 1..Len(toAgent) : toAgent[i].type = "chunk" => toAgent[i].n =< sent + 1
      <4> SUFFICES ASSUME NEW i \in 1..Len(toAgent), toAgent[i].type = "chunk"
                   PROVE  toAgent[i].n =< sent + 1
        OBVIOUS
      <4>1. toAgent[i] \in AgentMsg
        BY ElementOfSeq DEF TypeOK
      <4>2. toAgent[i].n \in 1..MaxChunks
        BY <4>1, AgentMsgCases, ControlFacts
      <4>3. toAgent[i].n =< sent
        BY DEF EndInv
      <4> QED BY <3>1, <4>2, <4>3, UploadAssumption
    <3> QED BY <3>1, <3>3, <3>4, <3>5, <3>6, <3>7 DEF EndInv, EndArrived, EndQueued
  <2>2. CASE ~Up
    BY <1>4, <2>2, GiveUpWire, EndInvGiveUp DEF SendChunk, GiveUp, HandlerStep, Server
  <2> QED BY <2>1, <2>2
<1>5. CASE BodyEnds
  BY <1>5 DEF BodyEnds, agentVars, setup, EndInv, EndArrived, EndQueued
<1>6. CASE SendEnd
  <2>1. CASE Up
    <3>1. WireGrows(End) /\ Len(toAgent') = Len(toAgent) + 1
      BY <1>6, <2>1, SendWire, ControlFacts DEF SendEnd
    <3>2. \A i \in 1..Len(toAgent') :
              \/ i \in 1..Len(toAgent) /\ toAgent'[i] = toAgent[i]
              \/ toAgent'[i] = End /\ i = Len(toAgent) + 1
      BY <3>1 DEF WireGrows, TypeOK
    <3>3. /\ spc = "drain" /\ spc' = "result" /\ UNCHANGED <<mode, size, sent, credits, events, wpc>>
          /\ Credited => credits = Window
      BY <1>6, <2>1 DEF SendEnd, agentVars, setup
    <3>4. \A i \in 1..Len(toAgent) : toAgent[i] # End
      BY <3>3 DEF EndInv
    <3>5. ~EndArrived /\ sent = size
      BY <3>3 DEF EndInv, HandlerInv
    <3> QED BY <3>2, <3>3, <3>4, <3>5, ControlFacts DEF EndInv, EndArrived, EndQueued, Credited
  <2>2. CASE ~Up
    BY <1>6, <2>2, GiveUpWire, EndInvGiveUp DEF SendEnd, GiveUp, HandlerStep, Server
  <2> QED BY <2>1, <2>2
<1>7. CASE Deliver \/ CloseFileTransfers
  BY <1>7 DEF Deliver, CloseFileTransfers, setup, serverVars, agentVars, EndInv, EndArrived,
     EndQueued, Credited
<1>8. CASE Drop
  BY <1>8 DEF Drop, serverVars, agentVars, EndInv, EndArrived, EndQueued
<1> QED BY <1>1, <1>2, <1>3, <1>4, <1>5, <1>6, <1>7, <1>8, EndInvReads, EndInvWorker
        DEF Next, Server

-----------------------------------------------------------------------------
(* The entry, the target and what was written.                             *)

\* Nobody but the worker takes the entry while the handler waits and the link is up.
LEMMA CommitInvStep ==
    ASSUME TypeOK, StartInv, EndInv, OwnerInv, CommitInv, AgentQueueFits, Next
    PROVE  CommitInv'
<1> USE DEF CommitInv, Entry, Up
<1>1. CASE HandlerStep
  <2>1. spc # "done"
    BY <1>1 DEF HandlerStep, Server, SendStart, Receive, WaitFails, SendChunk, BodyFails, BodyEnds,
       SendEnd, Waiting
  <2> QED BY <1>1, <2>1, HandlerFrame DEF agentVars
<1>2. CASE Deliver \/ Drop
  BY <1>2 DEF Deliver, Drop, serverVars, agentVars
<1>3. CASE CloseFileTransfers
  BY <1>3 DEF CloseFileTransfers, StopUpload
<1>4. CASE ReadStart
  <2>1. target = NoFile /\ wpc = "none"
    BY <1>4, FirstOfAll DEF ReadStart, Consume
  <2> QED BY <1>4, <2>1 DEF ReadStart, UploadStart, Consume
<1>5. CASE ReadChunk
  BY <1>5, ReadFrame DEF AgentReads, ReadChunk, UploadChunk, QueueEvent, StopUpload, AgentQueueFits,
     Consume, OwnerInv, serverVars
<1>6. CASE ReadEnd
  BY <1>6, ReadFrame DEF AgentReads, ReadEnd, UploadEnd, QueueEvent, StopUpload, AgentQueueFits,
     Consume, OwnerInv, serverVars
<1>7. CASE ReadAbort
  <2>1. spc = "done"
    <3>1. Head(toAgent).type = "abort" /\ Head(toAgent) = toAgent[1] /\ toAgent[1] \in AgentMsg
          /\ 1 \in 1..Len(toAgent)
      BY <1>7, ReadWire DEF AgentReads, ReadAbort, Consume, TypeOK
    <3>2. toAgent[1] = Abort
      BY <3>1, AgentMsgCases, ControlFacts, ChunkFacts
    <3> QED BY <3>1, <3>2 DEF EndInv
  <2> QED BY <1>7, <2>1 DEF ReadAbort, UploadAbort, StopUpload, Consume, serverVars
<1>8. CASE Worker
  BY <1>8, WorkerFrame DEF serverVars, Worker, WorkerStops, WorkerTakes, WorkerWrites, WorkerFails,
     WorkerCredits, WorkerEnds, WorkerCommits, WorkerReplies, WorkerCleans, WorkerGoto, OwnsUpload,
     CleanedUp, OwnerInv
<1> QED BY <1>1, <1>2, <1>3, <1>4, <1>5, <1>6, <1>7, <1>8 DEF Next, AgentReads, HandlerStep

\* The file and the queue hold consecutive chunks, whoever writes them.
LEMMA ContentInvStep ==
    ASSUME TypeOK, HandlerInv, StartInv, EndInv, OwnerInv, ContentInv, WireInv, CreditInv, Next
    PROVE  ContentInv'
<1>1. CASE HandlerStep \/ Deliver \/ Drop \/ CloseFileTransfers
  <2>1. UNCHANGED <<content, events, wpc, held, size>>
    BY <1>1, HandlerFrame DEF Deliver, Drop, CloseFileTransfers, agentVars, setup
  <2> QED BY <2>1 DEF ContentInv, InHand
<1>2. CASE ReadStart
  <2>1. events = <<>> /\ content = <<>> /\ wpc = "none"
    BY <1>2, FirstOfAll DEF ReadStart, Consume
  <2> QED BY <1>2, <2>1 DEF ReadStart, UploadStart, Consume, ContentInv
<1>3. CASE ReadChunk
  <2>1. CASE UNCHANGED <<content, events, wpc, held, size>>
    BY <2>1 DEF ContentInv, InHand
  <2>2. CASE Entry /\ Credited /\ events' = Append(events, Head(toAgent))
    <3>1. UNCHANGED <<content, wpc, held, size>>
      BY <1>3, <2>2 DEF ReadChunk, Consume, UploadChunk, QueueEvent, setup
    <3>2. /\ Head(toAgent) = Chunk(Len(content) + InHand + Len(events) + 1) /\ ~EndQueued
          /\ Head(toAgent) \in Event
      BY <1>3, <2>2, NextChunk, Counts, ChunkFacts DEF ReadChunk, Consume
    <3>3. Len(events) = 1 => events[1] # End
      <4>1. events \in Seq(Event)
        BY DEF TypeOK
      <4>2. Len(events) = 1 => events # <<>>
        BY <4>1
      <4> QED BY <3>2, <4>2 DEF EndQueued
    <3>4. /\ Len(events') = Len(events) + 1 /\ events'[Len(events) + 1] = Head(toAgent)
          /\ \A i \in 1..Len(events) : events'[i] = events[i]
      BY <2>2, <3>2, AppendType DEF TypeOK
    <3>5. InHand' = InHand /\ wpc' # "end" /\ wpc' # "commit"
      BY <1>3, <2>2, <3>1, NextChunk DEF InHand, ReadChunk, Consume, OwnerInv
    <3>6. ASSUME wpc \in {"idle", "write", "credit", "failed"}
          PROVE  \A i \in 1..Len(events') : events'[i] = Chunk(Len(content) + InHand + i)
      <4> TAKE i \in 1..Len(events')
      <4>1. CASE i \in 1..Len(events)
        <5>1. events[i] # End \/ Len(events) # 1
          BY <4>1, <3>3
        <5> QED BY <4>1, <5>1, <3>4, <3>6 DEF ContentInv
      <4>2. CASE i = Len(events) + 1
        <5>0. Len(content) \in Nat /\ InHand \in Nat /\ Len(events) \in Nat
          BY Counts
        <5>1. Len(content) + InHand + i = Len(content) + InHand + Len(events) + 1
          BY <4>2, <5>0
        <5> QED BY <4>2, <5>1, <3>2, <3>4
      <4> QED BY <4>1, <4>2, <3>4, Counts
    <3> QED BY <3>1, <3>5, <3>6 DEF ContentInv
  <2>3. CASE Entry /\ ~Credited /\ content' = Append(content, Head(toAgent).n)
    <3>1. wpc = "none" /\ wpc' = "none" /\ events = <<>>
      BY <1>3, <2>3 DEF OwnerInv, ReadChunk, UploadChunk
    <3>2. Head(toAgent).n = Len(content) + 1 /\ Head(toAgent).n \in 1..MaxChunks
      BY <1>3, <2>3, <3>1, NextChunk, ChunkFacts, Counts DEF ReadChunk, Consume, InHand
    <3> QED BY <2>3, <3>1, <3>2, AppendType DEF ContentInv, TypeOK
  <2> QED BY <1>3, <2>1, <2>2, <2>3 DEF ReadChunk, Consume, UploadChunk, QueueEvent, setup
<1>4. CASE ReadEnd
  <2>1. CASE UNCHANGED <<content, events, wpc, held, size>>
    BY <2>1 DEF ContentInv, InHand
  <2>2. CASE Entry /\ Credited /\ events' = Append(events, End)
    <3>1. UNCHANGED <<content, wpc, held, size>>
      BY <1>4, <2>2 DEF ReadEnd, Consume, UploadEnd, QueueEvent, setup
    <3>2. events = <<>> /\ Len(content) = size /\ wpc = "idle"
      BY <1>4, <2>2, LastOfAll DEF ReadEnd, Consume
    <3>3. events' = <<End>>
      BY <2>2, <3>2
    <3> QED BY <3>1, <3>2, <3>3 DEF ContentInv
  <2> QED BY <1>4, <2>1, <2>2 DEF ReadEnd, Consume, UploadEnd, QueueEvent, setup
<1>5. CASE ReadAbort
  BY <1>5 DEF ReadAbort, Consume, UploadAbort, setup, ContentInv, InHand
<1>6. CASE WorkerTakes
  <2>1. /\ wpc = "idle" /\ events # <<>> /\ events' = Tail(events) /\ held' = Head(events).n
        /\ UNCHANGED <<content, size>> /\ wpc' = IF Head(events) = End THEN "end" ELSE "write"
    BY <1>6 DEF WorkerTakes, WorkerGoto, workerOthers, setup
  <2>2. /\ Len(events) \in Nat \ {0} /\ Len(events') = Len(events) - 1 /\ Head(events) = events[1]
        /\ \A i \in 1..Len(events') : events'[i] = events[i + 1]
        /\ Head(events) \in Event
    BY <2>1, TailType DEF TypeOK
  <2>3. InHand = 0
    BY <2>1 DEF InHand
  <2>4. CASE Head(events) = End
    <3>1. Len(content) = size
      <4>1. End # Chunk(Len(content) + InHand + 1)
        BY DEF End, Chunk
      <4> QED BY <2>1, <2>2, <2>4, <4>1 DEF ContentInv
    <3> QED BY <2>1, <2>4, <3>1 DEF ContentInv
  <2>5. CASE Head(events) # End
    <3>1. events[1] = Chunk(Len(content) + 1)
      BY <2>1, <2>2, <2>3, <2>5, Counts DEF ContentInv
    <3>2. held' = Len(content) + 1
      BY <2>1, <2>2, <3>1 DEF Chunk
    <3>3. InHand' = 1 /\ wpc' = "write"
      BY <2>1, <2>5 DEF InHand
    <3>4. \A i \in 1..Len(events') : events'[i] = Chunk(Len(content) + 1 + i)
      <4> TAKE i \in 1..Len(events')
      <4>1. i + 1 \in 1..Len(events) /\ Len(events) # 1 /\ i \in Nat
        BY <2>2
      <4>2. events[i + 1] = Chunk(Len(content) + 0 + (i + 1))
        BY <2>1, <2>3, <4>1 DEF ContentInv
      <4>3. Len(content) + 0 + (i + 1) = Len(content) + 1 + i
        BY <4>1, Counts
      <4> QED BY <2>2, <4>2, <4>3
    <3> QED BY <2>1, <3>2, <3>3, <3>4 DEF ContentInv
  <2> QED BY <2>4, <2>5
<1>7. CASE WorkerWrites
  <2>1. CASE content' = Append(content, held) /\ wpc' = "credit"
    <3>1. wpc = "write" /\ held = Len(content) + 1 /\ InHand = 1 /\ InHand' = 0
          /\ UNCHANGED <<events, size>> /\ held \in 1..MaxChunks
      BY <1>7, <2>1, Counts DEF WorkerWrites, workerOthers, setup, ContentInv, InHand, TypeOK
    <3>2. /\ Len(content') = Len(content) + 1 /\ content'[Len(content) + 1] = held
          /\ \A i \in 1..Len(content) : content'[i] = content[i]
      BY <2>1, <3>1, AppendType DEF TypeOK
    <3>3. Len(content) # size => \A i \in 1..Len(events') : events'[i] = Chunk(Len(content') + InHand' + i)
      <4> SUFFICES ASSUME Len(content) # size, NEW i \in 1..Len(events)
                   PROVE  events[i] = Chunk(Len(content) + 1 + 0 + i)
        BY <3>1, <3>2
      <4>1. events[i] = Chunk(Len(content) + 1 + i)
        BY <3>1 DEF ContentInv
      <4>2. Len(content) + 1 + 0 + i = Len(content) + 1 + i
        BY Counts
      <4> QED BY <4>1, <4>2
    <3>4. Len(content) < size
      BY <3>1, Counts DEF WireInv, HandlerInv
    <3> QED BY <2>1, <3>1, <3>2, <3>3, <3>4, Counts DEF ContentInv
  <2>2. CASE content' = content /\ wpc' = "failed"
    BY <1>7, <2>2 DEF WorkerWrites, workerOthers, setup, ContentInv, InHand
  <2> QED BY <1>7, <2>1, <2>2 DEF WorkerWrites, WorkerGoto
<1>8. CASE WorkerCredits
  BY <1>8 DEF WorkerCredits, WorkerGoto, workerOthers, setup, ContentInv, InHand
<1>9. CASE WorkerStops \/ WorkerFails \/ WorkerEnds \/ WorkerCommits \/ WorkerReplies \/ WorkerCleans
  BY <1>9 DEF WorkerStops, WorkerFails, WorkerEnds, WorkerCommits, WorkerReplies, WorkerCleans,
     WorkerGoto, workerOthers, setup, ContentInv, InHand, OwnsUpload
<1> QED BY <1>1, <1>2, <1>3, <1>4, <1>5, <1>6, <1>7, <1>8, <1>9
        DEF Next, AgentReads, Worker, HandlerStep

-----------------------------------------------------------------------------
(* What is on the way to the agent.                                        *)

\* Chunks that have arrived, when the agent's half does not change.
LEMMA ArrivedSame ==
    ASSUME UNCHANGED <<content, events, wpc>>
    PROVE  Arrived' = Arrived /\ EndQueued' = EndQueued
BY DEF Arrived, InHand, Queued, EndQueued

\* The handler sends no chunk: an end or an abort follows everything else.
LEMMA WireInvSend ==
    ASSUME TypeOK, WireInv, HandlerStep, NEW m \in {End, Abort}, WireGrows(m), sent' = sent
    PROVE  WireInv'
<1>0. UNCHANGED <<link, session, content, events, wpc>>
  BY HandlerFrame DEF agentVars
<1>1. Arrived' = Arrived
  BY <1>0, ArrivedSame
<1>2. Arrived =< sent /\ sent \in Nat /\ Arrived \in Nat
  BY Counts DEF WireInv
<1>3. CASE Entry
  <2>1. ~Up => toAgent' = toAgent
    BY DEF WireGrows
  <2>2. Up => Len(toAgent) >= sent - Arrived
    BY <1>3 DEF WireInv
  <2>3. \A i \in 1..Len(toAgent') :
            IF i =< sent - Arrived THEN toAgent'[i] = Chunk(Arrived + i)
                                   ELSE toAgent'[i] \in {End, Abort}
    <3> TAKE i \in 1..Len(toAgent')
    <3>1. CASE i \in 1..Len(toAgent)
      BY <1>3, <3>1 DEF WireInv, WireGrows
    <3>2. CASE i > Len(toAgent)
      <4>1. toAgent'[i] = m
        BY <3>2 DEF WireGrows
      <4>2. Up
        BY <2>1, <3>2, Counts
      <4>3. ~(i =< sent - Arrived)
        BY <2>2, <4>2, <3>2, <1>2, Counts
      <4> QED BY <4>1, <4>3
    <3> QED BY <3>1, <3>2, Counts DEF WireGrows
  <2>4. Up => Len(toAgent') >= sent - Arrived
    BY <2>2, <1>2, Counts DEF WireGrows
  <2> QED BY <1>0, <1>1, <1>2, <2>3, <2>4 DEF WireInv, Entry, Up
<1>4. CASE ~Entry
  BY <1>0, <1>1, <1>2, <1>4 DEF WireInv, Entry
<1> QED BY <1>3, <1>4

LEMMA WireInvHandler ==
    ASSUME TypeOK, HandlerInv, StartInv, EndInv, WireInv, HandlerStep
    PROVE  WireInv'
<1>0. UNCHANGED <<link, session, content, events, wpc>> /\ Arrived' = Arrived
  BY HandlerFrame, ArrivedSame DEF agentVars
<1>1. CASE SendStart
  <2>1. CASE Up
    BY <1>0, <1>1, <2>1 DEF SendStart, StartInv, WireInv, Entry
  <2>2. CASE ~Up
    BY <1>1, <2>2, GiveUpWire, WireInvSend DEF SendStart, GiveUp
  <2> QED BY <2>1, <2>2
<1>2. CASE Receive
  <2>1. CASE toAgent' = Aborted
    BY <1>2, <2>1, GiveUpWire, WireInvSend DEF Receive, GiveUp
  <2>2. CASE toAgent' = toAgent
    BY <1>0, <1>2, <2>2 DEF Receive, GiveUp, WireInv, Entry, Up
  <2> QED BY <1>2, <2>1, <2>2 DEF Receive, GiveUp
<1>3. CASE WaitFails \/ BodyFails
  BY <1>3, GiveUpWire, WireInvSend DEF WaitFails, BodyFails, GiveUp
<1>4. CASE SendChunk
  <2>1. CASE Up
    <3>1. sent' = sent + 1 /\ spc = "body" /\ ToAgent(Chunk(sent + 1)) /\ sent + 1 \in 1..MaxChunks
      BY <1>4, <2>1, UploadAssumption DEF SendChunk, TypeOK
    <3>2. WireGrows(Chunk(sent + 1)) /\ Len(toAgent') = Len(toAgent) + 1
      BY <2>1, <3>1, SendWire, ChunkFacts
    <3>3. Arrived =< sent /\ sent \in Nat /\ Arrived \in Nat
      BY Counts DEF WireInv
    <3>4. CASE Entry
      <4>1. \A i \in 1..Len(toAgent) : toAgent[i] \notin {End, Abort}
        BY <3>1 DEF EndInv
      <4>2. Len(toAgent) = sent - Arrived
        <5>1. ~(Len(toAgent) > sent - Arrived)
          BY <4>1, <3>3, <3>4, Counts DEF WireInv
        <5>2. Len(toAgent) >= sent - Arrived /\ Len(toAgent) \in Nat
          BY <2>1, <3>4, Counts DEF WireInv
        <5> QED BY <5>1, <5>2, <3>3
      <4>3. \A i \in 1..Len(toAgent') : i =< (sent + 1) - Arrived /\ toAgent'[i] = Chunk(Arrived + i)
        <5> TAKE i \in 1..Len(toAgent')
        <5>1. CASE i \in 1..Len(toAgent)
          BY <5>1, <3>2, <3>3, <3>4, <4>2, Counts DEF WireInv, WireGrows
        <5>2. CASE i = Len(toAgent) + 1
          <6>1. Arrived + i = sent + 1
            BY <5>2, <4>2, <3>3, Counts
          <6>2. i > Len(toAgent) /\ i =< (sent + 1) - Arrived
            BY <5>2, <4>2, <3>3, Counts
          <6> QED BY <6>1, <6>2, <3>2 DEF WireGrows
        <5> QED BY <5>1, <5>2, <3>2, Counts
      <4>4. Len(toAgent') >= (sent + 1) - Arrived
        BY <3>2, <3>3, <4>2, Counts
      <4> QED BY <1>0, <3>1, <3>3, <4>3, <4>4 DEF WireInv, Entry
    <3>5. CASE ~Entry
      BY <1>0, <3>1, <3>3, <3>5 DEF WireInv, Entry
    <3> QED BY <3>4, <3>5
  <2>2. CASE ~Up
    BY <1>4, <2>2, GiveUpWire, WireInvSend DEF SendChunk, GiveUp
  <2> QED BY <2>1, <2>2
<1>5. CASE BodyEnds
  BY <1>0, <1>5 DEF BodyEnds, WireInv, Entry, Up
<1>6. CASE SendEnd
  <2>1. CASE Up
    BY <1>6, <2>1, SendWire, ControlFacts, WireInvSend DEF SendEnd
  <2>2. CASE ~Up
    BY <1>6, <2>2, GiveUpWire, WireInvSend DEF SendEnd, GiveUp
  <2> QED BY <2>1, <2>2
<1> QED BY <1>1, <1>2, <1>3, <1>4, <1>5, <1>6 DEF HandlerStep, Server

\* The read loop takes a message off the wire without an upload to take it, or ends it.
LEMMA WireInvGone ==
    ASSUME TypeOK, WireInv, ~Entry', Arrived' =< Arrived, Arrived' \in Int, sent' = sent
    PROVE  WireInv'
BY Counts DEF WireInv

LEMMA WireInvReads ==
    ASSUME TypeOK, HandlerInv, StartInv, EndInv, OwnerInv, ContentInv, WireInv, CreditInv, AgentReads
    PROVE  WireInv'
<1>0. /\ sent' = sent /\ Up' = Up /\ Arrived =< sent /\ sent \in Nat /\ Arrived \in Nat
      /\ Len(content) \in Nat /\ InHand \in Nat /\ Len(events) \in Nat
  BY ReadFrame, Counts DEF serverVars, Up, WireInv
<1>1. CASE ReadStart
  <2>1. sent = 0 /\ content' = <<>> /\ events' = <<>> /\ wpc' \in {"none", "idle"}
    BY <1>1, FirstOfAll DEF ReadStart, Consume, UploadStart
  <2>2. Arrived' = 0
    BY <2>1 DEF Arrived, InHand, Queued, EndQueued
  <2>3. \A i \in 1..Len(toAgent') : toAgent'[i] \in {End, Abort}
    <3> TAKE i \in 1..Len(toAgent')
    <3>1. i + 1 \in 1..Len(toAgent) /\ i + 1 # 1 /\ toAgent'[i] = toAgent[i + 1]
      BY ReadWire
    <3>2. toAgent[i + 1] \in AgentMsg /\ toAgent[i + 1] # Start
      BY <3>1, ElementOfSeq DEF TypeOK, StartInv
    <3>3. toAgent[i + 1].type = "chunk" => toAgent[i + 1].n =< 0
      BY <2>1, <3>1 DEF EndInv
    <3> QED BY <3>1, <3>2, <3>3, AgentMsgCases, ChunkFacts
  <2> QED BY <1>0, <2>1, <2>2, <2>3, ReadWire DEF WireInv
<1>2. CASE ReadChunk
  <2>1. CASE UNCHANGED <<content, events, wpc>> /\ ~Entry'
    BY <1>0, <2>1, ArrivedSame, WireInvGone
  <2>2. CASE Entry /\ Arrived' = Arrived + 1
    <3>1. Arrived < sent
      BY <1>2, <2>2, NextChunk DEF ReadChunk, Consume
    <3>2. \A i \in 1..Len(toAgent') :
              IF i =< sent - (Arrived + 1) THEN toAgent'[i] = Chunk(Arrived + 1 + i)
                                           ELSE toAgent'[i] \in {End, Abort}
      <4> TAKE i \in 1..Len(toAgent')
      <4>1. i + 1 \in 1..Len(toAgent) /\ toAgent'[i] = toAgent[i + 1] /\ i \in Nat
        BY ReadWire
      <4>2. IF i + 1 =< sent - Arrived THEN toAgent[i + 1] = Chunk(Arrived + (i + 1))
                                       ELSE toAgent[i + 1] \in {End, Abort}
        BY <2>2, <4>1 DEF WireInv
      <4>3. /\ Arrived + (i + 1) = Arrived + 1 + i
            /\ i + 1 =< sent - Arrived <=> i =< sent - (Arrived + 1)
        BY <1>0, <4>1
      <4> QED BY <4>1, <4>2, <4>3
    <3>3. Up' => Len(toAgent') >= sent - (Arrived + 1)
      BY <1>0, <2>2, ReadWire DEF WireInv
    <3> QED BY <1>0, <2>2, <3>1, <3>2, <3>3 DEF WireInv
  <2>3. ASSUME Entry, Credited, events' = Append(events, Head(toAgent)), UNCHANGED <<content, wpc>>
        PROVE  Arrived' = Arrived + 1
    <3>1. Head(toAgent) # End /\ Head(toAgent) \in Event /\ Queued = Len(events)
      BY <1>2, <2>3, NextChunk, ChunkFacts, ControlFacts DEF ReadChunk, Consume
    <3>2. Len(events') = Len(events) + 1 /\ events'[Len(events')] # End
      BY <2>3, <3>1, AppendType DEF TypeOK
    <3>3. Queued' = Len(events) + 1
      BY <3>2 DEF Queued, EndQueued
    <3>4. InHand' = InHand
      BY <2>3 DEF InHand
    <3> QED BY <1>0, <2>3, <3>1, <3>3, <3>4, Counts DEF Arrived
  <2>4. ASSUME Entry, ~Credited, content' = Append(content, Head(toAgent).n),
               UNCHANGED <<events, wpc>>
        PROVE  Arrived' = Arrived + 1
    <3>1. Head(toAgent).n \in 1..MaxChunks
      BY <1>2, <2>4, NextChunk, ChunkFacts DEF ReadChunk, Consume
    <3>2. Len(content') = Len(content) + 1
      BY <2>4, <3>1, AppendType DEF TypeOK
    <3>3. InHand' = InHand /\ Queued' = Queued
      BY <2>4 DEF InHand, Queued, EndQueued
    <3> QED BY <1>0, <3>2, <3>3, Counts DEF Arrived
  <2> QED BY <1>2, <2>1, <2>2, <2>3, <2>4
          DEF ReadChunk, UploadChunk, QueueEvent, StopUpload, Entry
<1>3. CASE ReadEnd
  <2>1. CASE UNCHANGED <<content, events, wpc>> /\ ~Entry'
    BY <1>0, <2>1, ArrivedSame, WireInvGone
  <2>2. CASE Entry /\ Credited /\ events' = Append(events, End) /\ UNCHANGED <<content, wpc>>
    <3>1. events = <<>> /\ InHand = 0 /\ Arrived = sent /\ Len(content) = size /\ sent = Len(content)
      BY <1>3, <2>2, LastOfAll, Counts DEF ReadEnd, Consume, Queued, EndQueued
    <3>2. events' = <<End>>
      BY <2>2, <3>1
    <3>3. EndQueued' /\ Queued' = 0 /\ InHand' = 0
      BY <2>2, <3>1, <3>2 DEF EndQueued, Queued, InHand
    <3>4. Arrived' = sent
      BY <1>0, <2>2, <3>1, <3>3 DEF Arrived
    <3>5. \A i \in 1..Len(toAgent') : toAgent'[i] \in {End, Abort}
      BY <1>0, <2>2, <3>1, ReadWire DEF WireInv
    <3> QED BY <1>0, <3>4, <3>5, ReadWire DEF WireInv
  <2> QED BY <1>3, <2>1, <2>2 DEF ReadEnd, UploadEnd, QueueEvent, StopUpload, Entry
<1>4. CASE ReadAbort
  <2>1. UNCHANGED <<content, events, wpc>> /\ ~Entry'
    BY <1>4 DEF ReadAbort, UploadAbort, StopUpload, Entry
  <2> QED BY <1>0, <2>1, ArrivedSame, WireInvGone
<1> QED BY <1>1, <1>2, <1>3, <1>4 DEF AgentReads

\* The worker moves chunks from its queue to the file, and may lose the one in its hand.
LEMMA WireInvWorker ==
    ASSUME TypeOK, OwnerInv, ContentInv, WireInv, Worker
    PROVE  WireInv'
<1>0. /\ sent' = sent /\ Up' = Up /\ toAgent' = toAgent /\ Arrived \in Nat
      /\ Len(content) \in Nat /\ InHand \in Nat /\ Len(events) \in Nat /\ sent \in Nat
  BY WorkerFrame, Counts DEF serverVars, Up
<1>1. Entry' => Entry
  BY DEF Entry, Worker, WorkerStops, WorkerTakes, WorkerWrites, WorkerFails, WorkerCredits,
     WorkerEnds, WorkerCommits, WorkerReplies, WorkerCleans, CleanedUp
<1>2. CASE Arrived' = Arrived
  BY <1>0, <1>1, <1>2 DEF WireInv
<1>3. CASE WorkerFails
  <2>1. Arrived' = Arrived - 1 /\ ~Entry'
    <3>1. UNCHANGED <<content, events>> /\ wpc = "failed" /\ wpc' = "cleanup"
      BY <1>3 DEF WorkerFails, WorkerGoto
    <3>2. InHand = 1 /\ InHand' = 0 /\ Queued' = Queued
      BY <3>1 DEF InHand, Queued, EndQueued
    <3>3. ~Entry'
      BY <1>3 DEF WorkerFails, Entry
    <3> QED BY <1>0, <3>1, <3>2, <3>3, Counts DEF Arrived
  <2> QED BY <1>0, <2>1 DEF WireInv
<1>4. CASE WorkerTakes
  <2>1. wpc = "idle" /\ InHand = 0 /\ events # <<>> /\ events' = Tail(events) /\ content' = content
        /\ events \in Seq(Event)
    BY <1>4 DEF WorkerTakes, InHand, TypeOK
  <2>2. /\ Len(events) \in Nat \ {0} /\ Len(events') = Len(events) - 1 /\ Head(events) = events[1]
        /\ \A i \in 1..(Len(events) - 1) : events'[i] = events[i + 1]
        /\ events' \in Seq(Event)
    BY <2>1, TailType
  <2>3. CASE Head(events) = End
    <3>1. Len(events) = 1
      <4>1. End # Chunk(Len(content) + InHand + 1)
        BY DEF End, Chunk
      <4> QED BY <2>1, <2>2, <2>3, <4>1 DEF ContentInv
    <3>2. EndQueued /\ Queued = 0
      BY <2>1, <2>2, <2>3, <3>1 DEF EndQueued, Queued
    <3>3. Queued' = 0 /\ InHand' = 0
      BY <1>4, <2>2, <2>3, <3>1 DEF WorkerTakes, WorkerGoto, EndQueued, Queued, InHand
    <3> QED BY <2>1, <3>2, <3>3, <1>2 DEF Arrived
  <2>4. CASE Head(events) # End
    <3>1. ~EndQueued
      BY <2>1, <2>2, <2>4, QueuedEnd DEF EndQueued
    <3>2. ~EndQueued'
      BY <2>1, <2>2, <3>1 DEF EndQueued
    <3>3. InHand' = 1 /\ Queued = Len(events) /\ Queued' = Len(events) - 1
      BY <1>4, <2>2, <2>4, <3>1, <3>2 DEF WorkerTakes, WorkerGoto, Queued, InHand
    <3> QED BY <1>0, <2>1, <2>2, <3>3, <1>2 DEF Arrived
  <2> QED BY <2>3, <2>4
<1>5. CASE WorkerWrites
  <2>1. CASE content' = Append(content, held) /\ wpc' = "credit" /\ wpc = "write" /\ events' = events
    <3>1. Len(content') = Len(content) + 1
      BY <2>1, AppendType DEF TypeOK, OwnerInv
    <3>2. InHand = 1 /\ InHand' = 0 /\ Queued' = Queued
      BY <2>1 DEF InHand, Queued, EndQueued
    <3> QED BY <1>0, <1>2, <3>1, <3>2, Counts DEF Arrived
  <2>2. CASE content' = content /\ wpc' = "failed" /\ wpc = "write" /\ events' = events
    BY <2>2, <1>2 DEF Arrived, InHand, Queued, EndQueued
  <2> QED BY <1>5, <2>1, <2>2 DEF WorkerWrites, WorkerGoto
<1>6. CASE WorkerStops \/ WorkerCredits \/ WorkerEnds \/ WorkerCommits \/ WorkerReplies \/ WorkerCleans
  <2>1. UNCHANGED <<content, events>> /\ InHand' = InHand
    BY <1>6 DEF WorkerStops, WorkerCredits, WorkerEnds, WorkerCommits, WorkerReplies, WorkerCleans,
       WorkerGoto, InHand
  <2> QED BY <2>1, <1>2 DEF Arrived, Queued, EndQueued
<1> QED BY <1>3, <1>4, <1>5, <1>6 DEF Worker

LEMMA WireInvStep ==
    ASSUME TypeOK, HandlerInv, StartInv, EndInv, OwnerInv, ContentInv, WireInv, CreditInv, Next
    PROVE  WireInv'
<1>1. CASE Deliver \/ Drop \/ CloseFileTransfers
  <2>1. UNCHANGED <<content, events, wpc, sent>>
    BY <1>1 DEF Deliver, Drop, CloseFileTransfers, agentVars, serverVars
  <2>2. Arrived' = Arrived /\ Arrived \in Nat
    BY <2>1, ArrivedSame, Counts
  <2>3. CASE Deliver
    BY <2>1, <2>2, <2>3 DEF Deliver, agentVars, WireInv, Entry, Up
  <2>4. CASE Drop
    BY <2>1, <2>2, <2>4 DEF Drop, WireInv, Up
  <2>5. CASE CloseFileTransfers
    BY <2>1, <2>2, <2>5, WireInvGone DEF CloseFileTransfers, StopUpload, Entry
  <2> QED BY <1>1, <2>3, <2>4, <2>5
<1> QED BY <1>1, WireInvHandler, WireInvReads, WireInvWorker DEF Next, HandlerStep

-----------------------------------------------------------------------------
(* What is on the way back.                                                *)

LEMMA AnswerCounts ==
    ASSUME TypeOK
    PROVE  /\ Got \in Int /\ Returned \in Int /\ Answers \in Nat
           /\ Answers = Len(pend) + Len(toServer)
           /\ Len(content) - 1 =< Returned /\ Returned =< Len(content)
BY Counts, UploadAssumption DEF Got, Returned, Answers

\* A message put on the wire to the server, or lost with the connection.
LEMMA ReplyWire ==
    ASSUME TypeOK, NEW m \in ServerMsg, toServer' = Sent(toServer, m), pend' = pend
    PROVE  Answers' =< Answers + 1 /\ Answers' \in Nat
<1>1. Len(Append(toServer, m)) = Len(toServer) + 1
  BY AppendType DEF TypeOK
<1> QED BY <1>1, Counts DEF Answers, Sent

\* A message taken from the pending request's channel.
LEMMA ReceiveCounts ==
    ASSUME TypeOK, Receive
    PROVE  Answers' = Answers - 1 /\ Answers > 0 /\ Len(pend) > 0
<1>1. pend' = Tail(pend) /\ pend # <<>> /\ toServer' = toServer
  BY DEF Receive
<1>2. Len(pend') = Len(pend) - 1 /\ Len(pend) \in Nat \ {0}
  BY <1>1, TailType DEF TypeOK
<1> QED BY <1>1, <1>2, Counts DEF Answers

\* A message that goes from the wire to the channel, or is dropped.
LEMMA DeliverCounts ==
    ASSUME TypeOK, Deliver
    PROVE  Answers' =< Answers
<1>1. toServer # <<>> /\ toServer' = Tail(toServer)
  BY DEF Deliver
<1>2. Len(toServer') = Len(toServer) - 1 /\ Len(toServer) \in Nat \ {0} /\ Head(toServer) \in ServerMsg
  BY <1>1, TailType DEF TypeOK
<1>3. Len(Append(pend, Head(toServer))) = Len(pend) + 1
  BY <1>2, AppendType DEF TypeOK
<1>4. pend' = pend \/ pend' = Append(pend, Head(toServer))
  BY DEF Deliver
<1> QED BY <1>2, <1>3, <1>4, Counts DEF Answers

\* Nothing is sent back and the handler counts as before, or the upload is given up.
LEMMA CreditInvSame ==
    ASSUME TypeOK, TypeOK', CreditInv, Answers' =< Answers, Got' = Got, Returned' = Returned,
           mode' = mode, Entry' => Entry,
           spc' \in {"start", "ready"} => spc \in {"start", "ready"},
           spc' \in {"body", "drain", "result"} => spc \in {"body", "drain", "result"}
    PROVE  CreditInv'
<1>1. Answers \in Nat /\ Got \in Int /\ Returned \in Int
  BY AnswerCounts
<1>2. Len(pend') \in Nat /\ Len(toServer') \in Nat
  BY DEF TypeOK
<1>3. Answers' \in Nat
  BY <1>2 DEF Answers
<1> QED BY <1>1, <1>3 DEF CreditInv, Credited

LEMMA CreditInvHandler ==
    ASSUME TypeOK, TypeOK', HandlerInv, StartInv, ContentInv, CreditInv, HandlerStep
    PROVE  CreditInv'
<1>0. /\ UNCHANGED <<mode, toServer, session, content, wpc>> /\ Returned' = Returned
      /\ Credited' = Credited /\ Entry' = Entry
  BY HandlerFrame DEF setup, agentVars, Returned, Credited, Entry
<1>1. /\ Answers \in Nat /\ Got \in Int /\ Returned \in Int
      /\ sent \in Nat /\ credits \in 0..Window /\ Window \in Nat
  BY AnswerCounts, Counts, UploadAssumption
<1>2. Receive \/ pend' = pend
  BY DEF HandlerStep, Server, SendStart, WaitFails, SendChunk, BodyFails, BodyEnds, SendEnd
<1>3. pend' = pend => Answers' = Answers
  BY <1>0 DEF Answers
<1>4. CASE SendStart
  <2>1. pend' = <<>> /\ toServer' = <<>> /\ ~Entry'
    BY <1>4, <1>0 DEF SendStart, StartInv, Entry
  <2> QED BY <2>1 DEF CreditInv, Answers
<1>5. CASE spc' = "done" /\ UNCHANGED <<credits, sent>>
  <2>1. Got' = Got
    BY <1>5 DEF Got
  <2>2. Answers' =< Answers
    BY <1>1, <1>2, <1>3, ReceiveCounts
  <2> QED BY <1>0, <1>5, <2>1, <2>2, CreditInvSame
<1>6. CASE Receive /\ spc' # "done"
  <2>1. Answers' = Answers - 1 /\ Answers > 0 /\ sent' = sent /\ spc \in {"ready", "result", "body", "drain"}
    BY <1>6, ReceiveCounts DEF Receive, GiveUp, Waiting
  <2>2. CASE spc = "ready"
    <3>1. Answers' = 0 /\ spc' \in {"ready", "body"} /\ credits' = Window /\ sent = 0
      BY <1>1, <1>6, <2>1, <2>2 DEF CreditInv, Receive, GiveUp, HandlerInv
    <3>2. Got' = 0
      BY <1>1, <2>1, <3>1 DEF Got
    <3>3. Returned >= 0
      BY Counts DEF Returned, ContentInv
    <3> QED BY <1>0, <1>1, <3>1, <3>2, <3>3 DEF CreditInv
  <2>3. CASE spc \in {"body", "drain", "result"}
    <3>1. spc' = spc /\ ~(Entry /\ ~Credited)
      BY <1>1, <1>6, <2>1, <2>3 DEF Receive, GiveUp, CreditInv
    <3>2. credits' = credits \/ credits' = WithCredit(Credit)
      BY <1>6 DEF Receive, GiveUp
    <3>3. credits' \in Nat /\ credits' =< credits + 1
      BY <1>1, <3>2, ServerMessages DEF WithCredit
    <3>4. Got' \in Int /\ Got' =< Got + 1
      <4>1. sent \in Int /\ sent' \in Int /\ sent' = sent /\ credits \in Int /\ Window \in Int
        BY <1>1, <2>1
      <4>2. \A c \in Int : c =< credits + 1 =>
                sent + c - Window \in Int /\ sent + c - Window =< sent + credits - Window + 1
        BY <4>1
      <4>3. Got' = sent + credits' - Window /\ Got = sent + credits - Window
        BY <4>1 DEF Got
      <4> QED BY <4>2, <4>3, <3>3
    <3>5. CASE Entry /\ Credited
      <4>1. Answers =< Returned - Got
        BY <2>3, <3>5 DEF CreditInv
      <4>2. Got' =< Returned /\ Answers' =< Returned - Got'
        <5>1. Answers' \in Nat /\ Answers' = Answers - 1
          BY <1>1, <2>1
        <5>2. Returned \in Int /\ Got \in Int /\ Answers \in Nat /\ Answers > 0
          BY <1>1, <2>1
        <5>3. \A g \in Int : g =< Got + 1 => g =< Returned /\ Answers - 1 =< Returned - g
          BY <5>2, <4>1
        <5> QED BY <5>1, <5>3, <3>4
      <4> QED BY <1>0, <2>3, <3>1, <3>5, <4>2 DEF CreditInv
    <3>6. CASE ~Entry
      BY <1>0, <2>3, <3>1, <3>6 DEF CreditInv
    <3> QED BY <3>1, <3>5, <3>6
  <2> QED BY <2>1, <2>2, <2>3
<1>7. CASE SendChunk /\ Up
  <2>1. Credited => Got' = Got
    BY <1>1, <1>7, UploadAssumption DEF SendChunk, Got, OutOfCredit
  <2>2. spc' = "body" /\ spc = "body" /\ pend' = pend
    BY <1>7 DEF SendChunk
  <2> QED BY <1>0, <1>1, <1>3, <2>1, <2>2 DEF CreditInv
<1>8. CASE BodyEnds \/ (SendEnd /\ Up)
  <2>1. /\ UNCHANGED <<credits, sent, pend>> /\ spc \in {"body", "drain"}
        /\ spc' \in {"drain", "result"}
    BY <1>8 DEF BodyEnds, SendEnd
  <2>2. Got' = Got
    BY <2>1 DEF Got
  <2> QED BY <1>0, <1>1, <1>3, <2>1, <2>2, CreditInvSame
<1> QED BY <1>4, <1>5, <1>6, <1>7, <1>8
        DEF HandlerStep, Server, Receive, WaitFails, BodyFails, SendChunk, SendEnd, GiveUp

LEMMA CreditInvReads ==
    ASSUME TypeOK, TypeOK', HandlerInv, StartInv, EndInv, OwnerInv, CreditInv, AgentQueueFits, AgentReads
    PROVE  CreditInv'
<1>0. /\ UNCHANGED <<mode, spc, sent, credits, pend>> /\ Got' = Got /\ Credited' = Credited
  BY ReadFrame DEF setup, serverVars, Got, Credited
<1>1. /\ Answers \in Nat /\ Got \in Int /\ Returned \in Int
      /\ sent \in Nat /\ credits \in 0..Window /\ Window \in Nat
  BY AnswerCounts, Counts, UploadAssumption
<1>2. 1 \in 1..Len(toAgent) /\ Head(toAgent) = toAgent[1] /\ toAgent[1] \in AgentMsg
  BY ReadFrame, TailType DEF TypeOK
<1>3. CASE ReadStart
  <2>1. /\ sent = 0 /\ spc \in {"ready", "done"} /\ content' = <<>> /\ wpc' \in {"none", "idle"}
        /\ pend = <<>> /\ toServer = <<>>
    BY <1>3, FirstOfAll DEF ReadStart, Consume, UploadStart
  <2>2. Got =< 0 /\ Returned' = 0 /\ Answers = 0
    BY <1>1, <2>1 DEF Got, Returned, Answers
  <2>3. Answers' =< 1 /\ Answers' \in Nat
    BY <1>0, <1>3, <2>2, ReplyWire, ServerMessages DEF ReadStart, UploadStart, Reply
  <2> QED BY <1>0, <1>1, <2>1, <2>2, <2>3 DEF CreditInv
<1>4. CASE ReadChunk
  <2>1. spc \notin {"start", "ready"}
    <3>1. toAgent[1].type = "chunk" /\ toAgent[1].n =< sent
      BY <1>2, <1>4 DEF ReadChunk, Consume, EndInv
    <3>2. toAgent[1].n \in 1..MaxChunks
      BY <1>2, <3>1, AgentMsgCases, ControlFacts
    <3> QED BY <1>1, <3>1, <3>2 DEF HandlerInv
  <2>2. CASE ~Entry'
    BY <1>0, <2>1, <2>2 DEF CreditInv
  <2>3. CASE Entry /\ toServer' = toServer /\ wpc' = wpc /\ (Credited => content' = content)
    <3>1. Answers' = Answers /\ (Credited => Returned' = Returned)
      BY <1>0, <2>3 DEF Answers, Returned
    <3> QED BY <1>0, <1>1, <2>1, <2>3, <3>1 DEF CreditInv
  <2> QED BY <1>4, <2>2, <2>3 DEF ReadChunk, UploadChunk, QueueEvent, StopUpload, Entry
<1>5. CASE ReadEnd
  <2>1. spc \in {"result", "done"}
    <3>1. toAgent[1] = End
      BY <1>2, <1>5, AgentMsgCases, ControlFacts, ChunkFacts DEF ReadEnd, Consume
    <3> QED BY <1>2, <3>1 DEF EndInv
  <2>2. CASE ~Entry'
    BY <1>0, <2>1, <2>2 DEF CreditInv
  <2>3. CASE Entry /\ UNCHANGED <<toServer, wpc, content>>
    <3>1. Answers' = Answers /\ Returned' = Returned
      BY <1>0, <2>3 DEF Answers, Returned
    <3> QED BY <1>0, <1>1, <2>1, <2>3, <3>1 DEF CreditInv
  <2> QED BY <1>5, <2>2, <2>3 DEF ReadEnd, UploadEnd, QueueEvent, StopUpload, Entry
<1>6. CASE ReadAbort
  <2>1. UNCHANGED <<toServer, wpc, content>> /\ ~Entry'
    BY <1>6 DEF ReadAbort, UploadAbort, StopUpload, Entry
  <2>2. Answers' = Answers
    BY <1>0, <2>1 DEF Answers
  <2> QED BY <1>0, <1>1, <2>1, <2>2 DEF CreditInv
<1> QED BY <1>3, <1>4, <1>5, <1>6 DEF AgentReads

LEMMA CreditInvWorker ==
    ASSUME TypeOK, TypeOK', HandlerInv, StartInv, EndInv, OwnerInv, ContentInv, WireInv, CreditInv, Worker
    PROVE  CreditInv'
<1>0. /\ UNCHANGED <<mode, spc, sent, credits, pend>> /\ Got' = Got /\ Credited' = Credited /\ Up' = Up
  BY WorkerFrame DEF setup, serverVars, Got, Credited, Up
<1>1. /\ Answers \in Nat /\ Got \in Int /\ Returned \in Int
      /\ sent \in Nat /\ Len(content) \in Nat /\ InHand \in Nat /\ Queued \in Nat
  BY AnswerCounts, Counts
<1>2. wpc \in {"failed", "credit", "commit", "reply"} => spc \notin {"start", "ready"}
  <2>1. CASE wpc \in {"commit", "reply"}
    BY <2>1 DEF EndInv, EndArrived
  <2>2. CASE wpc \in {"failed", "credit"}
    <3>1. Len(content) + InHand > 0
      BY <1>1, <2>2 DEF ContentInv, InHand
    <3>2. sent > 0
      BY <1>1, <3>1, Counts DEF WireInv
    <3> QED BY <3>2 DEF HandlerInv
  <2> QED BY <2>1, <2>2
<1>3. CASE WorkerStops \/ WorkerTakes \/ WorkerCleans \/ WorkerEnds
  <2>1. /\ UNCHANGED <<toServer, content>> /\ wpc # "credit" /\ wpc' # "credit" /\ (Entry' => Entry)
    BY <1>3 DEF WorkerStops, WorkerTakes, WorkerCleans, WorkerEnds, WorkerGoto, CleanedUp, Entry
  <2>2. Answers' = Answers /\ Returned' = Returned
    BY <1>0, <2>1 DEF Answers, Returned
  <2> QED BY <1>0, <1>1, <2>1, <2>2, CreditInvSame
<1>4. CASE WorkerWrites
  <2>1. wpc = "write" /\ UNCHANGED <<toServer, session>>
    BY <1>4 DEF WorkerWrites
  <2>2. Returned' = Returned
    <3>1. CASE content' = Append(content, held) /\ wpc' = "credit"
      <4>1. Len(content') = Len(content) + 1
        BY <2>1, <3>1, AppendType DEF TypeOK, OwnerInv
      <4> QED BY <1>1, <2>1, <3>1, <4>1 DEF Returned
    <3>2. CASE content' = content /\ wpc' = "failed"
      BY <2>1, <3>2 DEF Returned
    <3> QED BY <1>4, <3>1, <3>2 DEF WorkerWrites, WorkerGoto
  <2>3. Answers' = Answers /\ Entry' = Entry
    BY <1>0, <2>1 DEF Answers, Entry
  <2> QED BY <1>0, <1>1, <2>2, <2>3, CreditInvSame
<1>5. CASE WorkerCredits
  <2>1. wpc = "credit" /\ content' = content /\ toServer' = Sent(toServer, Credit)
    BY <1>5 DEF WorkerCredits, CreditReturned
  <2>2. spc' \notin {"start", "ready"}
    BY <1>0, <1>2, <2>1
  <2>3. CASE Up
    <3>1. wpc' = "idle" /\ Entry' = Entry
      BY <1>5, <2>3 DEF WorkerCredits, WorkerGoto, Entry
    <3>2. Returned' = Returned + 1
      BY <1>1, <2>1, <3>1 DEF Returned
    <3>3. Answers' =< Answers + 1 /\ Answers' \in Nat
      BY <1>0, <2>1, ReplyWire, ServerMessages
    <3>4. Entry => Credited
      BY <2>1 DEF OwnerInv
    <3> QED BY <1>0, <1>1, <2>2, <3>1, <3>2, <3>3, <3>4 DEF CreditInv
  <2>4. CASE ~Up
    BY <1>5, <2>2, <2>4 DEF WorkerCredits, Entry, CreditInv
  <2> QED BY <2>3, <2>4
<1>6. CASE WorkerFails \/ WorkerCommits \/ WorkerReplies
  <2>1. wpc \in {"failed", "commit", "reply"} /\ ~Entry'
    BY <1>6 DEF WorkerFails, WorkerCommits, WorkerReplies, Entry, OwnerInv
  <2> QED BY <1>0, <1>2, <2>1 DEF CreditInv
<1> QED BY <1>3, <1>4, <1>5, <1>6 DEF Worker

LEMMA CreditInvStep ==
    ASSUME TypeOK, TypeOK', HandlerInv, StartInv, EndInv, OwnerInv, ContentInv, WireInv, CreditInv, Next
    PROVE  CreditInv'
<1>1. CASE Deliver \/ Drop \/ CloseFileTransfers
  <2>1. UNCHANGED <<mode, spc, sent, credits, content, wpc>> /\ (Entry' => Entry)
    BY <1>1 DEF Deliver, Drop, CloseFileTransfers, StopUpload, setup, serverVars, agentVars, Entry
  <2>2. Got' = Got /\ Returned' = Returned
    BY <2>1 DEF Got, Returned
  <2>3. Answers' =< Answers
    <3>1. CASE Deliver
      BY <3>1, DeliverCounts
    <3>2. CASE Drop
      BY <3>2, Counts DEF Drop, Answers
    <3>3. CASE CloseFileTransfers
      BY <3>3, Counts DEF CloseFileTransfers, Answers
    <3> QED BY <1>1, <3>1, <3>2, <3>3
  <2> QED BY <2>1, <2>2, <2>3, CreditInvSame
<1> QED BY <1>1, CreditInvHandler, CreditInvReads, CreditInvWorker, QueueFits DEF Next, HandlerStep

-----------------------------------------------------------------------------
(* The answers the handler has not read.                                   *)

NoEnd == \A i \in 1..Len(toAgent) : toAgent[i] # End
Bound == Window + (IF wpc \in {"commit", "reply"} THEN 0 ELSE 1)
                + (IF spc = "result" /\ NoEnd THEN 1 ELSE 0)

LEMMA BoundFacts ==
    /\ AnswersInv <=> (Up /\ ~Entry /\ spc \in {"body", "drain", "result"} => Answers =< Bound)
    /\ Bound \in Nat /\ Window =< Bound /\ Bound =< Window + 2
    /\ wpc \notin {"commit", "reply"} => Bound >= Window + 1
    /\ Window \in Nat /\ Window >= 1
BY UploadAssumption DEF AnswersInv, Bound, NoEnd

LEMMA NextBoundFacts ==
    /\ AnswersInv' <=> (Up' /\ ~Entry' /\ spc' \in {"body", "drain", "result"} => Answers' =< Bound')
    /\ Bound' \in Nat /\ Window =< Bound'
    /\ wpc' \notin {"commit", "reply"} => Bound' >= Window + 1
BY UploadAssumption DEF AnswersInv, Bound, NoEnd

\* While the upload is in the map the unread answers are credits, of one window.
LEMMA AnswersOfEntry ==
    ASSUME TypeOK, OwnerInv, ContentInv, WireInv, CreditInv, Entry,
           spc \in {"body", "drain", "result"}
    PROVE  Answers =< Window
<1>1. CASE ~Credited
  BY <1>1, UploadAssumption DEF CreditInv
<1>2. CASE Credited
  <2>1. Answers =< Returned - Got
    BY <1>2 DEF CreditInv
  <2>2. Returned =< sent
    BY AnswerCounts, Counts DEF WireInv
  <2>3. Got = sent + credits - Window
    BY DEF Got
  <2>4. /\ Answers \in Nat /\ Returned \in Int /\ sent \in Nat /\ credits \in Nat /\ Window \in Nat
    BY AnswerCounts, Counts, UploadAssumption
  <2> QED BY <2>1, <2>2, <2>3, <2>4
<1> QED BY <1>1, <1>2

LEMMA AnswersInvHandler ==
    ASSUME TypeOK, HandlerInv, StartInv, CreditInv, AnswersInv, HandlerStep
    PROVE  AnswersInv'
<1> SUFFICES ASSUME Up', ~Entry', spc' \in {"body", "drain", "result"}
             PROVE  Answers' =< Bound'
  BY NextBoundFacts
<1>0. /\ UNCHANGED <<toServer, wpc>> /\ Up /\ ~Entry
      /\ Answers \in Nat /\ Bound \in Nat /\ Bound' \in Nat
  BY HandlerFrame, AnswerCounts, BoundFacts, NextBoundFacts DEF agentVars, Up, Entry
<1>1. CASE Receive
  <2>1. CASE spc = "ready"
    BY <1>0, <1>1, <2>1, ReceiveCounts DEF CreditInv
  <2>2. CASE spc' = spc /\ toAgent' = toAgent
    <3>1. Bound' = Bound /\ Answers =< Bound
      BY <1>0, <2>2, BoundFacts DEF Bound, NoEnd
    <3> QED BY <1>0, <1>1, <3>1, ReceiveCounts
  <2> QED BY <1>1, <2>1, <2>2 DEF Receive, GiveUp, Waiting
<1>2. CASE SendChunk \/ BodyEnds \/ SendEnd
  <2>1. pend' = pend /\ spc \in {"body", "drain"}
    BY <1>2 DEF SendChunk, BodyEnds, SendEnd
  <2>2. Answers' = Answers /\ Answers =< Bound
    BY <1>0, <2>1, BoundFacts DEF Answers
  <2>3. Bound =< Bound'
    BY <1>0, <2>1, UploadAssumption DEF Bound
  <2> QED BY <1>0, <2>2, <2>3
<1> QED BY <1>1, <1>2 DEF HandlerStep, Server, SendStart, WaitFails, BodyFails, GiveUp

LEMMA AnswersInvReads ==
    ASSUME TypeOK, StartInv, EndInv, OwnerInv, CreditInv, AnswersInv, AgentQueueFits, AgentReads
    PROVE  AnswersInv'
<1> SUFFICES ASSUME Up', ~Entry', spc' \in {"body", "drain", "result"}
             PROVE  Answers' =< Bound'
  BY NextBoundFacts
<1>0. /\ UNCHANGED <<spc, pend>> /\ Up /\ spc \in {"body", "drain", "result"}
      /\ Answers \in Nat /\ Bound \in Nat /\ Bound' \in Nat /\ Window \in Nat /\ Bound' >= Window
      /\ (wpc' \notin {"commit", "reply"} => Bound' >= Window + 1)
  BY ReadFrame, AnswerCounts, BoundFacts, NextBoundFacts DEF serverVars, Up
<1>1. 1 \in 1..Len(toAgent) /\ Head(toAgent) = toAgent[1] /\ toAgent[1] \in AgentMsg
  BY ReadFrame, TailType DEF TypeOK
<1>2. NoEnd => NoEnd'
  BY ReadWire DEF NoEnd
<1>3. CASE ReadStart
  BY <1>0, <1>3, FirstOfAll DEF ReadStart, Consume
<1>4. CASE Entry
  <2>1. CASE ~Credited
    <3>1. Answers = 0 /\ wpc = "none"
      BY <1>0, <1>4, <2>1 DEF CreditInv, OwnerInv
    <3>2. CASE toServer' = toServer
      BY <1>0, <3>1, <3>2 DEF Answers
    <3>3. CASE ReadChunk \/ ReadEnd
      <4>1. wpc' = wpc /\ (toServer' = toServer \/ \E m \in ServerMsg : toServer' = Sent(toServer, m))
        BY <3>3, <1>4, <2>1, ServerMessages
        DEF ReadChunk, UploadChunk, ReadEnd, UploadEnd, Reply, FinishError
      <4>2. Answers' =< 1 /\ Answers' \in Nat
        BY <1>0, <3>1, <3>2, <4>1, ReplyWire DEF Answers
      <4> QED BY <1>0, <3>1, <4>1, <4>2
    <3>4. CASE ReadAbort
      BY <3>2, <3>4 DEF ReadAbort, UploadAbort
    <3> QED BY <1>3, <3>3, <3>4 DEF AgentReads
  <2>2. CASE Credited
    <3>1. CASE ReadChunk \/ ReadEnd
      <4>1. Len(events) < Window
        BY <1>4, <2>2, <3>1 DEF AgentQueueFits, ReadChunk, ReadEnd, Consume
      <4> QED BY <1>4, <2>2, <3>1, <4>1 DEF ReadChunk, UploadChunk, ReadEnd, UploadEnd, QueueEvent, Entry
    <3>2. CASE ReadAbort
      <4>1. toAgent[1] = Abort
        BY <1>1, <3>2, AgentMsgCases, ControlFacts, ChunkFacts DEF ReadAbort, Consume
      <4> QED BY <1>0, <1>1, <4>1 DEF EndInv
    <3> QED BY <1>3, <3>1, <3>2 DEF AgentReads
  <2> QED BY <2>1, <2>2
<1>5. CASE ~Entry /\ ReadChunk
  <2>1. UNCHANGED <<toServer, wpc>>
    BY <1>5 DEF ReadChunk, UploadChunk
  <2>2. Answers' = Answers /\ Answers =< Bound
    BY <1>0, <1>5, <2>1, BoundFacts DEF Answers
  <2>3. Bound =< Bound'
    BY <1>0, <1>2, <2>1 DEF Bound
  <2> QED BY <1>0, <2>2, <2>3
<1>6. CASE ~Entry /\ ReadEnd
  <2>1. wpc' = wpc /\ toServer' = Sent(toServer, Failure)
    BY <1>6 DEF ReadEnd, UploadEnd, Reply
  <2>2. toAgent[1] = End
    BY <1>1, <1>6, AgentMsgCases, ControlFacts, ChunkFacts DEF ReadEnd, Consume
  <2>3. ~NoEnd /\ NoEnd' /\ spc = "result"
    <3>1. \A j \in 1..Len(toAgent) : toAgent[j] = End => j = 1
      BY <1>1, <2>2 DEF EndInv
    <3>2. \A i \in 1..Len(toAgent') : i + 1 \in 1..Len(toAgent) /\ i + 1 # 1 /\ toAgent'[i] = toAgent[i + 1]
      BY ReadWire
    <3>3. NoEnd'
      BY <3>1, <3>2 DEF NoEnd
    <3> QED BY <1>0, <1>1, <2>2, <3>3 DEF EndInv, NoEnd
  <2>4. Bound' = Bound + 1 /\ Answers =< Bound
    BY <1>0, <1>6, <2>1, <2>3, BoundFacts DEF Bound
  <2>5. Answers' =< Answers + 1 /\ Answers' \in Nat
    BY <1>0, <2>1, ReplyWire, ServerMessages
  <2> QED BY <1>0, <2>4, <2>5
<1>7. CASE ReadAbort
  <2>1. toAgent[1] = Abort
    BY <1>1, <1>7, AgentMsgCases, ControlFacts, ChunkFacts DEF ReadAbort, Consume
  <2> QED BY <1>0, <1>1, <2>1 DEF EndInv
<1> QED BY <1>3, <1>4, <1>5, <1>6, <1>7 DEF AgentReads

LEMMA AnswersInvWorker ==
    ASSUME TypeOK, OwnerInv, CommitInv, ContentInv, WireInv, CreditInv, AnswersInv, Worker
    PROVE  AnswersInv'
<1> SUFFICES ASSUME Up', ~Entry', spc' \in {"body", "drain", "result"}
             PROVE  Answers' =< Bound'
  BY NextBoundFacts
<1>0. /\ UNCHANGED <<spc, pend, toAgent>> /\ Up /\ spc \in {"body", "drain", "result"}
      /\ Answers \in Nat /\ Bound \in Nat /\ Bound' \in Nat /\ Window \in Nat /\ Bound' >= Window
      /\ (wpc' \notin {"commit", "reply"} => Bound' >= Window + 1)
  BY WorkerFrame, AnswerCounts, BoundFacts, NextBoundFacts DEF serverVars, Up
<1>1. wpc \in {"idle", "write", "failed", "credit", "end"} => Entry
  BY <1>0 DEF CommitInv
<1>2. Entry => Answers =< Window
  BY <1>0, AnswersOfEntry
<1>3. CASE WorkerFails
  <2>1. wpc = "failed" /\ wpc' = "cleanup" /\ toServer' = Sent(toServer, Failure)
    BY <1>1, <1>3 DEF WorkerFails, WorkerGoto, Reply
  <2>2. Answers' =< Answers + 1 /\ Answers' \in Nat
    BY <1>0, <2>1, ReplyWire, ServerMessages
  <2> QED BY <1>0, <1>1, <1>2, <2>1, <2>2
<1>4. CASE WorkerEnds
  <2>1. wpc = "end" /\ toServer' = toServer
    BY <1>4 DEF WorkerEnds
  <2> QED BY <1>0, <1>1, <1>2, <2>1 DEF Answers
<1>5. CASE WorkerCommits \/ WorkerReplies \/ WorkerCleans
  <2>1. /\ wpc \in {"commit", "reply", "cleanup"} /\ wpc' \in {"reply", "cleanup", "done"} /\ ~Entry
        /\ wpc = "cleanup" => wpc' = "done"
        /\ wpc' \in {"reply", "done"} => toServer' = toServer
        /\ toServer' = toServer \/ toServer' = Sent(toServer, Success) \/ toServer' = Sent(toServer, Failure)
    BY <1>5 DEF WorkerCommits, WorkerReplies, WorkerCleans, WorkerGoto, CleanedUp, Reply, FinishError,
       OwnerInv, Entry
  <2>2. Answers =< Bound
    BY <1>0, <2>1, BoundFacts
  <2>3. CASE wpc' \in {"reply", "done"}
    <3>1. Answers' = Answers /\ Bound =< Bound'
      BY <1>0, <2>1, <2>3 DEF Answers, Bound, NoEnd
    <3> QED BY <1>0, <2>2, <3>1
  <2>4. CASE wpc' = "cleanup"
    <3>1. Bound' = Bound + 1
      BY <1>0, <2>1, <2>4 DEF Bound, NoEnd
    <3>2. Answers' =< Answers + 1 /\ Answers' \in Nat
      BY <1>0, <2>1, ReplyWire, ServerMessages DEF Answers
    <3> QED BY <1>0, <2>2, <3>1, <3>2
  <2> QED BY <2>1, <2>3, <2>4
<1>6. CASE WorkerStops \/ WorkerTakes \/ WorkerWrites \/ WorkerCredits
  BY <1>0, <1>1, <1>6 DEF WorkerStops, WorkerTakes, WorkerWrites, WorkerCredits, OwnerInv, Entry
<1> QED BY <1>3, <1>4, <1>5, <1>6 DEF Worker

LEMMA AnswersInvStep ==
    ASSUME TypeOK, HandlerInv, StartInv, EndInv, OwnerInv, CommitInv, ContentInv, WireInv, CreditInv,
           AnswersInv, Next
    PROVE  AnswersInv'
<1>1. CASE Deliver
  <2>1. UNCHANGED <<link, session, spc, wpc, toAgent>>
    BY <1>1 DEF Deliver, serverVars, agentVars
  <2>2. Bound' = Bound /\ Up' = Up /\ Entry' = Entry /\ Answers' =< Answers
    BY <1>1, <2>1, DeliverCounts DEF Bound, NoEnd, Up, Entry
  <2>3. Answers' \in Int
    BY <1>1, Counts, TailType, AppendType DEF Deliver, TypeOK, Answers
  <2>4. Answers \in Nat /\ Bound \in Nat
    BY AnswerCounts, BoundFacts
  <2>5. Answers =< Bound => Answers' =< Bound
    BY <2>2, <2>3, <2>4
  <2> QED BY <2>1, <2>2, <2>5, BoundFacts, NextBoundFacts
<1>2. CASE Drop \/ CloseFileTransfers
  BY <1>2 DEF Drop, CloseFileTransfers, AnswersInv, Up
<1> QED BY <1>1, <1>2, AnswersInvHandler, AnswersInvReads, AnswersInvWorker, QueueFits DEF Next, HandlerStep

-----------------------------------------------------------------------------
(* The rename.                                                             *)

\* The one step that makes the target appear: nothing was there, nobody has stopped
\* the upload, and the temporary file is the body.
Renames ==
    /\ target = NoFile /\ target' = content /\ Whole(content) /\ ~Stopped
    /\ ~Stopped' /\ UNCHANGED <<size, outcome>>

LEMMA RenameOnce ==
    ASSUME TypeOK, HandlerInv, EndInv, OwnerInv, CommitInv, ContentInv, WireInv, CreditInv, Next
    PROVE  target' = target \/ Renames
<1>0. Len(content) = size => Whole(content)
  BY DEF ContentInv, Whole
<1>1. CASE ReadEnd /\ target' # target
  <2>1. /\ Entry /\ ~Credited /\ target' = content /\ session' = session \ {"entry", "fd", "tmp"}
        /\ toAgent # <<>> /\ Head(toAgent).type = "end" /\ UNCHANGED <<size, outcome>>
    BY <1>1 DEF ReadEnd, Consume, UploadEnd, QueueEvent, setup, serverVars
  <2>2. Len(content) = size
    BY <2>1, LastOfAll
  <2> QED BY <1>0, <2>1, <2>2 DEF Renames, CommitInv, OwnerInv, Stopped
<1>2. CASE WorkerCommits /\ target' # target
  <2>1. /\ wpc = "commit" /\ target' = content /\ session' = session \ {"fd", "tmp"}
        /\ UNCHANGED <<size, outcome>>
    BY <1>2 DEF WorkerCommits, workerOthers, setup, serverVars
  <2> QED BY <1>0, <2>1 DEF Renames, CommitInv, OwnerInv, ContentInv, Stopped
<1>3. CASE ReadStart \/ ReadChunk \/ ReadAbort
  BY <1>3 DEF ReadStart, UploadStart, ReadChunk, UploadChunk, QueueEvent, ReadAbort, UploadAbort
<1>4. CASE HandlerStep \/ Deliver \/ Drop \/ CloseFileTransfers
  BY <1>4, HandlerFrame DEF Deliver, Drop, CloseFileTransfers, agentVars
<1>5. CASE Worker /\ ~WorkerCommits
  BY <1>5 DEF Worker, WorkerStops, WorkerTakes, WorkerWrites, WorkerFails, WorkerCredits, WorkerEnds,
     WorkerReplies, WorkerCleans
<1> QED BY <1>1, <1>2, <1>3, <1>4, <1>5 DEF Next, AgentReads, HandlerStep

LEMMA CommittedStep ==
    ASSUME CommittedIsWhole, Next, target' = target \/ Renames
    PROVE  CommittedIsWhole'
<1>1. size' = size
  BY HandlerFrame, ReadFrame, WorkerFrame
  DEF Next, HandlerStep, setup, Deliver, Drop, CloseFileTransfers
<1> QED BY <1>1 DEF CommittedIsWhole, Whole, Renames

-----------------------------------------------------------------------------
(* The invariant.                                                          *)

LEMMA UploadInvInit == Init => UploadInv
<1> SUFFICES ASSUME Init PROVE UploadInv
  OBVIOUS
<1>1. Arrived = 0 /\ Got = 0 /\ Returned = 0 /\ Answers = 0 /\ ~EndArrived
  BY UploadAssumption
  DEF Init, Arrived, InHand, Queued, EndQueued, EndArrived, Got, Returned, Answers
<1>2. HandlerInv /\ StartInv /\ EndInv /\ OwnerInv /\ CommitInv
  BY <1>1 DEF Init, HandlerInv, StartInv, EndInv, OwnerInv, CommitInv, Up, Entry, Stopped, Credited
<1>3. ContentInv /\ WireInv /\ CreditInv /\ AnswersInv
  BY <1>1 DEF Init, ContentInv, WireInv, CreditInv, AnswersInv, Up, Entry, Credited
<1>4. ReplyInv /\ CommittedIsWhole /\ OkMeansCommitted
  BY DEF Init, ReplyInv, CommittedIsWhole, OkMeansCommitted
<1> QED BY <1>2, <1>3, <1>4 DEF UploadInv

LEMMA UploadInvStutter ==
    ASSUME UploadInv, UNCHANGED vars
    PROVE  UploadInv'
<1> USE DEF vars, setup, serverVars, agentVars
<1>1. /\ Arrived' = Arrived /\ Got' = Got /\ Returned' = Returned /\ Answers' = Answers
      /\ EndArrived' = EndArrived /\ InHand' = InHand
  BY DEF Arrived, InHand, Queued, EndQueued, EndArrived, Got, Returned, Answers
<1>2. Up' = Up /\ Entry' = Entry /\ Stopped' = Stopped /\ Credited' = Credited
  BY DEF Up, Entry, Stopped, Credited
<1>3. HandlerInv' /\ StartInv' /\ EndInv' /\ OwnerInv' /\ CommitInv'
  BY <1>1, <1>2 DEF UploadInv, HandlerInv, StartInv, EndInv, OwnerInv, CommitInv
<1>4. ContentInv' /\ WireInv' /\ CreditInv' /\ AnswersInv'
  BY <1>1, <1>2 DEF UploadInv, ContentInv, WireInv, CreditInv, AnswersInv
<1>5. ReplyInv' /\ CommittedIsWhole' /\ OkMeansCommitted'
  BY DEF UploadInv, ReplyInv, CommittedIsWhole, OkMeansCommitted, Whole
<1> QED BY <1>3, <1>4, <1>5 DEF UploadInv

\* UploadInv, with the types, is inductive: each step keeps it.
THEOREM UploadInvHolds == Spec => [](TypeOK /\ UploadInv)
<1>1. Init => TypeOK /\ UploadInv
  BY TypeInit, UploadInvInit
<1>2. ASSUME TypeOK, UploadInv, Next PROVE (TypeOK /\ UploadInv)'
  <2> USE <1>2
  <2>0. /\ HandlerInv /\ StartInv /\ EndInv /\ OwnerInv /\ CommitInv /\ ContentInv /\ WireInv
        /\ CreditInv /\ AnswersInv /\ ReplyInv /\ CommittedIsWhole /\ OkMeansCommitted
    BY DEF UploadInv
  <2>1. TypeOK' /\ OwnerInv'
    BY <2>0, TypeStep, OwnerStep
  <2>2. AgentQueueFits
    BY <2>0, QueueFits
  <2>3. HandlerInv' /\ StartInv' /\ EndInv' /\ CommitInv' /\ ContentInv' /\ WireInv'
    BY <2>0, <2>2, HandlerInvStep, StartInvStep, EndInvStep, CommitInvStep, ContentInvStep, WireInvStep
  <2>4. CreditInv' /\ AnswersInv'
    BY <2>0, <2>1, CreditInvStep, AnswersInvStep
  <2>5. ReplyInv' /\ OkMeansCommitted'
    BY <2>0, ReplyStep
  <2>6. CommittedIsWhole'
    BY <2>0, RenameOnce, CommittedStep
  <2> QED BY <2>1, <2>3, <2>4, <2>5, <2>6 DEF UploadInv
<1>3. TypeOK /\ UploadInv /\ UNCHANGED vars => (TypeOK /\ UploadInv)'
  <2>1. TypeOK /\ UploadInv /\ UNCHANGED vars => TypeOK'
    BY TypeStep DEF UploadInv
  <2> QED BY <2>1, UploadInvStutter
<1> QED BY <1>1, <1>2, <1>3, PTL DEF Spec

\* queueCreditUploadEvent never finds its queue full: the window the server keeps
\* is enough for every order of credits, chunks and writes.
THEOREM AgentQueueFitsHolds == Spec => []AgentQueueFits
<1>1. TypeOK /\ UploadInv => AgentQueueFits
  BY QueueFits DEF UploadInv
<1> QED BY <1>1, UploadInvHolds, PTL

\* The pending request's channel is never full when handleAgentMessage has something
\* for it, although the handler does not read it while it reads the body: a window
\* of credits and the two answers after it are all that can pile up.
THEOREM PendingFitsHolds == Spec => []PendingFits
<1>1. TypeOK /\ UploadInv => PendingFits
  <2> SUFFICES ASSUME TypeOK, UploadInv, toServer # <<>>, pstate = "open"
               PROVE  Len(pend) < PendingCap
    BY DEF PendingFits
  <2>1. Up /\ spc # "done"
    BY DEF UploadInv, StartInv, HandlerInv
  <2>2. Answers =< Window + 2
    <3>1. CASE spc \in {"start", "ready"}
      BY <3>1, AnswerCounts, UploadAssumption DEF UploadInv, CreditInv
    <3>2. CASE spc \in {"body", "drain", "result"} /\ Entry
      BY <3>2, AnswersOfEntry, AnswerCounts, UploadAssumption DEF UploadInv
    <3>3. CASE spc \in {"body", "drain", "result"} /\ ~Entry
      BY <2>1, <3>3, AnswerCounts, BoundFacts DEF UploadInv
    <3> QED BY <2>1, <3>1, <3>2, <3>3 DEF TypeOK
  <2>3. Len(toServer) > 0
    BY DEF TypeOK
  <2> QED BY <2>2, <2>3, Counts, AnswerCounts, UploadAssumption
<1> QED BY <1>1, UploadInvHolds, PTL

\* The target is absent or the whole body, at every moment: finishUpload's rename
\* never publishes a part of it.
THEOREM CommittedIsWholeHolds == Spec => []CommittedIsWhole
<1>1. TypeOK /\ UploadInv => CommittedIsWhole
  BY DEF UploadInv
<1> QED BY <1>1, UploadInvHolds, PTL

-----------------------------------------------------------------------------
(* The refinement.                                                         *)

\* An upload once stopped stays so, and stopping it touches nothing a reader sees.
LEMMA StopSteps ==
    ASSUME TypeOK, StartInv, Next, Stopped' # Stopped
    PROVE  ~Stopped /\ Stopped' /\ UNCHANGED <<size, target, outcome>>
<1>1. CASE HandlerStep \/ Deliver \/ Drop
  BY <1>1, HandlerFrame DEF Deliver, Drop, agentVars, Stopped
<1>2. CASE Worker
  BY <1>2 DEF Worker, WorkerStops, WorkerTakes, WorkerWrites, WorkerFails, WorkerCredits, WorkerEnds,
     WorkerCommits, WorkerReplies, WorkerCleans, CleanedUp, Stopped
<1>3. CASE CloseFileTransfers
  BY <1>3 DEF CloseFileTransfers, StopUpload, Stopped, setup, serverVars
<1>4. CASE ReadStart
  BY <1>4, FirstOfAll DEF ReadStart, Consume, UploadStart, Stopped
<1>5. CASE ReadChunk
  BY <1>5 DEF ReadChunk, Consume, UploadChunk, QueueEvent, StopUpload, Stopped, setup, serverVars
<1>6. CASE ReadEnd
  BY <1>6 DEF ReadEnd, Consume, UploadEnd, QueueEvent, StopUpload, Stopped, setup, serverVars
<1>7. CASE ReadAbort
  BY <1>7 DEF ReadAbort, Consume, UploadAbort, StopUpload, Stopped, setup, serverVars
<1> QED BY <1>1, <1>2, <1>3, <1>4, <1>5, <1>6, <1>7 DEF Next, AgentReads, HandlerStep

\* The handler answers once, and ok only when the file is there.
LEMMA AnswerSteps ==
    ASSUME TypeOK, HandlerInv, ReplyInv, Next, outcome' # outcome
    PROVE  /\ outcome = "none" /\ UNCHANGED <<size, target, session>>
           /\ outcome' = "error" \/ (outcome' = "ok" /\ target # NoFile)
<1>1. HandlerStep
  BY ReadFrame, WorkerFrame DEF Next, HandlerStep, Deliver, Drop, CloseFileTransfers, serverVars
<1>2. UNCHANGED <<size, target, session>>
  BY <1>1, HandlerFrame DEF setup, agentVars
<1>3. CASE Receive
  <2>1. 1 \in 1..Len(pend) /\ Head(pend) = pend[1]
    BY <1>3, TailType DEF Receive, TypeOK
  <2>2. Head(pend) = Success => target # NoFile
    BY <2>1 DEF ReplyInv
  <2> QED BY <1>2, <1>3, <2>2 DEF Receive, GiveUp, Waiting, HandlerInv
<1>4. CASE SendStart \/ WaitFails \/ SendChunk \/ BodyFails \/ BodyEnds \/ SendEnd
  BY <1>2, <1>4 DEF SendStart, WaitFails, SendChunk, BodyFails, BodyEnds, SendEnd, GiveUp, Waiting,
     HandlerInv
<1> QED BY <1>1, <1>3, <1>4 DEF HandlerStep, Server

\* A file that is whole is the body.
LEMMA WholeIsBody ==
    ASSUME NEW f \in Seq(1..MaxChunks), Whole(f)
    PROVE  f = [i \in 1..size |-> i]
BY DEF Whole

\* handleFileUpload, the agent's read loop and runCreditUpload together implement the
\* atomic upload: each of their steps stores the whole body, stops the upload,
\* answers, or is not seen from outside.
THEOREM ImplementsAtomicUploadHolds == Spec => ImplementsAtomicUpload
<1>1. Init => Atomic!Init
  <2> SUFFICES ASSUME Init PROVE Atomic!Init
    OBVIOUS
  <2>1. size \in Nat /\ [i \in 1..size |-> i] \in Seq(Nat)
    BY UploadAssumption DEF Init
  <2> QED BY <2>1 DEF Init, Atomic!Init, Stopped
<1>2. ASSUME TypeOK, UploadInv, Next PROVE [Atomic!Next]_(Atomic!vars)
  <2> USE <1>2
  <2>0. /\ HandlerInv /\ StartInv /\ EndInv /\ OwnerInv /\ CommitInv /\ ContentInv /\ WireInv
        /\ CreditInv /\ ReplyInv
    BY DEF UploadInv
  <2>1. CASE Renames
    <3>1. content = [i \in 1..size |-> i]
      BY <2>1, WholeIsBody DEF Renames, TypeOK
    <3>2. target' # NoFile
      BY <2>1, NoFileIsNotContent DEF Renames, TypeOK
    <3>3. Atomic!Store
      BY <2>1, <3>1, <3>2 DEF Atomic!Store, Renames
    <3> QED BY <3>3 DEF Atomic!Next
  <2>2. CASE Stopped' # Stopped
    <3>1. ~Stopped /\ Stopped' /\ UNCHANGED <<size, target, outcome>>
      BY <2>0, <2>2, StopSteps
    <3>2. CASE target = NoFile
      <4>1. Atomic!Stop
        BY <3>1, <3>2 DEF Atomic!Stop
      <4> QED BY <4>1 DEF Atomic!Next
    <3>3. CASE target # NoFile
      BY <3>1, <3>3 DEF Atomic!vars
    <3> QED BY <3>2, <3>3
  <2>3. CASE outcome' # outcome
    <3>1. /\ outcome = "none" /\ UNCHANGED <<size, target, session>>
          /\ outcome' = "error" \/ (outcome' = "ok" /\ target # NoFile)
      BY <2>0, <2>3, AnswerSteps
    <3>2. Atomic!AnswerOk \/ Atomic!AnswerError
      BY <3>1 DEF Atomic!AnswerOk, Atomic!AnswerError, Stopped
    <3> QED BY <3>2 DEF Atomic!Next
  <2>4. CASE target' = target /\ Stopped' = Stopped /\ outcome' = outcome
    <3>1. size' = size
      BY HandlerFrame, ReadFrame, WorkerFrame
      DEF Next, HandlerStep, setup, Deliver, Drop, CloseFileTransfers
    <3> QED BY <2>4, <3>1 DEF Atomic!vars
  <2> QED BY <2>0, <2>1, <2>2, <2>3, <2>4, RenameOnce
<1>3. UNCHANGED vars => UNCHANGED Atomic!vars
  BY DEF vars, setup, serverVars, agentVars, Atomic!vars, Stopped
<1> QED BY <1>1, <1>2, <1>3, UploadInvHolds, PTL DEF Spec, ImplementsAtomicUpload, Atomic!Spec

=============================================================================
