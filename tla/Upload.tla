------------------------------- MODULE Upload -------------------------------
(***************************************************************************)
(* One file upload: the server's handleFileUpload (internal/server/files.go)*)
(* reads a request body in chunks and sends them over the agent's          *)
(* WebSocket; the agent (cmd/agent/files.go) writes them to a temporary    *)
(* file and renames it to the target when the last one has arrived.        *)
(*                                                                         *)
(* In credit mode a worker of the agent takes the chunks from a bounded    *)
(* queue and returns one credit per written chunk, and the server never    *)
(* has more chunks under way than the window; an agent or a server without *)
(* the capability falls back to writing in the read loop (mode "direct").  *)
(*                                                                         *)
(* A chunk is its number in the body.  The two directions of the WebSocket *)
(* are FIFO queues, lost together when the connection breaks.  Paths,      *)
(* encoding and the size limits are left out: what they refuse is a free   *)
(* choice of the step that tests them.                                     *)
(***************************************************************************)
EXTENDS Integers, Sequences

CONSTANTS
    Window,      \* initialFileUploadCredits and maxFileUploadCredits
    PendingCap,  \* pendingQueueCapacity
    MaxChunks    \* bound: the longest body, in chunks

ASSUME UploadAssumption ==
    /\ Window \in Nat \ {0}
    /\ PendingCap \in Nat /\ Window + 2 =< PendingCap
    /\ MaxChunks \in Nat

VARIABLES
    mode,      \* "credit" if both sides have the capability file_upload_credits
    length,    \* "known" if the request has a Content-Length
    size,      \* chunks of the body
    spc,       \* where handleFileUpload stands
    credits,   \* its credits
    sent,      \* chunks it has sent
    outcome,   \* what it answered: "none", "ok" or "error"
    pend,      \* the pending request's channel
    pstate,    \* "finished" once its done channel is closed
    link,      \* the WebSocket: "up", "down", or "swept" once the agent has run
               \* closeFileTransfers after the loss
    toAgent,   \* what the server has sent and the agent has not read
    toServer,
    session,   \* the uploadSession: "entry" (it is in the uploads map), "stop" (its
               \* stop channel is closed), "fd" (its descriptor is open), "tmp" (its
               \* temporary file exists)
    events,    \* uploadSession.events
    wpc,       \* where runCreditUpload stands
    held,      \* the chunk it has taken from the queue
    content,   \* what was written to the temporary file
    target     \* the target file

serverVars == <<spc, credits, sent, outcome>>
agentVars == <<session, events, wpc, held, content, target>>
setup == <<mode, length, size>>
vars == <<setup, serverVars, pend, pstate, link, toAgent, toServer, agentVars>>

Credited == mode = "credit"
Up == link = "up"
Entry == "entry" \in session
Stopped == "stop" \in session

NoFile == <<0>>
Chunk(n) == [type |-> "chunk", n |-> n]
Start == [type |-> "start", n |-> 0]
End == [type |-> "end", n |-> 0]
Abort == [type |-> "abort", n |-> 0]
Ready == [type |-> "ready", n |-> 0]
NotReady == [type |-> "ready", n |-> 1]
Credit == [type |-> "credit", n |-> 1]
Success == [type |-> "result", n |-> 0]
Failure == [type |-> "result", n |-> 1]

AgentMsg == {Start, End, Abort} \cup {Chunk(n) : n \in 1..MaxChunks}
Event == {End} \cup {Chunk(n) : n \in 1..MaxChunks}
ServerMsg == {Ready, NotReady, Credit, Success, Failure}

\* The file holds the body's chunks, all of them, each once and in order.
Whole(file) == Len(file) = size /\ \A i \in 1..size : file[i] = i

TypeOK ==
    /\ mode \in {"credit", "direct"} /\ length \in {"known", "unknown"}
    /\ size \in 0..MaxChunks
    /\ spc \in {"start", "ready", "body", "drain", "result", "done"}
    /\ credits \in 0..Window
    /\ sent \in 0..MaxChunks
    /\ outcome \in {"none", "ok", "error"}
    /\ pend \in Seq(ServerMsg) /\ toServer \in Seq(ServerMsg)
    /\ toAgent \in Seq(AgentMsg) /\ events \in Seq(Event)
    /\ pstate \in {"open", "finished"} /\ link \in {"up", "down", "swept"}
    /\ session \in SUBSET {"entry", "stop", "fd", "tmp"}
    /\ wpc \in {"none", "idle", "write", "credit", "end", "commit", "reply", "failed",
                "cleanup", "done"}
    /\ held \in 0..MaxChunks
    /\ content \in Seq(1..MaxChunks)
    /\ target = NoFile \/ target \in Seq(1..MaxChunks)

Init ==
    /\ mode \in {"credit", "direct"} /\ length \in {"known", "unknown"}
    /\ size \in 0..MaxChunks
    /\ spc = "start" /\ credits = Window /\ sent = 0 /\ outcome = "none"
    /\ pend = <<>> /\ pstate = "open"
    /\ link = "up" /\ toAgent = <<>> /\ toServer = <<>>
    /\ session = {} /\ events = <<>> /\ wpc = "none" /\ held = 0
    /\ content = <<>> /\ target = NoFile

-----------------------------------------------------------------------------
(* The connection.                                                         *)

\* A write to a broken connection fails and puts nothing on the wire.
Sent(queue, m) == IF Up THEN Append(queue, m) ELSE queue
ToAgent(m) == toAgent' = Sent(toAgent, m)
Reply(m) == toServer' = Sent(toServer, m)

Drop ==
    /\ Up
    /\ link' = "down" /\ toAgent' = <<>> /\ toServer' = <<>>
    /\ UNCHANGED <<setup, serverVars, pend, pstate, agentVars>>

\* handleAgentMessage: the server's read loop hands the message to the pending
\* request, unless that one has finished; a full channel finishes it.
Deliver ==
    /\ toServer # <<>>
    /\ toServer' = Tail(toServer)
    /\ IF pstate = "finished"
          THEN UNCHANGED <<pend, pstate>>
          ELSE IF Len(pend) < PendingCap
                  THEN pend' = Append(pend, Head(toServer)) /\ UNCHANGED pstate
                  ELSE pstate' = "finished" /\ UNCHANGED pend
    /\ UNCHANGED <<setup, serverVars, link, toAgent, agentVars>>

-----------------------------------------------------------------------------
(* handleFileUpload.                                                       *)

\* The handler gives up: the deferred function aborts the upload (some error
\* paths abort explicitly as well) and the pending request is removed.
Aborted == Sent(toAgent, Abort)
AbortedTwice == Sent(Aborted, Abort)
GiveUp(wire) ==
    /\ toAgent' = wire
    /\ spc' = "done" /\ outcome' = "error" /\ pstate' = "finished"
    /\ UNCHANGED <<credits, sent>>

SendStart ==
    /\ spc = "start"
    /\ IF Up
          THEN ToAgent(Start) /\ spc' = "ready" /\ UNCHANGED <<credits, sent, outcome, pstate>>
          ELSE GiveUp(toAgent)
    /\ UNCHANGED <<setup, pend, link, toServer, agentVars>>

\* The credits left once m has come back.
WithCredit(m) == IF credits + m.n < Window THEN credits + m.n ELSE Window

\* Whether the loop over the body must wait for credit.  Mutant: it never does.
NeverOutOfCredit == FALSE
OutOfCredit == Credited /\ credits = 0

Waiting ==
    \/ spc \in {"ready", "result"}
    \/ spc = "body" /\ OutOfCredit
    \/ spc = "drain" /\ Credited /\ credits < Window

\* wait(expected): the next message of the channel.  An error ends the request,
\* the expected message lets it go on, any other one is discarded.
Receive ==
    /\ Waiting /\ pend # <<>>
    /\ pend' = Tail(pend)
    /\ LET m == Head(pend)
           got(expected, states) == m = expected /\ spc \in states
       IN  IF m = Failure \/ got(NotReady, {"ready"})
              THEN GiveUp(Aborted)
              ELSE /\ spc' = CASE got(Ready, {"ready"})    -> "body"
                               [] got(Success, {"result"}) -> "done"
                               [] OTHER                    -> spc
                   /\ credits' = IF got(Credit, {"body", "drain"}) THEN WithCredit(m)
                                                                   ELSE credits
                   /\ outcome' = IF got(Success, {"result"}) THEN "ok" ELSE outcome
                   /\ pstate' = IF got(Success, {"result"}) THEN "finished" ELSE pstate
                   /\ UNCHANGED <<sent, toAgent>>
    /\ UNCHANGED <<setup, link, toServer, agentVars>>

\* FileTransferTimeout, a finished pending request or a browser that went away.
WaitFails ==
    /\ Waiting
    /\ GiveUp(Aborted)
    /\ UNCHANGED <<setup, pend, link, toServer, agentVars>>

\* The next chunk of the body; a failed write aborts.
SendChunk ==
    /\ spc = "body" /\ ~OutOfCredit /\ sent < size
    /\ IF Up
          THEN /\ ToAgent(Chunk(sent + 1))
               /\ sent' = sent + 1
               /\ credits' = IF Credited THEN credits - 1 ELSE credits
               /\ UNCHANGED <<spc, outcome, pstate>>
          ELSE GiveUp(AbortedTwice)
    /\ UNCHANGED <<setup, pend, link, toServer, agentVars>>

\* The body cannot be read, or grows past the limit.  A read may return the
\* error, or the end of the body, together with the last bytes, so neither this
\* step nor the next one waits for credit.
BodyFails ==
    /\ spc = "body"
    /\ GiveUp(AbortedTwice)
    /\ UNCHANGED <<setup, pend, link, toServer, agentVars>>

BodyEnds ==
    /\ spc = "body" /\ sent = size
    /\ spc' = "drain"
    /\ UNCHANGED <<setup, credits, sent, outcome, pend, pstate, link, toAgent, toServer, agentVars>>

\* The end is sent once all credits are back.
SendEnd ==
    /\ spc = "drain" /\ (Credited => credits = Window)
    /\ IF Up
          THEN ToAgent(End) /\ spc' = "result" /\ UNCHANGED <<credits, sent, outcome, pstate>>
          ELSE GiveUp(Aborted)
    /\ UNCHANGED <<setup, pend, link, toServer, agentVars>>

-----------------------------------------------------------------------------
(* The agent's read loop.                                                  *)

\* handleFileUploadStart: a temporary file, an entry in the map and, in credit
\* mode, a worker; or an error, with nothing left behind.
UploadStart ==
    /\ \/ /\ session' = {"entry", "fd", "tmp"}
          /\ wpc' = IF Credited THEN "idle" ELSE "none"
          /\ Reply(Ready)
       \/ /\ Reply(NotReady)
          /\ UNCHANGED <<session, wpc>>
    /\ UNCHANGED <<events, content, target>>

\* stopUpload of an entry that leaves the map: in credit mode the worker is told
\* to stop and cleans up, else the file is removed here.
StopUpload == session' = IF Credited THEN (session \ {"entry", "fd"}) \cup {"stop"}
                                     ELSE session \ {"entry", "fd", "tmp"}

\* queueCreditUploadEvent: a full queue ends the upload.
QueueEvent(m) ==
    /\ IF Len(events) < Window
          THEN events' = Append(events, m) /\ UNCHANGED <<toServer, session>>
          ELSE StopUpload /\ Reply(Failure) /\ UNCHANGED events
    /\ UNCHANGED <<wpc, content, target>>

\* handleFileUploadChunk: queued in credit mode, else written here.
UploadChunk(m) ==
    \/ /\ ~Entry
       /\ UNCHANGED <<toServer, session, events, wpc, content, target>>
    \/ Entry /\ Credited /\ QueueEvent(m)
    \/ /\ Entry /\ ~Credited
       /\ content' = Append(content, m.n)
       /\ UNCHANGED <<toServer, session, events, wpc, target>>
    \/ /\ Entry /\ ~Credited
       /\ StopUpload /\ Reply(Failure)
       /\ UNCHANGED <<events, wpc, content, target>>

\* The answer to a file that could not be completed.  Mutant: the error of the
\* rename is not put into the message.
ErrorDropped == Success
FinishError == Failure

\* finishUpload accepts the file: the size is the announced one, if any was.
SizeMatches == length = "known" => Len(content) = size

UploadEnd ==
    \/ /\ ~Entry
       /\ Reply(Failure)
       /\ UNCHANGED <<session, events, wpc, content, target>>
    \/ Entry /\ Credited /\ QueueEvent(End)
    \/ /\ Entry /\ ~Credited
       /\ session' = session \ {"entry", "fd", "tmp"}
       /\ \/ /\ SizeMatches
             /\ target' = content
             /\ Reply(Success)
          \/ Reply(FinishError) /\ UNCHANGED target
       /\ UNCHANGED <<events, wpc, content>>

UploadAbort ==
    /\ IF Entry THEN StopUpload ELSE UNCHANGED session
    /\ UNCHANGED <<toServer, events, wpc, content, target>>

\* The read loop of run takes the next message of the given type.
Consume(type) ==
    /\ Up /\ toAgent # <<>> /\ Head(toAgent).type = type
    /\ toAgent' = Tail(toAgent)
    /\ UNCHANGED <<setup, serverVars, pend, pstate, link, held>>

ReadStart == Consume("start") /\ UploadStart
ReadChunk == Consume("chunk") /\ UploadChunk(Head(toAgent))
ReadEnd == Consume("end") /\ UploadEnd
ReadAbort == Consume("abort") /\ UploadAbort

AgentReads == ReadStart \/ ReadChunk \/ ReadEnd \/ ReadAbort

\* The connection is gone: run returns and main calls closeFileTransfers.
CloseFileTransfers ==
    /\ link = "down"
    /\ link' = "swept"
    /\ IF Entry THEN StopUpload ELSE UNCHANGED session
    /\ UNCHANGED <<setup, serverVars, pend, pstate, toAgent, toServer,
                   events, wpc, held, content, target>>

-----------------------------------------------------------------------------
(* runCreditUpload.                                                        *)

WorkerGoto(l) == wpc' = l
workerOthers == <<setup, serverVars, pend, pstate, link, toAgent>>

WorkerStops ==
    /\ wpc = "idle" /\ Stopped
    /\ WorkerGoto("cleanup")
    /\ UNCHANGED <<workerOthers, toServer, session, events, held, content, target>>

WorkerTakes ==
    /\ wpc = "idle" /\ ~Stopped /\ events # <<>>
    /\ WorkerGoto(IF Head(events) = End THEN "end" ELSE "write")
    /\ events' = Tail(events) /\ held' = Head(events).n
    /\ UNCHANGED <<workerOthers, toServer, session, content, target>>

\* The write fails when the file has been closed, and may fail anyway.
WorkerWrites ==
    /\ wpc = "write"
    /\ \/ /\ "fd" \in session
          /\ content' = Append(content, held)
          /\ WorkerGoto("credit")
       \/ /\ WorkerGoto("failed")
          /\ UNCHANGED content
    /\ UNCHANGED <<workerOthers, toServer, session, events, held, target>>

\* Mutant: the error of the write is not looked at.
WorkerIgnoresError ==
    /\ wpc = "failed"
    /\ WorkerGoto("credit")
    /\ UNCHANGED <<workerOthers, toServer, session, events, held, content, target>>

\* A failed write: whoever takes the entry out of the map reports it.
WorkerFails ==
    /\ wpc = "failed"
    /\ session' = session \ {"entry"}
    /\ IF Entry THEN Reply(Failure) ELSE UNCHANGED toServer
    /\ WorkerGoto("cleanup")
    /\ UNCHANGED <<workerOthers, events, held, content, target>>

\* The credit of a written chunk.  Mutant: it is returned twice.
CreditedTwice == Sent(Sent(toServer, Credit), Credit)
CreditReturned == Sent(toServer, Credit)

WorkerCredits ==
    /\ wpc = "credit"
    /\ toServer' = CreditReturned
    /\ WorkerGoto(IF Up THEN "idle" ELSE "cleanup")
    /\ session' = IF Up THEN session ELSE session \ {"entry"}
    /\ UNCHANGED <<workerOthers, events, held, content, target>>

\* removeUpload before the commit.  Mutant: the end commits although an abort
\* has taken the entry.
OwnsRegardless == TRUE
OwnsUpload == Entry

WorkerEnds ==
    /\ wpc = "end"
    /\ WorkerGoto(IF OwnsUpload THEN "commit" ELSE "cleanup")
    /\ session' = session \ {"entry"}
    /\ UNCHANGED <<workerOthers, toServer, events, held, content, target>>

\* finishUpload: sync, compare the size, close, rename without replacing.
WorkerCommits ==
    /\ wpc = "commit"
    /\ \/ /\ SizeMatches
          /\ target' = content /\ session' = session \ {"fd", "tmp"}
          /\ WorkerGoto("reply") /\ UNCHANGED toServer
       \/ /\ Reply(FinishError) /\ session' = session \ {"fd"}
          /\ WorkerGoto("cleanup") /\ UNCHANGED target
    /\ UNCHANGED <<workerOthers, events, held, content>>

WorkerReplies ==
    /\ wpc = "reply"
    /\ Reply(Success)
    /\ WorkerGoto("cleanup")
    /\ UNCHANGED <<workerOthers, session, events, held, content, target>>

\* What cleanupUpload leaves.  Mutant: the temporary file is only closed.
ClosedOnly == session \ {"fd"}
CleanedUp == session \ {"fd", "tmp"}

WorkerCleans ==
    /\ wpc = "cleanup"
    /\ session' = CleanedUp
    /\ WorkerGoto("done")
    /\ UNCHANGED <<workerOthers, toServer, events, held, content, target>>

Worker ==
    \/ WorkerStops \/ WorkerTakes \/ WorkerWrites \/ WorkerFails \/ WorkerCredits
    \/ WorkerEnds \/ WorkerCommits \/ WorkerReplies \/ WorkerCleans

-----------------------------------------------------------------------------
Server == SendStart \/ Receive \/ SendChunk \/ BodyEnds \/ SendEnd

Next ==
    \/ Server \/ WaitFails \/ BodyFails
    \/ Deliver \/ Drop
    \/ AgentReads \/ CloseFileTransfers \/ Worker

\* Both read loops and the worker run; the server's waits end by their timer.
\* Nothing is assumed of the browser that sends the body.
Fairness ==
    /\ WF_vars(Deliver) /\ WF_vars(AgentReads) /\ WF_vars(CloseFileTransfers)
    /\ WF_vars(Worker) /\ WF_vars(Receive \/ WaitFails) /\ WF_vars(SendEnd)

Spec == Init /\ [][Next]_vars
FairSpec == Spec /\ Fairness

-----------------------------------------------------------------------------
(* Properties.                                                             *)

\* The window is what keeps the agent's event queue from ever being full when a
\* message for it arrives: "file upload exceeded its bounded queue" is an error
\* that a server of this version never causes.
AgentQueueFits ==
    Entry /\ Credited /\ toAgent # <<>> /\ Head(toAgent).type \in {"chunk", "end"} =>
        Len(events) < Window

\* Nor does the server's own queue overflow (errPendingBackpressure), although
\* the handler lets credits pile up in it while it reads the body.
PendingFits == toServer # <<>> /\ pstate = "open" => Len(pend) < PendingCap

\* The target never shows a part of the body, or its chunks twice or out of
\* order, whatever was aborted, lost or timed out: finishUpload renames the
\* temporary file only when everything was written.
CommittedIsWhole == target # NoFile => Whole(target)

\* The server answers ok only when the file is in place.
OkMeansCommitted == outcome = "ok" => target # NoFile

\* Once an abort, a full queue or the end of the connection has stopped the
\* upload, the worker does not commit any more, even if the end of the file was
\* already queued or taken.
StoppedNeverCommits == [][Stopped => target' = target]_target

\* The temporary file, the map entry and the worker of an upload do not outlive
\* the request: after the answer they all go away (a file that is removed is taken to
\* be gone; the code ignores the error of os.Remove).
UploadReleased == spc = "done" ~> session \cap {"entry", "fd", "tmp"} = {} /\ wpc \in {"none", "done"}

\* Seen from outside, the upload is one atomic step (AtomicUpload): the body is the
\* target when it is stored, and until then it is open or has been stopped.
Atomic == INSTANCE AtomicUpload WITH
    body <- [i \in 1..size |-> i],
    state <- IF target # NoFile THEN "stored" ELSE IF Stopped THEN "stopped" ELSE "open",
    answer <- outcome

\* handleFileUpload and the agent's half of it together implement AtomicUpload, over
\* all losses, timeouts, aborts and overtaking answers.
ImplementsAtomicUpload == Atomic!Spec

-----------------------------------------------------------------------------
(* The strengthening that makes the safety properties inductive.           *)

\* Credits the server got back, and credits the worker has sent.
Got == sent + credits - Window
Returned == Len(content) - (IF wpc = "credit" THEN 1 ELSE 0)

\* Chunks that have reached the agent: written, in the worker's hands, queued.
InHand == IF wpc \in {"write", "failed"} THEN 1 ELSE 0
EndQueued == events # <<>> /\ events[Len(events)] = End
Queued == IF EndQueued THEN Len(events) - 1 ELSE Len(events)
Arrived == Len(content) + InHand + Queued

\* The end has reached the agent and its worker has not yet answered it.
EndArrived == EndQueued \/ wpc \in {"end", "commit", "reply"}

\* The agent's messages that the handler has not read.
Answers == Len(pend) + Len(toServer)

\* The handler: what it has counted where it stands, and what it still owns.
HandlerInv ==
    /\ sent =< size
    /\ spc \in {"start", "ready"} => sent = 0 /\ credits = Window
    /\ spc \in {"drain", "result"} => sent = size
    /\ spc = "result" /\ Credited => credits = Window
    /\ pstate = "open" => spc # "done"
    /\ spc # "done" => outcome = "none"

\* Until the agent has read the start there is nothing of the upload on its side.
StartInv ==
    /\ spc = "start" => toAgent = <<>>
    /\ ~Up => toAgent = <<>> /\ toServer = <<>>
    /\ \A i \in 1..Len(toAgent) : toAgent[i] = Start =>
          i = 1 /\ spc \in {"ready", "done"} /\ sent = 0
    /\ spc = "start" \/ (toAgent # <<>> /\ toAgent[1] = Start) =>
          /\ session = {} /\ wpc = "none" /\ content = <<>> /\ events = <<>>
          /\ pend = <<>> /\ toServer = <<>> /\ target = NoFile

\* What may be on the wire at which stage: the end is sent once, when every chunk
\* and every credit has come back, and an abort is sent last.
EndInv ==
    /\ \A i \in 1..Len(toAgent) : toAgent[i] = Abort => spc = "done"
    /\ \A i \in 1..Len(toAgent) : toAgent[i].type = "chunk" => toAgent[i].n =< sent
    /\ \A i \in 1..Len(toAgent) : toAgent[i] = End =>
          /\ spc \in {"result", "done"} /\ ~EndArrived
          /\ sent = size /\ (Credited => credits = Window)
          /\ \A j \in 1..Len(toAgent) : toAgent[j] = End => j = i
    /\ EndArrived => spc \in {"result", "done"}

\* The worker and the owner of the map entry.
OwnerInv ==
    /\ ~Credited => wpc = "none" /\ events = <<>> /\ ~Stopped
    /\ Entry => ~Stopped
    /\ Entry /\ Credited => wpc \in {"idle", "write", "failed", "credit", "end"}
    /\ wpc \in {"commit", "reply"} => ~Entry /\ ~Stopped
    /\ wpc = "write" => held # 0

\* The target is there only after the entry was taken to complete it, and while the
\* handler waits on a connection that is up nobody else takes it from the worker.
CommitInv ==
    /\ Entry \/ wpc = "commit" => target = NoFile
    /\ Up /\ spc # "done" /\ wpc \in {"idle", "write", "failed", "credit", "end"} => Entry

\* The file grows by consecutive chunks.
ContentInv ==
    /\ \A i \in 1..Len(content) : content[i] = i
    /\ wpc = "write" => held = Len(content) + 1
    /\ wpc = "credit" => Len(content) > 0
    /\ wpc \in {"idle", "write", "credit", "failed"} =>
          \A i \in 1..Len(events) :
              \/ events[i] = Chunk(Len(content) + InHand + i)
              \/ events[i] = End /\ Len(events) = 1 /\ Len(content) = size
    /\ wpc \in {"end", "commit"} => Len(content) = size

\* While the upload is in the map nothing is lost on the way to the agent: what
\* was sent and has not arrived is on the wire, in order, and ahead of the end.
WireInv ==
    /\ Arrived =< sent
    /\ Entry =>
          /\ Up => Len(toAgent) >= sent - Arrived
          /\ \A i \in 1..Len(toAgent) :
                IF i =< sent - Arrived THEN toAgent[i] = Chunk(Arrived + i)
                                       ELSE toAgent[i] \in {End, Abort}

\* Credits are not made up: the server has at most those the worker returned, and
\* while the upload is in the map they are all the agent has sent.
CreditInv ==
    /\ spc \in {"start", "ready"} => Answers =< 1
    /\ Entry /\ Credited =>
          /\ Got =< Returned
          /\ spc \in {"body", "drain", "result"} => Answers =< Returned - Got
    /\ Entry /\ ~Credited /\ spc \in {"body", "drain", "result"} => Answers = 0

\* After that at most two more messages come: the end of the worker, or of the
\* direct upload, and the answer to a file_upload_end that finds no entry.
AnswersInv ==
    Up /\ ~Entry /\ spc \in {"body", "drain", "result"} =>
        Answers =< Window + (IF wpc \in {"commit", "reply"} THEN 0 ELSE 1)
                          + (IF spc = "result" /\ \A i \in 1..Len(toAgent) : toAgent[i] # End
                                THEN 1 ELSE 0)

\* A success is reported only after the rename.
ReplyInv ==
    /\ wpc = "reply" => target # NoFile
    /\ \A i \in 1..Len(pend) : pend[i] = Success => target # NoFile
    /\ \A i \in 1..Len(toServer) : toServer[i] = Success => target # NoFile

UploadInv ==
    /\ HandlerInv /\ StartInv /\ EndInv /\ OwnerInv /\ CommitInv /\ ContentInv /\ WireInv
    /\ CreditInv /\ AnswersInv /\ ReplyInv /\ CommittedIsWhole /\ OkMeansCommitted

=============================================================================
