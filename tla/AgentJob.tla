------------------------------ MODULE AgentJob ------------------------------
(***************************************************************************)
(* One thing the server asks of an agent: a command, a file operation, a   *)
(* system action, a download or a terminal.  On the server a job is an HTTP*)
(* handler with a pending request (server.go: request, files.go:           *)
(* handleFileDownload) or a browser terminal (handleTerminalWS); on the    *)
(* agent it is a goroutine that holds one slot of its kind (cmd/agent,     *)
(* main.go and files.go).  The slots are shared with other jobs, of which  *)
(* only the number is kept.                                                *)
(*                                                                         *)
(* The job belongs to the connection its handler looked up.  The agent     *)
(* reads one message at a time; when a connection ends, main sweeps the    *)
(* tables of terminals and transfers and dials again, and goroutines of    *)
(* earlier connections go on, writing to a closed socket.  The server may  *)
(* notice the loss of a connection late, and may close one that the agent  *)
(* still reads.  Any number of connections may follow the job's own.       *)
(*                                                                         *)
(* Left out: terminal output and sizes (a browser that does not take the   *)
(* output is one that leaves), paths and file contents (a chunk is its     *)
(* number) and the handshake (Hub, Enrollment).  Request and session       *)
(* identifiers are random, so no entry of a table is ever replaced by      *)
(* another one with its key.                                               *)
(***************************************************************************)
EXTENDS Integers, Sequences

CONSTANTS
    SlotCap,     \* maxConcurrentExec, ...Actions, ...: the limit of the job's kind
    Window,      \* initialFileDownloadCredits
    PendingCap,  \* pendingQueueCapacity
    InputCap,    \* termInputQueueDepth
    MaxChunks,   \* bound: the longest file
    MaxInput     \* bound: a key is typed while the wire holds fewer messages

ASSUME AgentJobAssumption ==
    /\ SlotCap \in Nat \ {0} /\ Window \in Nat \ {0} /\ InputCap \in Nat \ {0}
    /\ PendingCap \in Nat /\ Window + 2 =< PendingCap
    /\ MaxChunks \in Nat /\ MaxInput \in Nat

Kind == {"exec", "fileop", "action", "download", "term"}

VARIABLES
    kind,        \* what the job is
    credited,    \* the agent has the capability file_download_credits
    \* The server.
    registered,  \* the job's connection is in Server.agents, and open
    hpc,         \* where the handler stands
    pend,        \* pendingRequest.ch
    pdone,       \* an overflow or Shutdown has closed pendingRequest.done
    meta,        \* the metadata of the download has arrived
    got,         \* chunks written to the browser
    outcome,     \* what the browser got: "none", "ok" or "error"
    \* The wire of the job's connection.
    toAgent, toServer,
    \* The agent.
    own,         \* its latest connection is the job's
    link,        \* that one is "up", or "down" (run has returned) or "swept" (the
                 \* tables have been emptied)
    slots,       \* slots of the job's kind in use
    taken,       \* those of other jobs
    gpc,         \* where the goroutine stands
    entered,     \* the job is in agent.terms or agent.downloads
    stopped,     \* termSession.stop has run, or the download's context is cancelled
    size,        \* chunks of the file
    read,        \* chunks the goroutine has sent
    credits,     \* downloadSession.credits
    input,       \* length of termSession.input
    notice,      \* termInput has left the sending of term_exit to a goroutine
    exits,       \* term_exit messages written, for ExitOnce only
    missed       \* term_close, file_cancel or the sweep came before the job was in
                 \* the table, for UnattendedWorkEnds only

setup == <<kind, credited>>
handlerVars == <<hpc, pend, pdone, meta, got, outcome>>
slotVars == <<slots, taken>>
downloadVars == <<size, read, credits>>
termVars == <<input, notice, exits>>
jobVars == <<gpc, entered, stopped, downloadVars, termVars, missed>>
vars == <<setup, registered, handlerVars, toAgent, toServer, own, link, slotVars, jobVars>>

\* Messages of the agent; n is the number of a chunk, or says whether a result or
\* an end carries an error.
Msg(type, n) == [type |-> type, n |-> n]
Fine == 0
Bad == -1
ServerMsg == [type : {"result", "meta", "chunk", "end", "exit"}, n : -1..MaxChunks]
AgentMsg == {"request", "cancel", "credit", "input", "close"}

TypeOK ==
    /\ kind \in Kind
    /\ {credited, registered, pdone, meta, own, entered, stopped, notice, missed} \subseteq BOOLEAN
    /\ hpc \in {"send", "wait", "closing", "done"}
    /\ pend \in Seq(ServerMsg) /\ Len(pend) =< PendingCap
    /\ got \in Seq(1..MaxChunks)
    /\ outcome \in {"none", "ok", "error"}
    /\ toAgent \in Seq(AgentMsg) /\ toServer \in Seq(ServerMsg)
    /\ link \in {"up", "down", "swept"}
    /\ slots \in 0..SlotCap /\ taken \in 0..SlotCap
    /\ gpc \in {"none", "start", "busy", "meta", "stream", "close", "relay",
                "finish", "report", "exit", "done"}
    /\ size \in 0..MaxChunks /\ read \in 0..MaxChunks
    /\ credits \in 0..Window
    /\ input \in 0..InputCap
    /\ exits \in 0..2

\* getOnlineAgent has found the connection; newPending has made the request, or the
\* browser terminal has been registered.
Init ==
    /\ kind \in Kind /\ credited \in BOOLEAN
    /\ registered = TRUE /\ own = TRUE /\ link = "up"
    /\ hpc = "send" /\ pend = <<>> /\ pdone = FALSE
    /\ meta = FALSE /\ got = <<>> /\ outcome = "none"
    /\ toAgent = <<>> /\ toServer = <<>>
    /\ taken \in 0..SlotCap /\ slots = taken
    /\ gpc = "none" /\ entered = FALSE /\ stopped = FALSE
    /\ size = 0 /\ read = 0 /\ credits = 0
    /\ input = 0 /\ notice = FALSE /\ exits = 0
    /\ missed = FALSE

-----------------------------------------------------------------------------
(* The handler.                                                            *)

\* The job's connection, as the agent sees it.
Connected == own /\ link = "up"

\* sendAgent.  It fails once the server has closed the connection; until then what
\* it writes arrives, unless the agent has lost the connection already.
Post(type) ==
    toAgent' = IF registered /\ Connected THEN Append(toAgent, type) ELSE toAgent

\* The handler returns; the deferred removePending drops what was not read.
Return(o) == hpc' = "done" /\ outcome' = o /\ pend' = <<>>

SendRequest ==
    /\ hpc = "send"
    /\ Post("request")
    /\ IF registered THEN hpc' = "wait" /\ UNCHANGED <<outcome, pend>> ELSE Return("error")
    /\ UNCHANGED <<setup, registered, pdone, meta, got, toServer, own, link, slotVars, jobVars>>

\* request: the first message is the answer.
Answered ==
    /\ hpc = "wait" /\ pend # <<>>
    /\ Return(IF Head(pend).n = Fine THEN "ok" ELSE "error")
    /\ UNCHANGED <<setup, registered, pdone, meta, got, toAgent, toServer, own, link,
                   slotVars, jobVars>>

\* handleExec and handleAction; handleFileList, handleFileMkdir, handleFileDelete and
\* handleFileRename.
ReceiveResult == kind \in {"exec", "action"} /\ Answered
ReceiveFileResult == kind = "fileop" /\ Answered

\* handleFileDownload takes the next message of the channel.
Receives(type) ==
    /\ hpc = "wait" /\ kind = "download"
    /\ pend # <<>> /\ Head(pend).type = type

\* Metadata; the size may be refused.
ReceiveMeta ==
    /\ Receives("meta")
    /\ \/ meta' = TRUE /\ pend' = Tail(pend) /\ UNCHANGED <<hpc, outcome, toAgent>>
       \/ Post("cancel") /\ Return("error") /\ UNCHANGED meta
    /\ UNCHANGED <<setup, registered, pdone, got, toServer, own, link, slotVars, jobVars>>

\* A chunk is written to the browser and its credit returned.  A browser that does
\* not take it, or a chunk ahead of the metadata, cancels the download.
ReceiveChunk ==
    /\ Receives("chunk")
    /\ \/ /\ meta
          /\ got' = Append(got, Head(pend).n)
          /\ IF credited THEN Post("credit") ELSE UNCHANGED toAgent
          /\ IF credited /\ ~registered
                THEN Return("error")
                ELSE pend' = Tail(pend) /\ UNCHANGED <<hpc, outcome>>
       \/ Post("cancel") /\ Return("error") /\ UNCHANGED got
    /\ UNCHANGED <<setup, registered, pdone, meta, toServer, own, link, slotVars, jobVars>>

\* The browser has the file if no error is reported and the size fits.
ReceiveEnd ==
    /\ Receives("end")
    /\ Return(IF Head(pend).n = Fine /\ meta /\ Len(got) = size THEN "ok" ELSE "error")
    /\ UNCHANGED <<setup, registered, pdone, meta, got, toAgent, toServer, own, link,
                   slotVars, jobVars>>

\* The done channel of the pending request.
PendingFailed ==
    /\ hpc = "wait" /\ pdone
    /\ Return("error")
    /\ UNCHANGED <<setup, registered, pdone, meta, got, toAgent, toServer, own, link,
                   slotVars, jobVars>>

\* The timer, or the browser of a download goes away: a download is cancelled.
Timeout ==
    /\ hpc = "wait" /\ kind # "term"
    /\ Return("error")
    /\ IF kind = "download" THEN Post("cancel") ELSE UNCHANGED toAgent
    /\ UNCHANGED <<setup, registered, pdone, meta, got, toServer, own, link, slotVars, jobVars>>

\* handleTerminalWS relays a keystroke, best effort.
TypeKey ==
    /\ hpc = "wait" /\ kind = "term" /\ Len(toAgent) < MaxInput
    /\ Post("input")
    /\ UNCHANGED <<setup, registered, handlerVars, toServer, own, link, slotVars, jobVars>>

BrowserLeaves ==
    /\ hpc = "wait" /\ kind = "term"
    /\ hpc' = "closing"
    /\ UNCHANGED <<setup, registered, pend, pdone, meta, got, outcome, toAgent, toServer,
                   own, link, slotVars, jobVars>>

\* The deferred function of handleTerminalWS.
SendClose ==
    /\ hpc = "closing"
    /\ Post("close")
    /\ Return("ok")
    /\ UNCHANGED <<setup, registered, pdone, meta, got, toServer, own, link, slotVars, jobVars>>

-----------------------------------------------------------------------------
(* The connection, as the server sees it.                                  *)

\* The connection leaves Server.agents and is closed (a failed read, a new
\* connection, a deleted device), and the device's terminals with it.
Deregistered ==
    /\ registered' = FALSE
    /\ hpc' = IF kind = "term" /\ hpc = "wait" THEN "closing" ELSE hpc

ServerDrops ==
    /\ registered /\ Deregistered
    /\ UNCHANGED <<setup, pend, pdone, meta, got, outcome, toAgent, toServer, own, link,
                   slotVars, jobVars>>

\* Server.Shutdown also finishes the pending requests.
Shutdown ==
    /\ registered /\ Deregistered
    /\ pdone' = (pdone \/ (kind # "term" /\ hpc # "done"))
    /\ UNCHANGED <<setup, pend, meta, got, outcome, toAgent, toServer, own, link,
                   slotVars, jobVars>>

\* deliver to a full channel finishes the request, and a download is cancelled.
\* Mutant: the message is dropped and the request goes on.
DropsMessage == UNCHANGED <<pdone, toAgent>>
Overflows ==
    /\ pdone' = TRUE
    /\ IF kind = "download" THEN Post("cancel") ELSE UNCHANGED toAgent

\* handleAgentMessage: the connection is the registered one, and the pending
\* request or the terminal is there to take the message.
Takes == registered /\ hpc \in {"send", "wait"} /\ ~pdone

Deliver ==
    /\ toServer # <<>>
    /\ toServer' = Tail(toServer)
    /\ LET m == Head(toServer)
       IN  \/ ~Takes /\ UNCHANGED <<hpc, pend, pdone, toAgent>>
           \/ Takes /\ m.type = "exit" /\ hpc' = "closing" /\ UNCHANGED <<pend, pdone, toAgent>>
           \/ /\ Takes /\ m.type # "exit" /\ Len(pend) < PendingCap
              /\ pend' = Append(pend, m)
              /\ UNCHANGED <<hpc, pdone, toAgent>>
           \/ /\ Takes /\ m.type # "exit" /\ Len(pend) >= PendingCap
              /\ Overflows
              /\ UNCHANGED <<hpc, pend>>
    /\ UNCHANGED <<setup, registered, meta, got, outcome, own, link, slotVars, jobVars>>

-----------------------------------------------------------------------------
(* The agent's read loop.                                                  *)

\* A write to the job's connection; it fails once run has returned.
Say(type, n) == toServer' = IF Connected THEN Append(toServer, Msg(type, n)) ELSE toServer

AnswerType == CASE kind = "download" -> "end" [] kind = "term" -> "exit" [] OTHER -> "result"

Reads(type) ==
    /\ Connected /\ toAgent # <<>> /\ Head(toAgent) = type
    /\ toAgent' = Tail(toAgent)

\* acquireSlot: the other jobs of the kind come and go.
OtherJobStarts ==
    /\ slots < SlotCap
    /\ slots' = slots + 1 /\ taken' = taken + 1
    /\ UNCHANGED <<setup, registered, handlerVars, toAgent, toServer, own, link, jobVars>>

OtherJobEnds ==
    /\ taken > 0
    /\ slots' = slots - 1 /\ taken' = taken - 1
    /\ UNCHANGED <<setup, registered, handlerVars, toAgent, toServer, own, link, jobVars>>

\* startAction, startExec, startTerm, startFileOp, startFileDownload: a slot and a
\* goroutine, or a refusal.
ReadRequest ==
    /\ Reads("request")
    /\ IF slots < SlotCap
          THEN slots' = slots + 1 /\ gpc' = "start" /\ UNCHANGED <<toServer, exits>>
          ELSE /\ Say(AnswerType, Bad)
               /\ exits' = IF kind = "term" THEN exits + 1 ELSE exits
               /\ UNCHANGED <<slots, gpc>>
    /\ UNCHANGED <<setup, registered, handlerVars, own, link, taken, entered, stopped,
                   downloadVars, input, notice, missed>>

\* handleFileCancel.
ReadCancel ==
    /\ Reads("cancel")
    /\ stopped' = (stopped \/ entered) /\ missed' = (missed \/ ~entered)
    /\ UNCHANGED <<setup, registered, handlerVars, toServer, own, link, slotVars,
                   gpc, entered, downloadVars, termVars>>

\* handleFileCredit.  Mutant: the test of m.Credits is off by one.
CreditIgnored == credits
CreditAdded == IF entered THEN credits + 1 ELSE credits

ReadCredit ==
    /\ Reads("credit")
    /\ credits' = CreditAdded
    /\ UNCHANGED <<setup, registered, handlerVars, toServer, own, link, slotVars,
                   gpc, entered, stopped, size, read, termVars, missed>>

\* The slots after stop of a terminal, whose release runs once.  Mutant: it runs
\* at every call.
ReleasedAgain == slots - 1
Released == IF stopped THEN slots ELSE slots - 1

\* Whether termSession.stop runs.  In a terminal it closes the pty, kills the shell
\* and gives the slot back.
StopTerm(runs) ==
    /\ stopped' = (stopped \/ runs)
    /\ slots' = IF runs THEN Released ELSE slots

\* termInput: an input that is too long, a full queue or a terminal that was
\* stopped ends it.
ReadInput ==
    /\ Reads("input")
    /\ \/ ~entered /\ UNCHANGED <<stopped, slots, entered, notice, input>>
       \/ entered /\ StopTerm(TRUE) /\ entered' = FALSE /\ notice' = TRUE /\ UNCHANGED input
       \/ /\ entered /\ ~stopped /\ input < InputCap
          /\ input' = input + 1
          /\ UNCHANGED <<stopped, slots, entered, notice>>
    /\ UNCHANGED <<setup, registered, handlerVars, toServer, own, link, taken, gpc,
                   downloadVars, exits, missed>>

\* What termClose stops.  Mutant: the entry is deleted and the shell goes on.
DeletedOnly == FALSE
EntryStopped == entered

ReadClose ==
    /\ Reads("close")
    /\ StopTerm(EntryStopped)
    /\ entered' = FALSE /\ missed' = (missed \/ ~entered)
    /\ UNCHANGED <<setup, registered, handlerVars, toServer, own, link, taken, gpc,
                   downloadVars, termVars>>

AgentReads == ReadRequest \/ ReadCancel \/ ReadCredit \/ ReadInput \/ ReadClose

\* A connection ends, the job's or a later one: run returns.  What was written to
\* it may still be read by the server.
LinkEnds ==
    /\ link = "up"
    /\ link' = "down" /\ toAgent' = <<>>
    /\ UNCHANGED <<setup, registered, handlerVars, toServer, own, slotVars, jobVars>>

\* closeTerms and the downloads part of closeFileTransfers.
Sweep ==
    /\ link = "down"
    /\ link' = "swept" /\ entered' = FALSE
    /\ IF kind = "term" THEN StopTerm(entered)
                        ELSE stopped' = (stopped \/ entered) /\ UNCHANGED slots
    /\ missed' = (missed \/ (kind = "term" /\ gpc = "start"))
    /\ UNCHANGED <<setup, registered, handlerVars, toAgent, toServer, own, taken,
                   gpc, downloadVars, termVars>>

\* The next round of main: the new connection replaces the job's on the server.
Redial ==
    /\ link = "swept"
    /\ link' = "up" /\ own' = FALSE
    /\ Deregistered
    /\ UNCHANGED <<setup, pend, pdone, meta, got, outcome, toAgent, toServer, slotVars, jobVars>>

-----------------------------------------------------------------------------
(* The goroutine of the job.                                               *)

others == <<setup, registered, handlerVars, toAgent, own, link, taken, missed>>

ReportsResult ==
    /\ \E n \in {Fine, Bad} : Say("result", n)
    /\ gpc' = "exit"
    /\ UNCHANGED <<others, slots, entered, stopped, downloadVars, termVars>>

\* handleExec: the command has ended, or its timeout has ended it, or it was refused.
CommandEnds == gpc = "start" /\ kind = "exec" /\ ReportsResult

\* The file operations: done, failed or refused.
FileOpEnds == gpc = "start" /\ kind = "fileop" /\ ReportsResult

\* handleAction answers first, and keeps its slot until the command has ended.
ActionAccepted ==
    /\ gpc = "start" /\ kind = "action"
    /\ \/ Say("result", Fine) /\ gpc' = "busy"
       \/ Say("result", Bad) /\ gpc' = "exit"
    /\ UNCHANGED <<others, slots, entered, stopped, downloadVars, termVars>>

ActionEnds ==
    /\ gpc = "busy"
    /\ gpc' = "exit"
    /\ UNCHANGED <<others, toServer, slots, entered, stopped, downloadVars, termVars>>

\* The deferred release of a goroutine that is not, or not yet, a terminal.
ReleaseSlot ==
    /\ gpc = "exit"
    /\ slots' = slots - 1
    /\ gpc' = "done"
    /\ UNCHANGED <<others, toServer, entered, stopped, downloadVars, termVars>>

\* handleFileDownload: the file cannot be opened, or the download is entered in
\* the table with its first credits.
DownloadOpens ==
    /\ gpc = "start" /\ kind = "download"
    /\ \/ /\ Say("end", Bad) /\ gpc' = "exit"
          /\ UNCHANGED <<size, credits, entered>>
       \/ /\ size' \in 0..MaxChunks
          /\ credits' = IF credited THEN Window ELSE 0
          /\ entered' = TRUE
          /\ gpc' = "meta"
          /\ UNCHANGED toServer
    /\ UNCHANGED <<others, slots, stopped, read, termVars>>

\* A failed write ends the download.
AfterWrite == IF Connected THEN "stream" ELSE "close"

SendMeta ==
    /\ gpc = "meta"
    /\ Say("meta", Fine)
    /\ gpc' = AfterWrite
    /\ UNCHANGED <<others, slots, entered, stopped, downloadVars, termVars>>

\* Whether the loop goes on to the next chunk; with credits, it may although the
\* context is cancelled.  Mutant: it does not wait for credit.
NoCreditNeeded == gpc = "stream" /\ read < size
MayRead == gpc = "stream" /\ read < size /\ (IF credited THEN credits > 0 ELSE ~stopped)
CreditLeft == IF credited THEN credits - 1 ELSE credits

SendChunk ==
    /\ MayRead
    /\ Say("chunk", read + 1)
    /\ read' = read + 1 /\ credits' = CreditLeft
    /\ gpc' = AfterWrite
    /\ UNCHANGED <<others, slots, entered, stopped, size, termVars>>

\* The file cannot be read, or is shorter than it was.
ReadFails ==
    /\ MayRead
    /\ Say("end", Bad)
    /\ credits' = CreditLeft
    /\ gpc' = "close"
    /\ UNCHANGED <<others, slots, entered, stopped, size, read, termVars>>

DownloadCancelled ==
    /\ gpc = "stream" /\ read < size /\ stopped
    /\ gpc' = "close"
    /\ UNCHANGED <<others, toServer, slots, entered, stopped, downloadVars, termVars>>

SendEnd ==
    /\ gpc = "stream" /\ read = size
    /\ Say("end", Fine)
    /\ gpc' = "close"
    /\ UNCHANGED <<others, slots, entered, stopped, downloadVars, termVars>>

\* The deferred function takes the entry out of the table and cancels.
DownloadLeaves ==
    /\ gpc = "close"
    /\ entered' = FALSE /\ stopped' = TRUE
    /\ gpc' = "exit"
    /\ UNCHANGED <<others, toServer, slots, downloadVars, termVars>>

\* openTerm: no shell, or one that is entered in the table and owns the slot.
TermStarts ==
    /\ gpc = "start" /\ kind = "term"
    /\ \/ /\ Say("exit", Bad) /\ gpc' = "exit"
          /\ exits' = exits + 1
          /\ UNCHANGED entered
       \/ /\ entered' = TRUE
          /\ gpc' = "relay"
          /\ UNCHANGED <<toServer, exits>>
    /\ UNCHANGED <<others, slots, stopped, downloadVars, input, notice>>

\* writeInput takes a keystroke; a failed write stops the terminal.
WriteInput ==
    /\ ~stopped /\ input > 0
    /\ input' = input - 1
    /\ \E failed \in BOOLEAN : StopTerm(failed)
    /\ UNCHANGED <<others, toServer, gpc, entered, downloadVars, notice, exits>>

\* The read of the pty fails: the terminal was stopped, or the shell has exited.
ReadEnds ==
    /\ gpc = "relay" /\ stopped
    /\ gpc' = "finish"
    /\ UNCHANGED <<others, toServer, slots, entered, stopped, downloadVars, termVars>>

ShellExits ==
    /\ gpc = "relay" /\ ~stopped
    /\ gpc' = "finish"
    /\ UNCHANGED <<others, toServer, slots, entered, stopped, downloadVars, termVars>>

\* The owned of finishTerm.  Mutant: the exit is always reported.
OwnedAlways == TRUE
Owned == entered

FinishTerm ==
    /\ gpc = "finish"
    /\ StopTerm(TRUE)
    /\ entered' = FALSE
    /\ gpc' = IF Owned THEN "report" ELSE "done"
    /\ UNCHANGED <<others, toServer, downloadVars, termVars>>

ReportExit ==
    /\ gpc = "report"
    /\ Say("exit", Fine)
    /\ exits' = exits + 1
    /\ gpc' = "done"
    /\ UNCHANGED <<others, slots, entered, stopped, downloadVars, input, notice>>

\* The goroutine that termInput has left the notice to.
SendNotice ==
    /\ notice
    /\ Say("exit", Bad)
    /\ exits' = exits + 1 /\ notice' = FALSE
    /\ UNCHANGED <<others, slots, gpc, entered, stopped, downloadVars, input>>

-----------------------------------------------------------------------------
Handler ==
    \/ SendRequest \/ ReceiveResult \/ ReceiveFileResult \/ ReceiveMeta \/ ReceiveChunk \/ ReceiveEnd
    \/ PendingFailed \/ SendClose

Goroutine ==
    \/ CommandEnds \/ FileOpEnds \/ ActionAccepted \/ ActionEnds \/ ReleaseSlot
    \/ DownloadOpens \/ SendMeta \/ SendChunk \/ ReadFails \/ DownloadCancelled
    \/ SendEnd \/ DownloadLeaves
    \/ TermStarts \/ ReadEnds \/ FinishTerm \/ ReportExit

Next ==
    \/ Handler \/ Timeout \/ TypeKey \/ BrowserLeaves
    \/ ServerDrops \/ Shutdown \/ Deliver
    \/ OtherJobStarts \/ OtherJobEnds
    \/ AgentReads \/ LinkEnds \/ Sweep \/ Redial
    \/ Goroutine \/ WriteInput \/ ShellExits \/ SendNotice

\* The handler goes on, but for as long as it has a chunk: the response has no write
\* deadline, so the write to a browser that does not read may never return, and until
\* it does the handler sees neither its channel nor its timer.
HandlerGoes == Handler /\ ~Receives("chunk")

\* Goroutines run, commands end by their timeouts, and the agent's read notices
\* that the server has closed the connection.  Nothing is assumed of browsers,
\* shells, other jobs and the network.
Fairness ==
    /\ WF_vars(HandlerGoes) /\ WF_vars(Goroutine)
    /\ WF_vars(Deliver) /\ WF_vars(AgentReads) /\ WF_vars(Sweep)
    /\ WF_vars(own /\ ~registered /\ LinkEnds)

Spec == Init /\ [][Next]_vars
FairSpec == Spec /\ Fairness

-----------------------------------------------------------------------------
(* Properties.                                                             *)

\* The goroutine has a command, a file or a shell, and so must hold a slot.
Working ==
    /\ gpc \notin {"none", "done", "report"}
    /\ gpc \in {"relay", "finish"} => ~stopped

\* docs/AGENT.md:138: the agent runs a bounded number of jobs of each kind.  The
\* slots in use are those of the other jobs and of this one while it works, for
\* every way it ends and however its end is overtaken: a slot returned twice would
\* let in more jobs than the limit, a slot lost would refuse them for ever.
SlotsExact == slots = taken + (IF Working THEN 1 ELSE 0)

\* The credits of a download keep the server's queue from overflowing: with an
\* agent of this version errPendingBackpressure never ends a request.
DownloadFits ==
    credited /\ toServer # <<>> /\ Takes /\ Head(toServer).type # "exit" => Len(pend) < PendingCap

\* The browser gets the chunks of the file in order and without a gap, with or
\* without credits, and a complete answer only for the complete file.
DownloadIsPrefix ==
    /\ \A i \in 1..Len(got) : got[i] = i
    /\ kind = "download" /\ outcome = "ok" => Len(got) = size

\* The end of a terminal is reported at most once, although the shell, a full input
\* queue, a failed write and the browser may all end it.
ExitOnce == exits =< 1

\* Work nobody waits for ends: everything that runs when a connection is lost, the
\* job's or a later one, and a terminal or download whose handler has returned.
\* The cases left out are real (missed): a terminal that is still starting when the
\* tables are swept, and a terminal or download whose term_close or file_cancel is
\* read before it is in the table, go on until the next loss of a connection.
Unattended ==
    /\ gpc \notin {"none", "done"}
    /\ \/ link = "down" /\ ~(kind = "term" /\ gpc = "start")
       \/ hpc = "done" /\ gpc # "start" /\ ~missed
UnattendedWorkEnds == Unattended ~> gpc = "done"

\* While its connection lasts a handler never needs its timer: what it waits for comes,
\* be it the answer, a refusal or the next chunk.  It does not wait for a chunk while the
\* goroutine waits for credit, however slowly the browser takes the chunks.  They are
\* finitely many, so a browser that takes them all sees the request end.
AnsweredWithoutTimer ==
    hpc = "wait" /\ kind # "term" ~> Receives("chunk") \/ hpc = "done" \/ ~registered \/ ~Connected

-----------------------------------------------------------------------------
(* The strengthening that makes SlotsExact and ExitOnce inductive.         *)

\* What is on the wire fits the job, and its request is the first message, once.
WireInv ==
    /\ toAgent \in Seq(AgentMsg)
    /\ hpc = "send" => toAgent = <<>> /\ toServer = <<>> /\ gpc = "none" /\ exits = 0
    /\ \A i \in 1..Len(toAgent) :
          /\ toAgent[i] \in {"cancel", "credit"} => kind = "download"
          /\ toAgent[i] \in {"input", "close"} => kind = "term"
          /\ toAgent[i] = "request" => i = 1 /\ gpc = "none" /\ exits = 0

\* Only a terminal is ended by the agent, and closed by its handler.
CloseInv ==
    /\ toServer \in Seq([type : {"result", "meta", "chunk", "end", "exit"}, n : Int])
    /\ \A i \in 1..Len(toServer) : toServer[i].type = "exit" => kind = "term"
    /\ hpc = "closing" => kind = "term"

\* Where the goroutine of which kind may stand, and what holds there.
PlaceInv ==
    /\ kind \in Kind
    /\ gpc \in {"none", "start", "busy", "meta", "stream", "close", "relay",
                "finish", "report", "exit", "done"}
    /\ gpc \in {"relay", "finish", "report"} => kind = "term"
    /\ gpc \in {"none", "start"} => ~entered /\ ~notice /\ ~stopped /\ input = 0
    /\ kind = "term" /\ entered => gpc \in {"relay", "finish"}
    /\ input # 0 => kind = "term" /\ (gpc \in {"relay", "finish"} \/ stopped)

\* Who may still report the end of a terminal: one of the goroutine and the notice.
ExitInv ==
    /\ gpc = "start" => exits = 0
    /\ kind = "term" /\ entered => exits = 0 /\ ~notice
    /\ gpc = "report" => exits = 0 /\ ~entered /\ ~notice
    /\ notice => exits = 0 /\ kind = "term"

NumbersInv == {slots, taken, input, exits, read} \subseteq Nat

JobInv == NumbersInv /\ WireInv /\ CloseInv /\ PlaceInv /\ ExitInv /\ SlotsExact /\ ExitOnce

-----------------------------------------------------------------------------
(* The strengthening that makes the types, DownloadFits and                *)
(* DownloadIsPrefix inductive, on top of JobInv.                           *)

\* The request is on its way or has just been taken: nothing has been answered.
Fresh ==
    \/ hpc = "send" \/ gpc \in {"start", "meta"}
    \/ toAgent # <<>> /\ toAgent[1] = "request"

BeginInv ==
    /\ Fresh => pend = <<>> /\ toServer = <<>> /\ got = <<>> /\ ~meta
    /\ kind = "download" /\ hpc = "wait" /\ (gpc = "start" \/ (toAgent # <<>> /\ toAgent[1] = "request"))
          => \A i \in 1..Len(toAgent) : toAgent[i] = "request"

\* What the goroutine of a download has counted where it stands.
StageInv ==
    /\ gpc \in {"meta", "stream", "close"} => kind = "download"
    /\ gpc \in {"none", "start", "meta"} => read = 0
    /\ gpc \in {"none", "start"} => credits = 0
    /\ Len(got) =< read /\ read =< size

\* A download that waits has its window of credits in three places: with the agent,
\* on the way to it, and in chunks that the browser has not got.  A credit that is
\* on the way when the handler has returned still fits.
CreditInv ==
    /\ kind = "download" /\ credited /\ hpc = "wait" =>
          credits + Len(toAgent) + (read - Len(got)) =< Window
    /\ \A i \in 1..Len(toAgent) : toAgent[i] = "credit" =>
          /\ credited /\ gpc \notin {"none", "start"}
          /\ credits + i + (read - Len(got)) =< Window

\* Messages ahead of the next chunk.
Lead == IF meta THEN 0 ELSE 1

\* The chunks follow each other in the channel and, as long as the handler takes
\* what comes, on the wire; the metadata is ahead of them.
StreamInv ==
    /\ \A i \in 1..Len(pend) :
          /\ pend[i].type = "chunk" => pend[i].n \in 1..read /\ pend[i].n = Len(got) + i - Lead
          /\ pend[i].type = "meta" => i = 1 /\ ~meta
          /\ pend[i].type = "end" /\ pend[i].n = Fine => gpc \in {"close", "exit", "done"}
    /\ \A i \in 1..Len(toServer) :
          /\ toServer[i].type = "chunk" =>
                toServer[i].n \in 1..read /\ (Takes => toServer[i].n = Len(got) + Len(pend) + i - Lead)
          /\ toServer[i].type = "meta" /\ Takes => i = 1 /\ pend = <<>> /\ ~meta
          /\ toServer[i].type = "end" /\ toServer[i].n = Fine => gpc \in {"close", "exit", "done"}

\* What is under way is what was sent, with the end of it at most one message more.
PipeInv ==
    kind = "download" /\ Takes =>
        LET sent == read - Len(got) + Lead
        IN  /\ gpc = "stream" => Len(pend) + Len(toServer) = sent
            /\ Len(pend) + Len(toServer) =< sent + 1

\* The other kinds have one answer, and a terminal has none.
ResultInv ==
    /\ kind \notin {"download", "term"} => Len(pend) + Len(toServer) =< 1
    /\ kind = "term" => pend = <<>> /\ \A i \in 1..Len(toServer) : toServer[i].type = "exit"

\* DownloadIsPrefix, and that the size is known when the answer is complete.
PrefixInv ==
    /\ DownloadIsPrefix
    /\ kind = "download" /\ outcome = "ok" => gpc \in {"close", "exit", "done"} /\ hpc = "done"

DataInv ==
    BeginInv /\ StageInv /\ CreditInv /\ StreamInv /\ PipeInv /\ ResultInv /\ PrefixInv

=============================================================================
