--------------------------- MODULE AgentJobProofs ---------------------------
(***************************************************************************)
(* The slots of a kind are exact, the end of a terminal is reported at     *)
(* most once, a download with credits never fills the channel of its       *)
(* handler, and the browser gets the chunks in order, for every limit,     *)
(* window, queue length and bound.                                         *)
(*                                                                         *)
(* JobInv is inductive.  Most steps leave the goroutine alone and only move*)
(* messages; HandlerStep covers those.  The others are taken one by one.   *)
(*                                                                         *)
(* TypeOK /\ JobInv /\ DataInv is inductive too.  Its steps are the        *)
(* server's (ServerStep), which leave the agent's state alone, and the     *)
(* agent's (AgentStep), which leave the handler's alone.  ServerCounts,    *)
(* DeliverCounts, ServerWire, AgentWire, CreditSteps and PlaceStep say once*)
(* what a step does to the queues, the credits and the goroutine; the      *)
(* lemma of each part of DataInv then only reasons about those effects.    *)
(***************************************************************************)
EXTENDS AgentJob, TLAPS

USE AgentJobAssumption DEF AgentJobAssumption

-----------------------------------------------------------------------------
(* The wire.                                                               *)

\* A queue of messages to the agent that fits the job, but for its request.
Fits(s) ==
    /\ s \in Seq(AgentMsg)
    /\ \A i \in 1..Len(s) :
          /\ s[i] \in {"cancel", "credit"} => kind = "download"
          /\ s[i] \in {"input", "close"} => kind = "term"

\* What sendAgent does to the wire: a message that fits is appended, or nothing is.
LEMMA PostFits ==
    ASSUME NEW s \in Seq(AgentMsg), NEW type \in AgentMsg,
           Fits(s), Post(type), toAgent = s,
           type \in {"cancel", "credit"} => kind = "download",
           type \in {"input", "close"} => kind = "term"
    PROVE  /\ toAgent' \in Seq(AgentMsg)
           /\ \A i \in 1..Len(toAgent') :
                 /\ toAgent'[i] \in {"cancel", "credit"} => kind = "download"
                 /\ toAgent'[i] \in {"input", "close"} => kind = "term"
                 /\ i =< Len(s) => toAgent'[i] = s[i]
                 /\ i > Len(s) => toAgent'[i] = type
BY DEF Post, Fits

\* A handler whose goroutine is left alone sends a message other than the request.
LEMMA PostStep ==
    ASSUME JobInv, NEW type \in AgentMsg \ {"request"}, Post(type), hpc # "send",
           type \in {"cancel", "credit"} => kind = "download",
           type \in {"input", "close"} => kind = "term",
           hpc' # "send", UNCHANGED <<kind, gpc, exits>>
    PROVE  WireInv'
BY PostFits DEF JobInv, WireInv, Post, Fits

\* A step that leaves the wire to the agent as it is, or loses what is on it.
LEMMA QuietStep ==
    ASSUME JobInv, toAgent' = toAgent \/ toAgent' = <<>>, UNCHANGED <<kind, gpc, exits>>,
           hpc' = "send" => hpc = "send" /\ toServer' = toServer
    PROVE  WireInv'
<1>1. CASE toAgent' = toAgent
  BY <1>1 DEF JobInv, WireInv
<1>2. CASE toAgent' = <<>>
  BY <1>2 DEF JobInv, WireInv
<1> QED BY <1>1, <1>2

\* The agent takes a message off the wire; no request is left behind it.
LEMMA TakeStep ==
    ASSUME JobInv, NEW type \in AgentMsg, Reads(type), UNCHANGED <<kind, hpc>>
    PROVE  /\ WireInv' /\ hpc # "send"
           /\ type \in {"cancel", "credit"} => kind = "download"
           /\ type \in {"input", "close"} => kind = "term"
           /\ type = "request" => gpc = "none" /\ exits = 0
BY DEF JobInv, WireInv, Reads

\* What the goroutine writes, and what the server takes.
LEMMA SayStep ==
    ASSUME JobInv, NEW type \in {"result", "meta", "chunk", "end", "exit"}, NEW n \in Int,
           Say(type, n), type = "exit" => kind = "term", UNCHANGED <<kind, hpc>>
    PROVE  CloseInv'
<1>1. CASE toServer' = toServer
  BY <1>1 DEF JobInv, CloseInv
<1>2. CASE toServer' = Append(toServer, [type |-> type, n |-> n])
  <2> DEFINE m == [type |-> type, n |-> n]
  <2>1. m \in [type : {"result", "meta", "chunk", "end", "exit"}, n : Int] /\ m.type = type
    OBVIOUS
  <2> HIDE DEF m
  <2>2. toServer' = Append(toServer, m)
    BY <1>2 DEF m
  <2> QED BY <2>1, <2>2 DEF JobInv, CloseInv
<1> QED BY <1>1, <1>2 DEF Say, Msg

LEMMA SilentStep ==
    ASSUME JobInv, UNCHANGED <<kind, hpc, toServer>>
    PROVE  CloseInv'
BY DEF JobInv, CloseInv

-----------------------------------------------------------------------------
(* The goroutine.                                                          *)

\* A step that leaves the agent's side of the job alone keeps its invariants.
LEMMA AgentSideStep ==
    ASSUME JobInv, UNCHANGED <<setup, slotVars, jobVars>>
    PROVE  PlaceInv' /\ ExitInv' /\ SlotsExact' /\ ExitOnce' /\ NumbersInv'
BY DEF JobInv, NumbersInv, PlaceInv, ExitInv, SlotsExact, Working, ExitOnce, setup, slotVars, jobVars,
       downloadVars, termVars

\* A goroutine that runs has read its request, and may do as it likes to the wire's
\* invariant.
LEMMA RunningStep ==
    ASSUME JobInv, gpc # "none", UNCHANGED <<kind, hpc, toAgent>>
    PROVE  WireInv'
BY DEF JobInv, WireInv

LEMMA HandlerStep ==
    ASSUME JobInv, Handler \/ Timeout \/ TypeKey \/ BrowserLeaves \/ ServerDrops \/ Shutdown
                           \/ Deliver \/ LinkEnds \/ Redial
    PROVE  JobInv'
<1>0. UNCHANGED <<setup, slotVars, jobVars>>
  BY DEF Handler, Timeout, TypeKey, BrowserLeaves, ServerDrops, Shutdown, Deliver, LinkEnds, Redial,
         SendRequest, ReceiveResult, ReceiveFileResult, Answered, ReceiveMeta, ReceiveChunk,
         ReceiveEnd, PendingFailed, SendClose
<1>1. PlaceInv' /\ ExitInv' /\ SlotsExact' /\ ExitOnce' /\ NumbersInv'
  BY <1>0, AgentSideStep
<1>2. UNCHANGED <<kind, gpc, exits>>
  BY <1>0 DEF setup, jobVars, termVars
<1>3. WireInv'
  <2>1. CASE SendRequest
    <3>1. hpc' # "send" /\ hpc = "send"
      BY <2>1 DEF SendRequest, Return
    <3>2. toAgent' = <<>> \/ toAgent' = <<"request">>
      BY <2>1 DEF SendRequest, Post, JobInv, WireInv
    <3>3. CASE toAgent' = <<>>
      BY <3>1, <3>3, <1>2 DEF JobInv, WireInv
    <3>4. CASE toAgent' = <<"request">>
      BY <3>1, <3>4, <1>2 DEF JobInv, WireInv, AgentMsg
    <3> QED BY <3>2, <3>3, <3>4
  <2>2. CASE ReceiveResult \/ ReceiveFileResult \/ PendingFailed \/ ReceiveEnd
    BY <2>2, <1>2, QuietStep DEF ReceiveResult, ReceiveFileResult, Answered, PendingFailed,
       ReceiveEnd, Return
  <2>3. CASE ReceiveMeta
    BY <2>3, <1>2, QuietStep, PostStep DEF ReceiveMeta, Receives, Return, AgentMsg
  <2>4. CASE ReceiveChunk
    BY <2>4, <1>2, QuietStep, PostStep DEF ReceiveChunk, Receives, Return, AgentMsg
  <2>5. CASE SendClose
    BY <2>5, <1>2, PostStep DEF SendClose, Return, AgentMsg, JobInv, CloseInv
  <2>6. CASE Timeout
    BY <2>6, <1>2, QuietStep, PostStep DEF Timeout, Return, AgentMsg
  <2>7. CASE TypeKey
    BY <2>7, <1>2, PostStep DEF TypeKey, handlerVars, AgentMsg
  <2>8. CASE BrowserLeaves \/ ServerDrops \/ Shutdown \/ LinkEnds \/ Redial
    BY <2>8, <1>2, QuietStep DEF BrowserLeaves, ServerDrops, Shutdown, Deregistered, LinkEnds,
       Redial, handlerVars
  <2>9. CASE Deliver
    BY <2>9, <1>2, QuietStep, PostStep DEF Deliver, Overflows, JobInv, WireInv, AgentMsg
  <2> QED BY <2>1, <2>2, <2>3, <2>4, <2>5, <2>6, <2>7, <2>8, <2>9 DEF Handler
<1>4. CloseInv'
  <2>1. CASE Deliver
    <3>1. toServer # <<>> /\ toServer' = Tail(toServer) /\ hpc' \in {hpc, "closing"}
      BY <2>1 DEF Deliver
    <3>2. hpc' # hpc => toServer[1].type = "exit"
      BY <2>1 DEF Deliver, JobInv, CloseInv
    <3> QED BY <3>1, <3>2, <1>2 DEF JobInv, CloseInv
  <2>2. CASE ~Deliver
    <3>1. toServer' = toServer
      BY <2>2 DEF Handler, Timeout, TypeKey, BrowserLeaves, ServerDrops, Shutdown, LinkEnds, Redial,
         SendRequest, ReceiveResult, ReceiveFileResult, Answered, ReceiveMeta, ReceiveChunk,
         ReceiveEnd, PendingFailed, SendClose
    <3>2. hpc' = "closing" => hpc = "closing" \/ kind = "term"
      BY <2>2 DEF Handler, Timeout, TypeKey, BrowserLeaves, ServerDrops, Shutdown, LinkEnds, Redial,
         SendRequest, ReceiveResult, ReceiveFileResult, Answered, ReceiveMeta, ReceiveChunk,
         ReceiveEnd, PendingFailed, SendClose, Return, Deregistered, handlerVars
    <3> QED BY <3>1, <3>2, <1>2 DEF JobInv, CloseInv
  <2> QED BY <2>1, <2>2
<1> QED BY <1>1, <1>3, <1>4 DEF JobInv

\* termSession.stop gives back the slot of a terminal that had not been stopped.
LEMMA StopStep ==
    ASSUME JobInv, NEW runs, StopTerm(runs), UNCHANGED <<gpc, taken>>,
           runs => gpc \in {"relay", "finish"}
    PROVE  SlotsExact' /\ slots' \in Nat
<1>1. CASE runs /\ ~stopped
  <2>1. slots = taken + 1 /\ slots' = slots - 1 /\ taken \in Nat
    BY <1>1 DEF JobInv, NumbersInv, SlotsExact, Working, StopTerm, Released
  <2>2. stopped'
    BY <1>1 DEF StopTerm
  <2> QED BY <1>1, <2>1, <2>2 DEF SlotsExact, Working
<1>2. CASE ~runs \/ stopped
  <2>1. slots' = slots
    BY <1>2 DEF StopTerm, Released
  <2>2. stopped' <=> stopped
    BY <1>2 DEF StopTerm
  <2> QED BY <2>1, <2>2 DEF JobInv, NumbersInv, SlotsExact, Working
<1> QED BY <1>1, <1>2

\* The agent's read loop, and the other jobs of the kind.
LEMMA ReadStep ==
    ASSUME JobInv, AgentReads \/ OtherJobStarts \/ OtherJobEnds \/ Sweep
    PROVE  JobInv'
<1>1. CASE ReadRequest
  <2>0. gpc = "none" /\ exits = 0
    BY <1>1, TakeStep DEF ReadRequest, setup, handlerVars, AgentMsg
  <2>1. WireInv'
    BY <1>1, TakeStep DEF ReadRequest, Reads, setup, handlerVars, downloadVars, AgentMsg
  <2>2. CloseInv'
    BY <1>1, SayStep, SilentStep DEF ReadRequest, AnswerType, Bad, setup, handlerVars,
       downloadVars, JobInv, PlaceInv, ExitInv
  <2>3. PlaceInv' /\ ExitInv' /\ ExitOnce'
    BY <1>1, <2>0 DEF ReadRequest, setup, handlerVars, downloadVars, JobInv, PlaceInv,
       ExitInv, ExitOnce
  <2>4. NumbersInv' /\ SlotsExact'
    BY <1>1, <2>0 DEF ReadRequest, setup, handlerVars, downloadVars, JobInv, NumbersInv,
       PlaceInv, SlotsExact, Working
  <2> QED BY <2>1, <2>2, <2>3, <2>4 DEF JobInv
<1>2. CASE ReadCancel
  <2>0. kind = "download"
    BY <1>2, TakeStep DEF ReadCancel, setup, handlerVars, AgentMsg
  <2>1. WireInv'
    BY <1>2, TakeStep DEF ReadCancel, Reads, setup, handlerVars, slotVars, downloadVars,
       termVars, AgentMsg
  <2>2. CloseInv'
    BY <1>2, SilentStep DEF ReadCancel, setup, handlerVars, slotVars, downloadVars, termVars
  <2>3. PlaceInv' /\ ExitInv' /\ ExitOnce'
    BY <1>2, <2>0 DEF ReadCancel, setup, handlerVars, slotVars, downloadVars, termVars,
       JobInv, PlaceInv, ExitInv, ExitOnce
  <2>4. NumbersInv' /\ SlotsExact'
    BY <1>2, <2>0 DEF ReadCancel, setup, handlerVars, slotVars, downloadVars, termVars,
       JobInv, NumbersInv, PlaceInv, SlotsExact, Working
  <2> QED BY <2>1, <2>2, <2>3, <2>4 DEF JobInv
<1>3. CASE ReadCredit
  <2>1. WireInv'
    BY <1>3, TakeStep DEF ReadCredit, Reads, setup, handlerVars, slotVars, termVars,
       AgentMsg
  <2>2. CloseInv'
    BY <1>3, SilentStep DEF ReadCredit, setup, handlerVars, slotVars, termVars
  <2>3. PlaceInv' /\ ExitInv' /\ ExitOnce'
    BY <1>3 DEF ReadCredit, setup, handlerVars, slotVars, termVars, JobInv, PlaceInv,
       ExitInv, ExitOnce
  <2>4. NumbersInv' /\ SlotsExact'
    BY <1>3 DEF ReadCredit, setup, handlerVars, slotVars, termVars, JobInv, NumbersInv,
       PlaceInv, SlotsExact, Working
  <2> QED BY <2>1, <2>2, <2>3, <2>4 DEF JobInv
<1>4. CASE ReadInput
  <2>0. kind = "term"
    BY <1>4, TakeStep DEF ReadInput, setup, handlerVars, AgentMsg
  <2>1. WireInv'
    BY <1>4, TakeStep DEF ReadInput, Reads, setup, handlerVars, downloadVars, AgentMsg
  <2>2. CloseInv'
    BY <1>4, SilentStep DEF ReadInput, setup, handlerVars, downloadVars
  <2>3. PlaceInv' /\ ExitInv' /\ ExitOnce'
    BY <1>4, <2>0 DEF ReadInput, StopTerm, setup, handlerVars, downloadVars, JobInv,
       PlaceInv, ExitInv, ExitOnce
  <2>4. NumbersInv' /\ SlotsExact'
    <3>1. CASE StopTerm(TRUE) /\ entered /\ input' = input
      BY <1>4, <2>0, <3>1, StopStep DEF ReadInput, downloadVars, JobInv, NumbersInv, PlaceInv
    <3>2. CASE UNCHANGED <<stopped, slots>> /\ input' \in {input, input + 1}
      BY <1>4, <3>2 DEF ReadInput, downloadVars, JobInv, NumbersInv, SlotsExact, Working
    <3> QED BY <1>4, <3>1, <3>2 DEF ReadInput
  <2> QED BY <2>1, <2>2, <2>3, <2>4 DEF JobInv
<1>5. CASE ReadClose
  <2>0. kind = "term"
    BY <1>5, TakeStep DEF ReadClose, setup, handlerVars, AgentMsg
  <2>1. WireInv'
    BY <1>5, TakeStep DEF ReadClose, Reads, setup, handlerVars, downloadVars, termVars,
       AgentMsg
  <2>2. CloseInv'
    BY <1>5, SilentStep DEF ReadClose, setup, handlerVars, downloadVars, termVars
  <2>3. PlaceInv' /\ ExitInv' /\ ExitOnce'
    BY <1>5, <2>0 DEF ReadClose, StopTerm, EntryStopped, setup, handlerVars, downloadVars,
       termVars, JobInv, PlaceInv, ExitInv, ExitOnce
  <2>4. NumbersInv' /\ SlotsExact'
    BY <1>5, <2>0, StopStep DEF ReadClose, EntryStopped, downloadVars, termVars, JobInv,
       NumbersInv, PlaceInv
  <2> QED BY <2>1, <2>2, <2>3, <2>4 DEF JobInv
<1>6. CASE OtherJobStarts \/ OtherJobEnds
  <2>1. WireInv'
    BY <1>6, QuietStep DEF OtherJobStarts, OtherJobEnds, setup, handlerVars, jobVars,
       downloadVars, termVars, JobInv, PlaceInv
  <2>2. CloseInv'
    BY <1>6, SilentStep DEF OtherJobStarts, OtherJobEnds, setup, handlerVars, jobVars,
       downloadVars, termVars
  <2>3. PlaceInv' /\ ExitInv' /\ ExitOnce'
    BY <1>6 DEF OtherJobStarts, OtherJobEnds, setup, handlerVars, jobVars, downloadVars,
       termVars, JobInv, PlaceInv, ExitInv, ExitOnce
  <2>4. NumbersInv' /\ SlotsExact'
    BY <1>6 DEF OtherJobStarts, OtherJobEnds, setup, handlerVars, jobVars, downloadVars,
       termVars, JobInv, NumbersInv, PlaceInv, SlotsExact, Working
  <2> QED BY <2>1, <2>2, <2>3, <2>4 DEF JobInv
<1>7. CASE Sweep
  <2>1. WireInv'
    BY <1>7, QuietStep DEF Sweep, setup, handlerVars, downloadVars, termVars, JobInv,
       PlaceInv
  <2>2. CloseInv'
    BY <1>7, SilentStep DEF Sweep, setup, handlerVars, downloadVars, termVars
  <2>3. PlaceInv' /\ ExitInv' /\ ExitOnce'
    BY <1>7 DEF Sweep, StopTerm, setup, handlerVars, downloadVars, termVars, JobInv,
       PlaceInv, ExitInv, ExitOnce
  <2>4. NumbersInv' /\ SlotsExact'
    <3>1. CASE kind = "term"
      BY <1>7, <3>1, StopStep DEF Sweep, downloadVars, termVars, JobInv, NumbersInv, PlaceInv
    <3>2. CASE kind # "term"
      BY <1>7, <3>2 DEF Sweep, downloadVars, termVars, JobInv, NumbersInv, PlaceInv,
         SlotsExact, Working
    <3> QED BY <3>1, <3>2
  <2> QED BY <2>1, <2>2, <2>3, <2>4 DEF JobInv
<1> QED BY <1>1, <1>2, <1>3, <1>4, <1>5, <1>6, <1>7 DEF AgentReads

\* The goroutine of the job, and the notice that termInput has left behind.
LEMMA GoroutineStep ==
    ASSUME JobInv, Goroutine \/ WriteInput \/ ShellExits \/ SendNotice
    PROVE  JobInv'
<1>1. CASE CommandEnds \/ FileOpEnds
  <2>1. WireInv'
    BY <1>1, RunningStep DEF CommandEnds, FileOpEnds, ReportsResult, others, setup,
       handlerVars, downloadVars, termVars, JobInv, PlaceInv
  <2>2. CloseInv'
    BY <1>1, SayStep DEF CommandEnds, FileOpEnds, ReportsResult, Fine, Bad, others, setup,
       handlerVars, downloadVars, termVars, JobInv, PlaceInv, ExitInv
  <2>3. PlaceInv' /\ ExitInv' /\ ExitOnce'
    BY <1>1 DEF CommandEnds, FileOpEnds, ReportsResult, others, setup, handlerVars,
       downloadVars, termVars, JobInv, PlaceInv, ExitInv, ExitOnce
  <2>4. NumbersInv' /\ SlotsExact'
    BY <1>1 DEF CommandEnds, FileOpEnds, ReportsResult, others, setup, handlerVars,
       downloadVars, termVars, JobInv, NumbersInv, PlaceInv, SlotsExact, Working
  <2> QED BY <2>1, <2>2, <2>3, <2>4 DEF JobInv
<1>2. CASE ActionAccepted
  <2>1. WireInv'
    BY <1>2, RunningStep DEF ActionAccepted, others, setup, handlerVars, downloadVars,
       termVars, JobInv, PlaceInv
  <2>2. CloseInv'
    BY <1>2, SayStep DEF ActionAccepted, Fine, Bad, others, setup, handlerVars,
       downloadVars, termVars, JobInv, PlaceInv, ExitInv
  <2>3. PlaceInv' /\ ExitInv' /\ ExitOnce'
    BY <1>2 DEF ActionAccepted, others, setup, handlerVars, downloadVars, termVars, JobInv,
       PlaceInv, ExitInv, ExitOnce
  <2>4. NumbersInv' /\ SlotsExact'
    BY <1>2 DEF ActionAccepted, others, setup, handlerVars, downloadVars, termVars, JobInv,
       NumbersInv, PlaceInv, SlotsExact, Working
  <2> QED BY <2>1, <2>2, <2>3, <2>4 DEF JobInv
<1>3. CASE ActionEnds \/ ReleaseSlot
  <2>1. WireInv'
    BY <1>3, RunningStep DEF ActionEnds, ReleaseSlot, others, setup, handlerVars,
       downloadVars, termVars, JobInv, PlaceInv
  <2>2. CloseInv'
    BY <1>3, SilentStep DEF ActionEnds, ReleaseSlot, others, setup, handlerVars,
       downloadVars, termVars
  <2>3. PlaceInv' /\ ExitInv' /\ ExitOnce'
    BY <1>3 DEF ActionEnds, ReleaseSlot, others, setup, handlerVars, downloadVars, termVars,
       JobInv, PlaceInv, ExitInv, ExitOnce
  <2>4. NumbersInv' /\ SlotsExact'
    BY <1>3 DEF ActionEnds, ReleaseSlot, others, setup, handlerVars, downloadVars, termVars,
       JobInv, NumbersInv, PlaceInv, SlotsExact, Working
  <2> QED BY <2>1, <2>2, <2>3, <2>4 DEF JobInv
<1>4. CASE DownloadOpens
  <2>1. WireInv'
    BY <1>4, RunningStep DEF DownloadOpens, others, setup, handlerVars, termVars, JobInv,
       PlaceInv
  <2>2. CloseInv'
    BY <1>4, SayStep, SilentStep DEF DownloadOpens, Bad, others, setup, handlerVars,
       termVars, JobInv, PlaceInv, ExitInv
  <2>3. PlaceInv' /\ ExitInv' /\ ExitOnce'
    BY <1>4 DEF DownloadOpens, others, setup, handlerVars, termVars, JobInv, PlaceInv,
       ExitInv, ExitOnce
  <2>4. NumbersInv' /\ SlotsExact'
    BY <1>4 DEF DownloadOpens, others, setup, handlerVars, termVars, JobInv, NumbersInv,
       PlaceInv, SlotsExact, Working
  <2> QED BY <2>1, <2>2, <2>3, <2>4 DEF JobInv
<1>5. CASE SendMeta
  <2>1. WireInv'
    BY <1>5, RunningStep DEF SendMeta, others, setup, handlerVars, downloadVars, termVars,
       JobInv, PlaceInv
  <2>2. CloseInv'
    BY <1>5, SayStep DEF SendMeta, Fine, others, setup, handlerVars, downloadVars, termVars,
       JobInv, PlaceInv, ExitInv
  <2>3. PlaceInv' /\ ExitInv' /\ ExitOnce'
    BY <1>5 DEF SendMeta, AfterWrite, others, setup, handlerVars, downloadVars, termVars,
       JobInv, PlaceInv, ExitInv, ExitOnce
  <2>4. NumbersInv' /\ SlotsExact'
    BY <1>5 DEF SendMeta, AfterWrite, others, setup, handlerVars, downloadVars, termVars,
       JobInv, NumbersInv, PlaceInv, SlotsExact, Working
  <2> QED BY <2>1, <2>2, <2>3, <2>4 DEF JobInv
<1>6. CASE SendChunk
  <2>1. WireInv'
    BY <1>6, RunningStep DEF SendChunk, MayRead, others, setup, handlerVars, termVars,
       JobInv, PlaceInv
  <2>2. CloseInv'
    BY <1>6, SayStep DEF SendChunk, MayRead, others, setup, handlerVars, termVars, JobInv,
       PlaceInv, ExitInv
  <2>3. PlaceInv' /\ ExitInv' /\ ExitOnce'
    BY <1>6 DEF SendChunk, AfterWrite, MayRead, others, setup, handlerVars, termVars,
       JobInv, PlaceInv, ExitInv, ExitOnce
  <2>4. NumbersInv' /\ SlotsExact'
    BY <1>6 DEF SendChunk, AfterWrite, MayRead, others, setup, handlerVars, termVars,
       JobInv, NumbersInv, PlaceInv, SlotsExact, Working
  <2> QED BY <2>1, <2>2, <2>3, <2>4 DEF JobInv
<1>7. CASE ReadFails
  <2>1. WireInv'
    BY <1>7, RunningStep DEF ReadFails, MayRead, others, setup, handlerVars, termVars,
       JobInv, PlaceInv
  <2>2. CloseInv'
    BY <1>7, SayStep DEF ReadFails, MayRead, Bad, others, setup, handlerVars, termVars,
       JobInv, PlaceInv, ExitInv
  <2>3. PlaceInv' /\ ExitInv' /\ ExitOnce'
    BY <1>7 DEF ReadFails, MayRead, others, setup, handlerVars, termVars, JobInv, PlaceInv,
       ExitInv, ExitOnce
  <2>4. NumbersInv' /\ SlotsExact'
    BY <1>7 DEF ReadFails, MayRead, others, setup, handlerVars, termVars, JobInv,
       NumbersInv, PlaceInv, SlotsExact, Working
  <2> QED BY <2>1, <2>2, <2>3, <2>4 DEF JobInv
<1>8. CASE DownloadCancelled
  <2>1. WireInv'
    BY <1>8, RunningStep DEF DownloadCancelled, others, setup, handlerVars, downloadVars,
       termVars, JobInv, PlaceInv
  <2>2. CloseInv'
    BY <1>8, SilentStep DEF DownloadCancelled, others, setup, handlerVars, downloadVars,
       termVars
  <2>3. PlaceInv' /\ ExitInv' /\ ExitOnce'
    BY <1>8 DEF DownloadCancelled, others, setup, handlerVars, downloadVars, termVars,
       JobInv, PlaceInv, ExitInv, ExitOnce
  <2>4. NumbersInv' /\ SlotsExact'
    BY <1>8 DEF DownloadCancelled, others, setup, handlerVars, downloadVars, termVars,
       JobInv, NumbersInv, PlaceInv, SlotsExact, Working
  <2> QED BY <2>1, <2>2, <2>3, <2>4 DEF JobInv
<1>9. CASE SendEnd
  <2>1. WireInv'
    BY <1>9, RunningStep DEF SendEnd, others, setup, handlerVars, downloadVars, termVars,
       JobInv, PlaceInv
  <2>2. CloseInv'
    BY <1>9, SayStep DEF SendEnd, Fine, others, setup, handlerVars, downloadVars, termVars,
       JobInv, PlaceInv, ExitInv
  <2>3. PlaceInv' /\ ExitInv' /\ ExitOnce'
    BY <1>9 DEF SendEnd, others, setup, handlerVars, downloadVars, termVars, JobInv,
       PlaceInv, ExitInv, ExitOnce
  <2>4. NumbersInv' /\ SlotsExact'
    BY <1>9 DEF SendEnd, others, setup, handlerVars, downloadVars, termVars, JobInv,
       NumbersInv, PlaceInv, SlotsExact, Working
  <2> QED BY <2>1, <2>2, <2>3, <2>4 DEF JobInv
<1>10. CASE DownloadLeaves
  <2>1. WireInv'
    BY <1>10, RunningStep DEF DownloadLeaves, others, setup, handlerVars, downloadVars,
       termVars, JobInv, PlaceInv
  <2>2. CloseInv'
    BY <1>10, SilentStep DEF DownloadLeaves, others, setup, handlerVars, downloadVars,
       termVars
  <2>3. PlaceInv' /\ ExitInv' /\ ExitOnce'
    BY <1>10 DEF DownloadLeaves, others, setup, handlerVars, downloadVars, termVars, JobInv,
       PlaceInv, ExitInv, ExitOnce
  <2>4. NumbersInv' /\ SlotsExact'
    BY <1>10 DEF DownloadLeaves, others, setup, handlerVars, downloadVars, termVars, JobInv,
       NumbersInv, PlaceInv, SlotsExact, Working
  <2> QED BY <2>1, <2>2, <2>3, <2>4 DEF JobInv
<1>11. CASE TermStarts
  <2>1. WireInv'
    BY <1>11, RunningStep DEF TermStarts, others, setup, handlerVars, downloadVars, JobInv,
       PlaceInv
  <2>2. CloseInv'
    BY <1>11, SayStep, SilentStep DEF TermStarts, Bad, others, setup, handlerVars,
       downloadVars, JobInv, PlaceInv, ExitInv
  <2>3. PlaceInv' /\ ExitInv' /\ ExitOnce'
    BY <1>11 DEF TermStarts, others, setup, handlerVars, downloadVars, JobInv, PlaceInv,
       ExitInv, ExitOnce
  <2>4. NumbersInv' /\ SlotsExact'
    BY <1>11 DEF TermStarts, others, setup, handlerVars, downloadVars, JobInv, NumbersInv,
       PlaceInv, SlotsExact, Working
  <2> QED BY <2>1, <2>2, <2>3, <2>4 DEF JobInv
<1>12. CASE WriteInput
  <2>1. WireInv'
    BY <1>12, QuietStep DEF WriteInput, others, setup, handlerVars, downloadVars, JobInv,
       PlaceInv
  <2>2. CloseInv'
    BY <1>12, SilentStep DEF WriteInput, others, setup, handlerVars, downloadVars
  <2>3. PlaceInv' /\ ExitInv' /\ ExitOnce'
    BY <1>12 DEF WriteInput, StopTerm, others, setup, handlerVars, downloadVars, JobInv,
       PlaceInv, ExitInv, ExitOnce
  <2>4. NumbersInv' /\ SlotsExact'
    BY <1>12 DEF WriteInput, StopTerm, Released, others, setup, handlerVars, downloadVars,
       JobInv, NumbersInv, PlaceInv, SlotsExact, Working
  <2> QED BY <2>1, <2>2, <2>3, <2>4 DEF JobInv
<1>13. CASE ReadEnds \/ ShellExits
  <2>1. WireInv'
    BY <1>13, RunningStep DEF ReadEnds, ShellExits, others, setup, handlerVars,
       downloadVars, termVars, JobInv, PlaceInv
  <2>2. CloseInv'
    BY <1>13, SilentStep DEF ReadEnds, ShellExits, others, setup, handlerVars, downloadVars,
       termVars
  <2>3. PlaceInv' /\ ExitInv' /\ ExitOnce'
    BY <1>13 DEF ReadEnds, ShellExits, others, setup, handlerVars, downloadVars, termVars,
       JobInv, PlaceInv, ExitInv, ExitOnce
  <2>4. NumbersInv' /\ SlotsExact'
    BY <1>13 DEF ReadEnds, ShellExits, others, setup, handlerVars, downloadVars, termVars,
       JobInv, NumbersInv, PlaceInv, SlotsExact, Working
  <2> QED BY <2>1, <2>2, <2>3, <2>4 DEF JobInv
<1>14. CASE FinishTerm
  <2>1. WireInv'
    BY <1>14, RunningStep DEF FinishTerm, others, setup, handlerVars, downloadVars,
       termVars, JobInv, PlaceInv
  <2>2. CloseInv'
    BY <1>14, SilentStep DEF FinishTerm, others, setup, handlerVars, downloadVars, termVars
  <2>3. PlaceInv' /\ ExitInv' /\ ExitOnce'
    BY <1>14 DEF FinishTerm, StopTerm, Owned, others, setup, handlerVars, downloadVars,
       termVars, JobInv, PlaceInv, ExitInv, ExitOnce
  <2>4. NumbersInv' /\ SlotsExact'
    BY <1>14 DEF FinishTerm, StopTerm, Released, Owned, others, setup, handlerVars,
       downloadVars, termVars, JobInv, NumbersInv, PlaceInv, SlotsExact, Working
  <2> QED BY <2>1, <2>2, <2>3, <2>4 DEF JobInv
<1>15. CASE ReportExit
  <2>1. WireInv'
    BY <1>15, RunningStep DEF ReportExit, others, setup, handlerVars, downloadVars, JobInv,
       PlaceInv
  <2>2. CloseInv'
    BY <1>15, SayStep DEF ReportExit, Fine, others, setup, handlerVars, downloadVars,
       JobInv, PlaceInv, ExitInv
  <2>3. PlaceInv' /\ ExitInv' /\ ExitOnce'
    BY <1>15 DEF ReportExit, others, setup, handlerVars, downloadVars, JobInv, PlaceInv,
       ExitInv, ExitOnce
  <2>4. NumbersInv' /\ SlotsExact'
    BY <1>15 DEF ReportExit, others, setup, handlerVars, downloadVars, JobInv, NumbersInv,
       PlaceInv, SlotsExact, Working
  <2> QED BY <2>1, <2>2, <2>3, <2>4 DEF JobInv
<1>16. CASE SendNotice
  <2>1. WireInv'
    BY <1>16, RunningStep DEF SendNotice, others, setup, handlerVars, downloadVars, JobInv,
       PlaceInv
  <2>2. CloseInv'
    BY <1>16, SayStep DEF SendNotice, Bad, others, setup, handlerVars, downloadVars, JobInv,
       PlaceInv, ExitInv
  <2>3. PlaceInv' /\ ExitInv' /\ ExitOnce'
    BY <1>16 DEF SendNotice, others, setup, handlerVars, downloadVars, JobInv, PlaceInv,
       ExitInv, ExitOnce
  <2>4. NumbersInv' /\ SlotsExact'
    BY <1>16 DEF SendNotice, others, setup, handlerVars, downloadVars, JobInv, NumbersInv,
       PlaceInv, SlotsExact, Working
  <2> QED BY <2>1, <2>2, <2>3, <2>4 DEF JobInv
<1> QED
  BY <1>1, <1>2, <1>3, <1>4, <1>5, <1>6, <1>7, <1>8, <1>9, <1>10, <1>11, <1>12, <1>13, <1>14, <1>15, <1>16 DEF
       Goroutine

-----------------------------------------------------------------------------
(* The slots and the end of a terminal, in every state.                    *)

LEMMA JobInit == Init => JobInv
BY DEF Init, JobInv, NumbersInv, WireInv, CloseInv, PlaceInv, ExitInv, SlotsExact, Working,
       ExitOnce, AgentMsg

LEMMA JobStep == JobInv /\ [Next]_vars => JobInv'
<1> SUFFICES ASSUME JobInv, [Next]_vars PROVE JobInv'
  OBVIOUS
<1>1. CASE Next
  BY <1>1, HandlerStep, ReadStep, GoroutineStep DEF Next
<1>2. CASE UNCHANGED vars
  <2>1. UNCHANGED <<setup, slotVars, jobVars, handlerVars, toAgent, toServer>>
    BY <1>2 DEF vars
  <2>2. UNCHANGED <<kind, gpc, exits, hpc>>
    BY <2>1 DEF setup, jobVars, termVars, handlerVars
  <2>3. WireInv' /\ CloseInv'
    BY <2>1, <2>2, QuietStep, SilentStep
  <2> QED BY <2>1, <2>3, AgentSideStep DEF JobInv
<1> QED BY <1>1, <1>2

\* JobInv, the strengthening that relates the wire, the place of the goroutine and the
\* tables of the agent (cmd/agent/main.go, files.go), holds in every state.
THEOREM JobInvHolds == Spec => []JobInv
BY JobInit, JobStep, PTL DEF Spec

\* acquireSlot and release (cmd/agent/main.go): the slots of a kind in use are those of
\* the jobs at work, whatever ends a job and in whatever order its ends are handled.
THEOREM SlotsExactHolds == Spec => []SlotsExact
BY JobInvHolds, PTL DEF JobInv

\* finishTerm and termInput (cmd/agent/main.go): the end of a terminal is reported at
\* most once, since only one of them takes the entry out of the table.
THEOREM ExitOnceHolds == Spec => []ExitOnce
BY JobInvHolds, PTL DEF JobInv

-----------------------------------------------------------------------------
(* What the server and the agent leave alone.                              *)

ServerStep ==
    \/ Handler \/ Timeout \/ TypeKey \/ BrowserLeaves \/ ServerDrops \/ Shutdown
    \/ Deliver \/ LinkEnds \/ Redial

AgentStep ==
    \/ AgentReads \/ OtherJobStarts \/ OtherJobEnds \/ Sweep
    \/ Goroutine \/ WriteInput \/ ShellExits \/ SendNotice

LEMMA ServerFrame ==
    ASSUME ServerStep
    PROVE  UNCHANGED <<kind, credited, slots, taken, gpc, entered, stopped, size, read, credits,
                       input, notice, exits, missed>>
BY DEF ServerStep, Handler, Timeout, TypeKey, BrowserLeaves, ServerDrops, Shutdown, Deliver, LinkEnds,
       Redial, SendRequest, ReceiveResult, ReceiveFileResult, Answered, ReceiveMeta, ReceiveChunk,
       ReceiveEnd, PendingFailed, SendClose, setup, slotVars, jobVars, downloadVars, termVars

\* Once a message for the job is dropped, so are all that follow.
LEMMA TakesNoMore ==
    ASSUME TypeOK, ServerStep, Takes'
    PROVE  Takes
<1>1. registered' => registered
  BY DEF ServerStep, Handler, Timeout, TypeKey, BrowserLeaves, ServerDrops, Shutdown, Deliver, LinkEnds,
         Redial, SendRequest, ReceiveResult, ReceiveFileResult, Answered, ReceiveMeta, ReceiveChunk,
         ReceiveEnd, PendingFailed, SendClose, Deregistered
<1>2. pdone => pdone'
  BY DEF ServerStep, Handler, Timeout, TypeKey, BrowserLeaves, ServerDrops, Shutdown, Deliver, LinkEnds,
         Redial, SendRequest, ReceiveResult, ReceiveFileResult, Answered, ReceiveMeta, ReceiveChunk,
         ReceiveEnd, PendingFailed, SendClose, handlerVars, Overflows
<1>3. hpc' \in {"send", "wait"} => hpc \in {"send", "wait"}
  BY DEF ServerStep, Handler, Timeout, TypeKey, BrowserLeaves, ServerDrops, Shutdown, Deliver, LinkEnds,
         Redial, SendRequest, ReceiveResult, ReceiveFileResult, Answered, ReceiveMeta, ReceiveChunk,
         ReceiveEnd, PendingFailed, SendClose, handlerVars, Deregistered, Return, Receives
<1> QED BY <1>1, <1>2, <1>3 DEF Takes

LEMMA AgentFrame ==
    ASSUME AgentStep
    PROVE  /\ UNCHANGED <<kind, credited, registered, hpc, pend, pdone, meta, got, outcome, own>>
           /\ Takes' = Takes
<1>1. UNCHANGED <<kind, credited, registered, hpc, pend, pdone, meta, got, outcome, own>>
  BY DEF AgentStep, AgentReads, OtherJobStarts, OtherJobEnds, Sweep, Goroutine, WriteInput, ShellExits,
       SendNotice, ReadRequest, ReadCancel, ReadCredit, ReadInput, ReadClose, CommandEnds, FileOpEnds,
       ReportsResult, ActionAccepted, ActionEnds, ReleaseSlot, DownloadOpens, SendMeta, SendChunk,
       ReadFails, DownloadCancelled, SendEnd, DownloadLeaves, TermStarts, ReadEnds, FinishTerm,
       ReportExit, setup, handlerVars, others
<1> QED BY <1>1 DEF Takes

-----------------------------------------------------------------------------
(* Queues.                                                                 *)

LEMMA MsgFacts ==
    ASSUME NEW type \in {"result", "meta", "chunk", "end", "exit"}, NEW n \in -1..MaxChunks
    PROVE  Msg(type, n) \in ServerMsg /\ Msg(type, n).type = type /\ Msg(type, n).n = n
BY DEF Msg, ServerMsg

LEMMA ServerMsgFacts ==
    \A m \in ServerMsg : m.n \in -1..MaxChunks
BY DEF ServerMsg

LEMMA AppendFacts ==
    ASSUME NEW S, NEW q \in Seq(S), NEW m \in S
    PROVE  /\ Append(q, m) \in Seq(S)
           /\ Len(Append(q, m)) = Len(q) + 1
           /\ Append(q, m)[Len(q) + 1] = m
           /\ \A i \in 1..Len(q) : Append(q, m)[i] = q[i]
OBVIOUS

LEMMA TailFacts ==
    ASSUME NEW S, NEW q \in Seq(S), q # <<>>
    PROVE  /\ Len(q) \in Nat \ {0} /\ 1 \in 1..Len(q)
           /\ Head(q) \in S /\ Head(q) = q[1]
           /\ Tail(q) \in Seq(S)
           /\ Len(Tail(q)) = Len(q) - 1
           /\ \A i \in 1..Len(Tail(q)) : i + 1 \in 1..Len(q) /\ Tail(q)[i] = q[i + 1]
<1>1. Len(q) \in Nat \ {0} /\ Len(Tail(q)) = Len(q) - 1 /\ Tail(q) \in Seq(S)
  OBVIOUS
<1>2. \A i \in 1..(Len(q) - 1) : Tail(q)[i] = q[i + 1]
  OBVIOUS
<1> QED BY <1>1, <1>2

LEMMA LengthFacts ==
    ASSUME TypeOK
    PROVE  /\ Len(pend) \in Nat /\ Len(toServer) \in Nat /\ Len(toAgent) \in Nat /\ Len(got) \in Nat
           /\ read \in Nat /\ credits \in Nat /\ size \in Nat /\ Lead \in Nat
BY DEF TypeOK, Lead

\* The wire to the server has m at its end.
Grows(m) ==
    /\ toServer' \in Seq(ServerMsg) /\ Len(toServer') = Len(toServer) + 1
    /\ toServer'[Len(toServer) + 1] = m
    /\ \A i \in 1..Len(toServer) : toServer'[i] = toServer[i]

LEMMA SayFacts ==
    ASSUME TypeOK, NEW type \in {"result", "meta", "chunk", "end", "exit"}, NEW n \in -1..MaxChunks,
           Say(type, n)
    PROVE  IF Connected THEN Grows(Msg(type, n)) ELSE toServer' = toServer
<1>1. CASE Connected
  <2>1. toServer' = Append(toServer, Msg(type, n))
    BY <1>1 DEF Say
  <2> QED BY <1>1, <2>1, MsgFacts, AppendFacts DEF TypeOK, Grows
<1>2. CASE ~Connected
  BY <1>2 DEF Say
<1> QED BY <1>1, <1>2

\* A write of the handler: the wire to the agent has type at its end, or is as it was.
LEMMA PostFacts ==
    ASSUME TypeOK, NEW type \in AgentMsg, Post(type)
    PROVE  \/ toAgent' = toAgent
           \/ /\ toAgent' \in Seq(AgentMsg) /\ Len(toAgent') = Len(toAgent) + 1
              /\ toAgent'[Len(toAgent) + 1] = type
              /\ \A i \in 1..Len(toAgent) : toAgent'[i] = toAgent[i]
<1>1. CASE toAgent' = Append(toAgent, type)
  BY <1>1, AppendFacts DEF TypeOK
<1> QED BY <1>1 DEF Post

-----------------------------------------------------------------------------
(* Counters.                                                               *)

\* A chunk that the handler takes after the metadata is the next one.
LEMMA NextChunk ==
    ASSUME TypeOK, StreamInv, Receives("chunk"), meta
    PROVE  Head(pend).n = Len(got) + 1 /\ Head(pend).n \in 1..read
<1>1. pend \in Seq(ServerMsg) /\ pend # <<>> /\ Head(pend).type = "chunk"
  BY DEF Receives, TypeOK
<1>2. 1 \in 1..Len(pend) /\ Head(pend) = pend[1]
  BY <1>1, TailFacts
<1>3. pend[1].n \in 1..read /\ pend[1].n = Len(got) + 1 - Lead
  BY <1>1, <1>2 DEF StreamInv
<1>4. Lead = 0
  BY DEF Lead
<1> QED BY <1>2, <1>3, <1>4, LengthFacts

LEMMA GotGrows ==
    ASSUME TypeOK, StageInv, StreamInv, ServerStep, got' # got
    PROVE  /\ got' = Append(got, Len(got) + 1) /\ Len(got) + 1 \in 1..MaxChunks /\ Len(got) + 1 =< read
           /\ Len(got') = Len(got) + 1 /\ got'[Len(got) + 1] = Len(got) + 1
           /\ \A i \in 1..Len(got) : got'[i] = got[i]
           /\ got' \in Seq(1..MaxChunks)
           /\ ReceiveChunk /\ meta /\ meta' = meta /\ Receives("chunk")
<1>1. ReceiveChunk
  BY DEF ServerStep, Handler, Timeout, TypeKey, BrowserLeaves, ServerDrops, Shutdown, Deliver, LinkEnds,
         Redial, SendRequest, ReceiveResult, ReceiveFileResult, Answered, ReceiveMeta,
         ReceiveEnd, PendingFailed, SendClose, handlerVars
<1>2. meta /\ Receives("chunk") /\ got' = Append(got, Head(pend).n) /\ meta' = meta
  BY <1>1 DEF ReceiveChunk
<1>3. Head(pend).n = Len(got) + 1 /\ Len(got) + 1 \in 1..read
  BY <1>2, NextChunk
<1>4. Len(got) + 1 \in 1..MaxChunks /\ Len(got) + 1 =< read
  <2>1. read \in Nat /\ read =< MaxChunks /\ Len(got) \in Nat
    BY LengthFacts DEF TypeOK
  <2> QED BY <1>3, <2>1
<1>5. got' = Append(got, Len(got) + 1) /\ got \in Seq(1..MaxChunks)
  BY <1>2, <1>3 DEF TypeOK
<1> QED BY <1>1, <1>2, <1>4, <1>5, AppendFacts

LEMMA StageInvStep ==
    ASSUME TypeOK, JobInv, StageInv, CreditInv, StreamInv, Next
    PROVE  StageInv'
<1>1. CASE ServerStep
  <2>1. UNCHANGED <<kind, gpc, read, size, credits>>
    BY <1>1, ServerFrame
  <2>2. Len(got') =< read
    BY <1>1, GotGrows, LengthFacts DEF StageInv
  <2> QED BY <2>1, <2>2 DEF StageInv
<1>2. CASE AgentStep
  <2>0. UNCHANGED <<kind, got>> /\ kind \in Kind
    BY <1>2, AgentFrame DEF TypeOK
  <2>1. CASE ReadRequest
    <3>1. gpc = "none"
      BY <2>1, TakeStep DEF ReadRequest, setup, handlerVars, AgentMsg
    <3> QED BY <2>0, <2>1, <3>1 DEF ReadRequest, StageInv, downloadVars
  <2>2. CASE ReadCredit
    <3>1. toAgent \in Seq(AgentMsg) /\ toAgent # <<>> /\ Head(toAgent) = "credit"
      BY <2>2 DEF ReadCredit, Reads, TypeOK
    <3>2. gpc \notin {"none", "start"}
      BY <3>1, TailFacts DEF CreditInv
    <3> QED BY <2>0, <2>2, <3>2 DEF ReadCredit, StageInv
  <2>3. CASE ReadCancel \/ ReadInput \/ ReadClose \/ Sweep \/ OtherJobStarts \/ OtherJobEnds \/ WriteInput
             \/ SendNotice
    BY <2>0, <2>3 DEF ReadCancel, ReadInput, ReadClose, Sweep, OtherJobStarts, OtherJobEnds, WriteInput,
       SendNotice, StageInv, downloadVars, jobVars
  <2>4. CASE DownloadOpens
    BY <2>0, <2>4, LengthFacts DEF DownloadOpens, StageInv
  <2>5. CASE SendMeta \/ DownloadCancelled \/ SendEnd \/ DownloadLeaves
    BY <2>0, <2>5 DEF SendMeta, DownloadCancelled, SendEnd, DownloadLeaves, AfterWrite, StageInv, downloadVars
  <2>6. CASE SendChunk \/ ReadFails
    BY <2>0, <2>6, LengthFacts DEF SendChunk, ReadFails, MayRead, AfterWrite, StageInv
  <2>7. CASE CommandEnds \/ FileOpEnds \/ ActionAccepted \/ ActionEnds \/ ReleaseSlot \/ TermStarts \/ ReadEnds
             \/ FinishTerm \/ ReportExit \/ ShellExits
    BY <2>0, <2>7 DEF CommandEnds, FileOpEnds, ReportsResult, ActionAccepted, ActionEnds, ReleaseSlot,
       TermStarts, ReadEnds, FinishTerm, ReportExit, ShellExits, StageInv, downloadVars
  <2> QED BY <1>2, <2>1, <2>2, <2>3, <2>4, <2>5, <2>6, <2>7 DEF AgentStep, AgentReads, Goroutine
<1> QED BY <1>1, <1>2 DEF Next, ServerStep, AgentStep

-----------------------------------------------------------------------------
(* The stream of chunks.                                                   *)

\* The agent sends m, or nothing; the handler's half is left alone.
LEMMA StreamGrows ==
    ASSUME TypeOK, StreamInv, NEW m \in ServerMsg, toServer' = toServer \/ Grows(m),
           UNCHANGED <<pend, got, meta>>, Takes' = Takes, read' \in Nat, read =< read',
           gpc \in {"close", "exit", "done"} => gpc' \in {"close", "exit", "done"},
           m.type = "chunk" => m.n \in 1..read' /\ (Takes => m.n = Len(got) + Len(pend) + Len(toServer) + 1 - Lead),
           m.type = "meta" => toServer = <<>> /\ pend = <<>> /\ ~meta,
           m.type = "end" /\ m.n = Fine => gpc' \in {"close", "exit", "done"}
    PROVE  StreamInv'
<1>0. Lead' = Lead
  BY DEF Lead
<1>1. 1..read \subseteq 1..read'
  BY LengthFacts
<1>2. \A i \in 1..Len(toServer') :
          \/ i \in 1..Len(toServer) /\ toServer'[i] = toServer[i]
          \/ i = Len(toServer) + 1 /\ toServer'[i] = m
  <2>1. CASE toServer' = toServer
    BY <2>1
  <2>2. CASE Grows(m)
    <3>1. Len(toServer') = Len(toServer) + 1 /\ Len(toServer) \in Nat
      BY <2>2, LengthFacts DEF Grows
    <3>2. \A i \in 1..Len(toServer') : i \in 1..Len(toServer) \/ i = Len(toServer) + 1
      BY <3>1
    <3> QED BY <2>2, <3>2 DEF Grows
  <2> QED BY <2>1, <2>2
<1>3. \A i \in 1..Len(toServer') :
          /\ toServer'[i].type = "chunk" =>
                toServer'[i].n \in 1..read' /\ (Takes => toServer'[i].n = Len(got) + Len(pend) + i - Lead)
          /\ toServer'[i].type = "meta" /\ Takes => i = 1 /\ pend = <<>> /\ ~meta
          /\ toServer'[i].type = "end" /\ toServer'[i].n = Fine => gpc' \in {"close", "exit", "done"}
  <2> TAKE i \in 1..Len(toServer')
  <2>1. CASE i \in 1..Len(toServer) /\ toServer'[i] = toServer[i]
    BY <1>1, <2>1 DEF StreamInv
  <2>2. CASE i = Len(toServer) + 1 /\ toServer'[i] = m
    <3>1. Len(got) + Len(pend) + i - Lead = Len(got) + Len(pend) + Len(toServer) + 1 - Lead
      BY <2>2, LengthFacts
    <3>2. toServer = <<>> => i = 1
      BY <2>2
    <3> QED BY <2>2, <3>1, <3>2
  <2> QED BY <1>2, <2>1, <2>2
<1>4. \A i \in 1..Len(pend) :
          /\ pend[i].type = "chunk" => pend[i].n \in 1..read' /\ pend[i].n = Len(got) + i - Lead
          /\ pend[i].type = "meta" => i = 1 /\ ~meta
          /\ pend[i].type = "end" /\ pend[i].n = Fine => gpc' \in {"close", "exit", "done"}
  BY <1>1 DEF StreamInv
<1> QED BY <1>0, <1>3, <1>4 DEF StreamInv

\* The agent sends nothing.
LEMMA StreamSilent ==
    ASSUME TypeOK, StreamInv, AgentStep, UNCHANGED <<toServer, read>>,
           gpc \in {"close", "exit", "done"} => gpc' \in {"close", "exit", "done"}
    PROVE  StreamInv'
<1>1. UNCHANGED <<pend, got, meta>> /\ Takes' = Takes /\ read \in Nat
  BY AgentFrame, LengthFacts
<1>2. Msg("exit", 0) \in ServerMsg /\ Msg("exit", 0).type = "exit"
  BY MsgFacts
<1> QED BY <1>1, <1>2, StreamGrows

LEMMA StreamInvAgent ==
    ASSUME TypeOK, JobInv, BeginInv, StageInv, StreamInv, PipeInv, AgentStep
    PROVE  StreamInv'
<1>0. UNCHANGED <<pend, got, meta>> /\ Takes' = Takes /\ read \in Nat /\ kind \in Kind
  BY AgentFrame, LengthFacts DEF TypeOK
<1>1. CASE ReadCancel \/ ReadCredit \/ ReadInput \/ ReadClose \/ Sweep \/ OtherJobStarts \/ OtherJobEnds
           \/ WriteInput \/ ActionEnds \/ ReleaseSlot \/ DownloadCancelled \/ DownloadLeaves
           \/ ReadEnds \/ FinishTerm \/ ShellExits
  BY <1>1, StreamSilent DEF ReadCancel, ReadCredit, ReadInput, ReadClose, Sweep, OtherJobStarts, OtherJobEnds,
     WriteInput, ActionEnds, ReleaseSlot, DownloadCancelled, DownloadLeaves, ReadEnds, FinishTerm,
     ShellExits, downloadVars, jobVars
<1>2. ASSUME NEW type \in {"result", "exit", "end"}, NEW n \in {Fine, Bad}, Say(type, n), read' = read,
             type = "end" => n = Bad,
             gpc \in {"close", "exit", "done"} => gpc' \in {"close", "exit", "done"}
      PROVE  StreamInv'
  <2>1. n \in -1..MaxChunks /\ Bad # Fine
    BY DEF Fine, Bad
  <2>2. toServer' = toServer \/ Grows(Msg(type, n))
    BY <1>2, <2>1, SayFacts
  <2>3. Msg(type, n) \in ServerMsg /\ Msg(type, n).type = type /\ Msg(type, n).n = n
    BY <2>1, MsgFacts
  <2> QED BY <1>0, <1>2, <2>1, <2>2, <2>3, StreamGrows
<1>3. CASE ReadRequest
  <2>1. Bad \in {Fine, Bad} /\ AnswerType \in {"result", "exit", "end"} /\ read' = read
    BY <1>0, <1>3 DEF AnswerType, ReadRequest, downloadVars
  <2>2. gpc = "none"
    BY <1>3, TakeStep DEF ReadRequest, setup, handlerVars, AgentMsg
  <2>3. CASE toServer' = toServer
    BY <1>3, <2>1, <2>2, <2>3, StreamSilent
  <2>4. CASE Say(AnswerType, Bad)
    BY <1>2, <2>1, <2>2, <2>4
  <2> QED BY <1>3, <2>3, <2>4 DEF ReadRequest
<1>4. CASE CommandEnds \/ FileOpEnds \/ ActionAccepted
  BY <1>2, <1>4 DEF CommandEnds, FileOpEnds, ReportsResult, ActionAccepted, downloadVars
<1>5. CASE TermStarts \/ ReportExit \/ SendNotice
  <2>1. read' = read /\ (gpc \in {"close", "exit", "done"} => gpc' \in {"close", "exit", "done"})
    BY <1>5 DEF TermStarts, ReportExit, SendNotice, downloadVars
  <2>2. toServer' = toServer \/ Say("exit", Fine) \/ Say("exit", Bad)
    BY <1>5 DEF TermStarts, ReportExit, SendNotice
  <2> QED BY <1>2, <1>5, <2>1, <2>2, StreamSilent
<1>6. CASE DownloadOpens \/ ReadFails
  <2>1. read' = read /\ (gpc \in {"close", "exit", "done"} => gpc' \in {"close", "exit", "done"})
    BY <1>6 DEF DownloadOpens, ReadFails, MayRead
  <2>2. toServer' = toServer \/ Say("end", Bad)
    BY <1>6 DEF DownloadOpens, ReadFails
  <2> QED BY <1>2, <1>6, <2>1, <2>2, StreamSilent
<1>7. CASE SendMeta
  <2>1. /\ gpc = "meta" /\ Say("meta", Fine) /\ read' = read /\ pend = <<>> /\ toServer = <<>> /\ ~meta
        /\ Fine \in -1..MaxChunks
    BY <1>7 DEF SendMeta, downloadVars, BeginInv, Fresh, Fine
  <2>2. toServer' = toServer \/ Grows(Msg("meta", Fine))
    BY <2>1, SayFacts
  <2>3. Msg("meta", Fine) \in ServerMsg /\ Msg("meta", Fine).type = "meta"
    BY <2>1, MsgFacts
  <2> QED BY <1>0, <2>1, <2>2, <2>3, StreamGrows
<1>8. CASE SendChunk
  <2>1. gpc = "stream" /\ read < size /\ Say("chunk", read + 1) /\ read' = read + 1 /\ kind = "download"
    BY <1>8 DEF SendChunk, MayRead, StageInv
  <2>2. read + 1 \in -1..MaxChunks /\ read + 1 \in 1..read' /\ read' \in Nat /\ read =< read'
    BY <1>0, <2>1 DEF TypeOK
  <2>3. toServer' = toServer \/ Grows(Msg("chunk", read + 1))
    BY <2>1, <2>2, SayFacts
  <2>4. /\ Msg("chunk", read + 1) \in ServerMsg /\ Msg("chunk", read + 1).type = "chunk"
        /\ Msg("chunk", read + 1).n = read + 1
    BY <2>2, MsgFacts
  <2>5. Takes => read + 1 = Len(got) + Len(pend) + Len(toServer) + 1 - Lead
    <3>1. Takes => Len(pend) + Len(toServer) = read - Len(got) + Lead
      BY <2>1 DEF PipeInv
    <3> QED BY <3>1, LengthFacts
  <2> QED BY <1>0, <2>1, <2>2, <2>3, <2>4, <2>5, StreamGrows
<1>9. CASE SendEnd
  <2>1. gpc' = "close" /\ Say("end", Fine) /\ read' = read /\ Fine \in -1..MaxChunks
    BY <1>9 DEF SendEnd, downloadVars, Fine
  <2>2. toServer' = toServer \/ Grows(Msg("end", Fine))
    BY <2>1, SayFacts
  <2>3. Msg("end", Fine) \in ServerMsg /\ Msg("end", Fine).type = "end"
    BY <2>1, MsgFacts
  <2> QED BY <1>0, <2>1, <2>2, <2>3, StreamGrows
<1> QED BY <1>1, <1>3, <1>4, <1>5, <1>6, <1>7, <1>8, <1>9 DEF AgentStep, AgentReads, Goroutine

\* The handler takes the first message of its channel.
LEMMA StreamTakes ==
    ASSUME TypeOK, StreamInv, pend # <<>>, pend' = Tail(pend), UNCHANGED <<toServer, read, gpc>>,
           Takes' => Takes, Len(got') - Lead' = Len(got) - Lead + 1,
           Len(got') \in Nat, Lead' \in Nat
    PROVE  StreamInv'
<1> DEFINE g == Len(got')
           l == Lead'
<1> HIDE DEF g, l
<1>0. g \in Nat /\ l \in Nat /\ g - l = Len(got) - Lead + 1
  BY DEF g, l
<1>9. Len(got) \in Nat /\ Lead \in Nat /\ Len(pend) \in Nat
  BY LengthFacts
<1>1. /\ Len(pend') = Len(pend) - 1 /\ Len(pend) \in Nat
      /\ \A i \in 1..Len(pend') : i + 1 \in 1..Len(pend) /\ pend'[i] = pend[i + 1]
  BY TailFacts DEF TypeOK
<1>2. \A i \in 1..Len(pend') :
          /\ pend'[i].type = "chunk" => pend'[i].n \in 1..read /\ pend'[i].n = g + i - l
          /\ pend'[i].type = "meta" => FALSE
          /\ pend'[i].type = "end" /\ pend'[i].n = Fine => gpc \in {"close", "exit", "done"}
  <2> TAKE i \in 1..Len(pend')
  <2>1. i + 1 \in 1..Len(pend) /\ pend'[i] = pend[i + 1] /\ i + 1 # 1 /\ i \in Nat
    BY <1>1
  <2>2. Len(got) + (i + 1) - Lead = g + i - l
    BY <1>0, <1>9, <2>1
  <2> QED BY <2>1, <2>2 DEF StreamInv
<1>3. \A i \in 1..Len(toServer) :
          /\ toServer[i].type = "chunk" =>
                toServer[i].n \in 1..read /\ (Takes' => toServer[i].n = g + Len(pend') + i - l)
          /\ toServer[i].type = "meta" /\ Takes' => FALSE
          /\ toServer[i].type = "end" /\ toServer[i].n = Fine => gpc \in {"close", "exit", "done"}
  <2> TAKE i \in 1..Len(toServer)
  <2>1. Len(got) + Len(pend) + i - Lead = g + Len(pend') + i - l
    <3>1. Len(pend') = Len(pend) - 1 /\ i \in Nat
      BY <1>1
    <3> QED BY <1>0, <1>9, <3>1
  <2> QED BY <2>1 DEF StreamInv
<1> QED BY <1>2, <1>3 DEF StreamInv, g, l

LEMMA StreamInvServer ==
    ASSUME TypeOK, JobInv, StageInv, StreamInv, ServerStep
    PROVE  StreamInv'
<1>0. UNCHANGED <<gpc, read>> /\ (Takes' => Takes)
  BY ServerFrame, TakesNoMore
<1>1. ASSUME hpc' = "done", pend' = <<>>, toServer' = toServer
      PROVE  StreamInv'
  <2>1. ~Takes'
    BY <1>1 DEF Takes
  <2> QED BY <1>0, <1>1, <2>1 DEF StreamInv
<1>2. CASE UNCHANGED <<pend, toServer, got, meta>>
  <2>1. Lead' = Lead
    BY <1>2 DEF Lead
  <2> QED BY <1>0, <1>2, <2>1 DEF StreamInv
<1>3. CASE ReceiveResult \/ ReceiveFileResult \/ ReceiveEnd \/ PendingFailed \/ Timeout \/ SendClose
  BY <1>1, <1>3 DEF ReceiveResult, ReceiveFileResult, Answered, ReceiveEnd, PendingFailed, Timeout,
     SendClose, Return
<1>4. CASE SendRequest
  BY <1>1, <1>2, <1>4 DEF SendRequest, Return
<1>5. CASE TypeKey \/ BrowserLeaves \/ ServerDrops \/ Shutdown \/ LinkEnds \/ Redial
  BY <1>2, <1>5 DEF TypeKey, BrowserLeaves, ServerDrops, Shutdown, LinkEnds, Redial, handlerVars
<1>6. CASE ReceiveMeta
  <2>1. CASE meta' = TRUE /\ pend' = Tail(pend)
    <3>1. pend # <<>> /\ Head(pend).type = "meta" /\ UNCHANGED <<toServer, got>>
      BY <1>6 DEF ReceiveMeta, Receives
    <3>2. ~meta
      BY <3>1, TailFacts DEF TypeOK, StreamInv
    <3>3. Lead = 1 /\ Lead' = 0
      BY <2>1, <3>2 DEF Lead
    <3>4. Len(got') - Lead' = Len(got) - Lead + 1 /\ Len(got') \in Nat
      BY <3>1, <3>3, LengthFacts
    <3> QED BY <1>0, <2>1, <3>1, <3>3, <3>4, StreamTakes
  <2> QED BY <1>1, <1>6, <2>1 DEF ReceiveMeta, Return
<1>7. CASE ReceiveChunk
  <2>1. CASE pend' = Tail(pend) /\ hpc' = hpc
    <3>1. pend # <<>> /\ toServer' = toServer /\ got' = Append(got, Head(pend).n)
          /\ meta /\ meta' = meta /\ hpc = "wait"
      BY <1>7, <2>1 DEF ReceiveChunk, Receives, Return
    <3>2. Receives("chunk")
      BY <1>7 DEF ReceiveChunk
    <3>3. Head(pend).n \in 1..MaxChunks
      BY <3>1, <3>2, NextChunk DEF TypeOK
    <3>4. Len(got') = Len(got) + 1
      BY <3>1, <3>3, AppendFacts DEF TypeOK
    <3>5. Lead = 0 /\ Lead' = 0
      BY <3>1 DEF Lead
    <3>6. Len(got') - Lead' = Len(got) - Lead + 1 /\ Len(got') \in Nat
      BY <3>4, <3>5, LengthFacts
    <3> QED BY <1>0, <2>1, <3>1, <3>5, <3>6, StreamTakes
  <2> QED BY <1>1, <1>7, <2>1 DEF ReceiveChunk, Return
<1>8. CASE Deliver
  <2>0. toServer # <<>> /\ toServer' = Tail(toServer) /\ UNCHANGED <<got, meta>> /\ Lead' = Lead
    BY <1>8 DEF Deliver, Lead
  <2>1. /\ Len(toServer') = Len(toServer) - 1 /\ Len(toServer) \in Nat \ {0}
        /\ Head(toServer) = toServer[1] /\ 1 \in 1..Len(toServer) /\ toServer[1] \in ServerMsg
        /\ \A i \in 1..Len(toServer') : i + 1 \in 1..Len(toServer) /\ toServer'[i] = toServer[i + 1]
    BY <2>0, TailFacts DEF TypeOK
  <2>2. CASE pend' = pend /\ ~Takes'
    <3>1. \A i \in 1..Len(toServer') :
              /\ toServer'[i].type = "chunk" => toServer'[i].n \in 1..read
              /\ toServer'[i].type = "end" /\ toServer'[i].n = Fine => gpc \in {"close", "exit", "done"}
      BY <2>1 DEF StreamInv
    <3> QED BY <1>0, <2>0, <2>2, <3>1 DEF StreamInv
  <2>3. CASE Takes /\ pend' = Append(pend, Head(toServer))
    <3>1. /\ Len(pend') = Len(pend) + 1 /\ pend'[Len(pend) + 1] = toServer[1]
          /\ \A i \in 1..Len(pend) : pend'[i] = pend[i]
      BY <2>1, <2>3, AppendFacts DEF TypeOK
    <3>2. \A i \in 1..Len(pend') :
              /\ pend'[i].type = "chunk" => pend'[i].n \in 1..read /\ pend'[i].n = Len(got) + i - Lead
              /\ pend'[i].type = "meta" => i = 1 /\ ~meta
              /\ pend'[i].type = "end" /\ pend'[i].n = Fine => gpc \in {"close", "exit", "done"}
      <4> TAKE i \in 1..Len(pend')
      <4>1. CASE i \in 1..Len(pend)
        BY <3>1, <4>1 DEF StreamInv
      <4>2. CASE i = Len(pend) + 1
        <5>1. Len(got) + Len(pend) + 1 - Lead = Len(got) + i - Lead
          BY <4>2, LengthFacts
        <5>2. pend = <<>> => i = 1
          BY <4>2
        <5> QED BY <2>1, <2>3, <3>1, <4>2, <5>1, <5>2 DEF StreamInv
      <4> QED BY <3>1, <4>1, <4>2, LengthFacts
    <3>3. \A i \in 1..Len(toServer') :
              /\ toServer'[i].type = "chunk" =>
                    toServer'[i].n \in 1..read /\ toServer'[i].n = Len(got) + Len(pend') + i - Lead
              /\ toServer'[i].type # "meta"
              /\ toServer'[i].type = "end" /\ toServer'[i].n = Fine => gpc \in {"close", "exit", "done"}
      <4> TAKE i \in 1..Len(toServer')
      <4>1. i + 1 \in 1..Len(toServer) /\ toServer'[i] = toServer[i + 1] /\ i + 1 # 1 /\ i \in Nat
        BY <2>1
      <4>2. Len(got) + Len(pend) + (i + 1) - Lead = Len(got) + Len(pend') + i - Lead
        BY <3>1, <4>1, LengthFacts
      <4> QED BY <2>3, <4>1, <4>2 DEF StreamInv
    <3> QED BY <1>0, <2>0, <3>2, <3>3 DEF StreamInv
  <2>4. (pend' = pend /\ ~Takes') \/ (Takes /\ pend' = Append(pend, Head(toServer)))
    <3>1. CASE ~Takes
      BY <1>0, <1>8, <3>1 DEF Deliver
    <3>2. CASE Takes /\ Head(toServer).type = "exit"
      BY <1>8, <3>2 DEF Deliver, Takes
    <3>3. CASE Takes /\ Head(toServer).type # "exit" /\ Len(pend) < PendingCap
      BY <1>8, <3>3, LengthFacts DEF Deliver
    <3>4. CASE Takes /\ Head(toServer).type # "exit" /\ Len(pend) >= PendingCap
      BY <1>8, <3>4, LengthFacts DEF Deliver, Takes, Overflows
    <3> QED BY <3>1, <3>2, <3>3, <3>4, LengthFacts
  <2> QED BY <2>2, <2>3, <2>4
<1> QED BY <1>3, <1>4, <1>5, <1>6, <1>7, <1>8 DEF ServerStep, Handler

LEMMA StreamInvStep ==
    ASSUME TypeOK, JobInv, BeginInv, StageInv, StreamInv, PipeInv, Next
    PROVE  StreamInv'
BY StreamInvServer, StreamInvAgent DEF Next, ServerStep, AgentStep

-----------------------------------------------------------------------------
(* Where the goroutine goes.                                               *)

LEMMA PlaceStep ==
    ASSUME TypeOK, JobInv, StageInv, AgentStep
    PROVE  /\ gpc \in {"close", "exit", "done"} => gpc' \in {"close", "exit", "done"}
           /\ gpc \notin {"none", "start"} => gpc' \notin {"none", "start"}
           /\ gpc # "start" => size' = size
           /\ gpc' = "stream" => gpc = "stream" \/ SendMeta
           /\ gpc' = "meta" => gpc = "meta" \/ DownloadOpens
           /\ gpc' = "start" => gpc = "start" \/ ReadRequest
           /\ ~(\/ ReadRequest \/ CommandEnds \/ FileOpEnds \/ ActionAccepted \/ DownloadOpens \/ SendMeta
               \/ SendChunk \/ ReadFails \/ SendEnd \/ TermStarts \/ ReportExit \/ SendNotice) =>
                 UNCHANGED <<toServer, read>>
<1>1. CASE ReadRequest
  <2>1. gpc = "none"
    BY <1>1, TakeStep DEF ReadRequest, setup, handlerVars, AgentMsg
  <2> QED BY <1>1, <2>1 DEF ReadRequest, downloadVars
<1>2. CASE ReadCancel \/ ReadCredit \/ ReadInput \/ ReadClose \/ Sweep \/ OtherJobStarts \/ OtherJobEnds
           \/ WriteInput \/ SendNotice
  BY <1>2 DEF ReadCancel, ReadCredit, ReadInput, ReadClose, Sweep, OtherJobStarts, OtherJobEnds,
     WriteInput, SendNotice, downloadVars, jobVars
<1>3. CASE CommandEnds \/ FileOpEnds \/ ActionAccepted \/ ActionEnds \/ ReleaseSlot \/ TermStarts \/ ReadEnds
           \/ FinishTerm \/ ReportExit \/ ShellExits
  BY <1>3 DEF CommandEnds, FileOpEnds, ReportsResult, ActionAccepted, ActionEnds, ReleaseSlot,
     TermStarts, ReadEnds, FinishTerm, ReportExit, ShellExits, downloadVars
<1>4. CASE DownloadOpens \/ SendMeta \/ SendChunk \/ ReadFails \/ DownloadCancelled \/ SendEnd \/ DownloadLeaves
  BY <1>4 DEF DownloadOpens, SendMeta, SendChunk, ReadFails, MayRead, DownloadCancelled, SendEnd,
     DownloadLeaves, AfterWrite, downloadVars
<1> QED BY <1>1, <1>2, <1>3, <1>4 DEF AgentStep, AgentReads, Goroutine

-----------------------------------------------------------------------------
(* What is under way to the handler.                                       *)

\* The handler has taken a message, or the wire has been left to the next reader.
LEMMA ServerCounts ==
    ASSUME TypeOK, StageInv, StreamInv, ServerStep
    PROVE  \/ UNCHANGED <<pend, toServer, got, meta>>
           \/ ~Takes' /\ pend' = <<>> /\ toServer' = toServer /\ hpc' = "done"
           \/ /\ kind = "download" /\ hpc = "wait" /\ hpc' = "wait" /\ toServer' = toServer
              /\ pend # <<>> /\ Len(pend') = Len(pend) - 1
              /\ \/ meta' /\ ~meta /\ got' = got
                 \/ meta' = meta /\ Len(got') = Len(got) + 1
           \/ Deliver /\ UNCHANGED <<got, meta>>
<1>1. CASE ReceiveResult \/ ReceiveFileResult \/ ReceiveEnd \/ PendingFailed \/ Timeout \/ SendClose
  BY <1>1 DEF ReceiveResult, ReceiveFileResult, Answered, ReceiveEnd, PendingFailed, Timeout,
     SendClose, Return, Takes
<1>2. CASE SendRequest
  BY <1>2 DEF SendRequest, Return, Takes
<1>3. CASE TypeKey \/ BrowserLeaves \/ ServerDrops \/ Shutdown \/ LinkEnds \/ Redial
  BY <1>3 DEF TypeKey, BrowserLeaves, ServerDrops, Shutdown, LinkEnds, Redial, handlerVars
<1>4. CASE ReceiveMeta
  <2>1. CASE meta' = TRUE /\ pend' = Tail(pend)
    <3>1. /\ pend # <<>> /\ Head(pend).type = "meta" /\ UNCHANGED <<toServer, got>>
          /\ hpc = "wait" /\ kind = "download"
      BY <1>4 DEF ReceiveMeta, Receives
    <3>2. ~meta /\ Len(pend') = Len(pend) - 1
      BY <2>1, <3>1, TailFacts DEF TypeOK, StreamInv
    <3>3. hpc' = "wait"
      BY <1>4, <2>1, <3>1, <3>2 DEF ReceiveMeta
    <3> QED BY <2>1, <3>1, <3>2, <3>3
  <2> QED BY <1>4, <2>1 DEF ReceiveMeta, Return, Takes
<1>5. CASE ReceiveChunk
  <2>1. CASE pend' = Tail(pend) /\ hpc' = hpc
    <3>1. /\ pend # <<>> /\ toServer' = toServer /\ got' = Append(got, Head(pend).n)
          /\ meta /\ meta' = meta /\ hpc = "wait" /\ kind = "download"
      BY <1>5, <2>1 DEF ReceiveChunk, Receives, Return
    <3>2. Receives("chunk")
      BY <1>5 DEF ReceiveChunk
    <3>3. Head(pend).n \in 1..MaxChunks
      BY <3>1, <3>2, NextChunk DEF TypeOK
    <3>4. Len(got') = Len(got) + 1
      BY <3>1, <3>3, AppendFacts DEF TypeOK
    <3>5. Len(pend') = Len(pend) - 1
      BY <2>1, <3>1, TailFacts DEF TypeOK
    <3> QED BY <2>1, <3>1, <3>4, <3>5
  <2> QED BY <1>5, <2>1 DEF ReceiveChunk, Return, Takes
<1>6. CASE Deliver
  BY <1>6 DEF Deliver
<1> QED BY <1>1, <1>2, <1>3, <1>4, <1>5, <1>6 DEF ServerStep, Handler

\* Either the message goes from the wire to the channel, or it is dropped.
LEMMA DeliverCounts ==
    ASSUME TypeOK, Deliver
    PROVE  /\ toServer # <<>> /\ Len(toServer) > 0 /\ Len(toServer') = Len(toServer) - 1
           /\ \A i \in 1..Len(toServer') : i + 1 \in 1..Len(toServer) /\ toServer'[i] = toServer[i + 1]
           /\ \/ pend' = pend /\ ~Takes'
              \/ /\ Takes /\ Len(pend') = Len(pend) + 1 /\ toServer[1].type # "exit"
                 /\ pend' \in Seq(ServerMsg) /\ Len(pend') =< PendingCap
<1>1. toServer # <<>> /\ toServer' = Tail(toServer)
  BY DEF Deliver
<1>2. /\ Len(toServer) > 0 /\ Len(toServer') = Len(toServer) - 1 /\ Head(toServer) = toServer[1]
      /\ Head(toServer) \in ServerMsg
      /\ \A i \in 1..Len(toServer') : i + 1 \in 1..Len(toServer) /\ toServer'[i] = toServer[i + 1]
  BY <1>1, TailFacts DEF TypeOK
<1>3. CASE ~Takes
  BY <1>1, <1>2, <1>3, TakesNoMore DEF Deliver, ServerStep
<1>4. CASE Takes /\ Head(toServer).type = "exit"
  BY <1>1, <1>2, <1>4 DEF Deliver, Takes
<1>5. CASE Takes /\ Head(toServer).type # "exit" /\ Len(pend) < PendingCap
  <2>1. pend' = Append(pend, Head(toServer))
    BY <1>5, LengthFacts DEF Deliver
  <2>2. pend' \in Seq(ServerMsg) /\ Len(pend') = Len(pend) + 1
    BY <1>2, <2>1, AppendFacts DEF TypeOK
  <2> QED BY <1>1, <1>2, <1>5, <2>2, LengthFacts
<1>6. CASE Takes /\ Head(toServer).type # "exit" /\ Len(pend) >= PendingCap
  BY <1>1, <1>2, <1>6, LengthFacts DEF Deliver, Takes, Overflows
<1> QED BY <1>3, <1>4, <1>5, <1>6, LengthFacts

Under == Len(pend) + Len(toServer)
Due == read - Len(got) + Lead

LEMMA PipeFacts ==
    ASSUME TypeOK
    PROVE  /\ Under \in Nat /\ Due \in Int /\ Under = Len(pend) + Len(toServer)
           /\ Due = read - Len(got) + Lead /\ Lead =< 1
           /\ PipeInv <=> (kind = "download" /\ Takes =>
                              (gpc = "stream" => Under = Due) /\ Under =< Due + 1)
BY LengthFacts DEF Under, Due, PipeInv, Lead

LEMMA NextPipeFacts ==
    PipeInv' <=> (kind' = "download" /\ Takes' =>
                     (gpc' = "stream" => Under' = Due') /\ Under' =< Due' + 1)
BY DEF Under, Due, PipeInv

LEMMA PipeInvServer ==
    ASSUME TypeOK, StageInv, StreamInv, PipeInv, ServerStep
    PROVE  PipeInv'
<1>0. UNCHANGED <<kind, gpc, read>> /\ (Takes' => Takes)
  BY ServerFrame, TakesNoMore
<1>1. CASE UNCHANGED <<pend, toServer, got, meta>>
  BY <1>0, <1>1 DEF PipeInv, Lead
<1>2. CASE ~Takes'
  BY <1>2 DEF PipeInv
<1>3. ASSUME Takes', toServer' = toServer, Len(pend') = Len(pend) - 1,
             \/ meta' /\ ~meta /\ got' = got
             \/ meta' = meta /\ Len(got') = Len(got) + 1
      PROVE  PipeInv'
  <2>1. Under' = Under - 1
    BY <1>3, LengthFacts DEF Under
  <2>2. Due' = Due - 1
    <3>1. CASE meta' /\ ~meta /\ got' = got
      BY <1>0, <3>1, LengthFacts DEF Due, Lead
    <3>2. CASE meta' = meta /\ Len(got') = Len(got) + 1
      BY <1>0, <3>2, LengthFacts DEF Due, Lead
    <3> QED BY <1>3, <3>1, <3>2
  <2> QED BY <1>0, <1>3, <2>1, <2>2, PipeFacts, NextPipeFacts
<1>4. CASE Deliver /\ UNCHANGED <<got, meta>> /\ Takes'
  <2>1. Len(pend') = Len(pend) + 1 /\ Len(toServer') = Len(toServer) - 1
    BY <1>4, DeliverCounts
  <2>2. Under' = Under
    BY <2>1, LengthFacts DEF Under
  <2>3. Due' = Due
    BY <1>0, <1>4 DEF Due, Lead
  <2> QED BY <1>0, <2>2, <2>3, PipeFacts, NextPipeFacts
<1> QED BY <1>1, <1>2, <1>3, <1>4, ServerCounts

LEMMA PipeInvAgent ==
    ASSUME TypeOK, JobInv, BeginInv, StageInv, PipeInv, AgentStep
    PROVE  PipeInv'
<1>0. /\ UNCHANGED <<kind, pend, got, meta>> /\ Takes' = Takes /\ Lead' = Lead
      /\ Under \in Nat /\ Due \in Int /\ read \in Nat /\ Len(got) \in Nat /\ Lead \in Nat
      /\ Len(pend) \in Nat /\ Len(toServer) \in Nat
  BY AgentFrame, PipeFacts, LengthFacts DEF Lead
<1>1. Fresh => Under = 0 /\ Len(got) = 0 /\ Lead = 1
  BY DEF BeginInv, Under, Lead
<1>2. read' = read => Due' = Due
  BY <1>0 DEF Due
<1>3. toServer' = toServer => Under' = Under
  BY <1>0 DEF Under
<1>4. ASSUME NEW type \in {"result", "meta", "chunk", "end", "exit"}, NEW n \in -1..MaxChunks, Say(type, n)
      PROVE  IF Connected THEN Under' = Under + 1 ELSE Under' = Under
  BY <1>0, <1>3, <1>4, SayFacts DEF Under, Grows
<1>5. Fine \in -1..MaxChunks /\ Bad \in -1..MaxChunks
  BY DEF Fine, Bad
<1>6. CASE UNCHANGED <<toServer, read>> /\ (gpc' = "stream" => gpc = "stream")
  BY <1>0, <1>2, <1>3, <1>6, PipeFacts, NextPipeFacts
<1>7. ASSUME kind = "download", gpc' # "stream", Under' =< Due' + 1
      PROVE  PipeInv'
  BY <1>7, NextPipeFacts
<1>8. CASE ReadRequest
  <2>0. gpc = "none" /\ read = 0
    BY <1>8, TakeStep DEF ReadRequest, setup, handlerVars, AgentMsg, StageInv
  <2>1. Fresh
    BY <1>8, TailFacts DEF ReadRequest, Reads, Fresh, TypeOK
  <2>2. read' = read /\ gpc' # "stream" /\ (toServer' = toServer \/ Say(AnswerType, Bad))
    BY <1>8, <2>0 DEF ReadRequest, downloadVars
  <2>3. kind \in Kind => AnswerType \in {"result", "end", "exit"}
    BY DEF AnswerType
  <2>4. Under' \in {0, 1}
    BY <1>0, <1>1, <1>3, <1>4, <1>5, <2>1, <2>2, <2>3 DEF TypeOK
  <2>5. Due' = 1
    BY <1>0, <1>1, <1>2, <2>0, <2>1, <2>2 DEF Due
  <2> QED BY <1>7, <1>0, <2>2, <2>4, <2>5, NextPipeFacts
<1>9. CASE CommandEnds \/ FileOpEnds \/ ActionAccepted \/ TermStarts \/ ReportExit \/ SendNotice
  <2>1. kind # "download"
    BY <1>9 DEF CommandEnds, FileOpEnds, ActionAccepted, TermStarts, ReportExit, SendNotice, JobInv,
       PlaceInv, ExitInv
  <2> QED BY <1>0, <2>1 DEF PipeInv
<1>10. CASE DownloadOpens
  <2>1. /\ Fresh /\ read = 0 /\ read' = read /\ gpc' # "stream" /\ kind = "download"
        /\ toServer' = toServer \/ Say("end", Bad)
    BY <1>10 DEF DownloadOpens, Fresh, StageInv
  <2>2. Under' \in {0, 1} /\ Due' = 1
    BY <1>0, <1>1, <1>2, <1>3, <1>4, <1>5, <2>1 DEF Due
  <2> QED BY <1>7, <2>1, <2>2
<1>11. CASE SendMeta
  <2>1. /\ Fresh /\ read = 0 /\ read' = read /\ gpc' = (IF Connected THEN "stream" ELSE "close")
        /\ kind = "download" /\ Say("meta", Fine)
    BY <1>11 DEF SendMeta, AfterWrite, Fresh, StageInv, downloadVars
  <2>2. Due' = 1
    BY <1>0, <1>1, <1>2, <2>1 DEF Due
  <2>3. CASE Connected
    <3>1. Under' = 1
      BY <1>1, <1>4, <1>5, <2>1, <2>3
    <3> QED BY <2>2, <3>1, NextPipeFacts
  <2>4. CASE ~Connected
    <3>1. Under' = 0
      BY <1>1, <1>4, <1>5, <2>1, <2>4
    <3> QED BY <1>7, <2>1, <2>2, <2>4, <3>1
  <2> QED BY <2>3, <2>4
<1>12. CASE SendChunk
  <2>1. /\ gpc = "stream" /\ read' = read + 1 /\ gpc' = (IF Connected THEN "stream" ELSE "close")
        /\ kind = "download" /\ Say("chunk", read + 1) /\ read < size
    BY <1>12 DEF SendChunk, MayRead, AfterWrite, StageInv
  <2>2. read + 1 \in -1..MaxChunks
    BY <2>1 DEF TypeOK
  <2>3. Due' = Due + 1
    BY <1>0, <2>1 DEF Due
  <2>4. Takes => Under = Due
    BY <2>1, PipeFacts
  <2>5. CASE Connected
    BY <1>0, <1>4, <2>1, <2>2, <2>3, <2>4, <2>5, NextPipeFacts
  <2>6. CASE ~Connected
    BY <1>0, <1>4, <2>1, <2>2, <2>3, <2>4, <2>6, NextPipeFacts
  <2> QED BY <2>5, <2>6
<1>13. CASE ReadFails \/ SendEnd
  <2>1. /\ gpc = "stream" /\ read' = read /\ gpc' = "close"
        /\ kind = "download" /\ (Say("end", Bad) \/ Say("end", Fine))
    BY <1>13 DEF ReadFails, SendEnd, MayRead, StageInv, downloadVars
  <2>2. Takes => Under = Due
    BY <2>1, PipeFacts
  <2> QED BY <1>0, <1>2, <1>4, <1>5, <2>1, <2>2, NextPipeFacts
<1> QED BY <1>6, <1>8, <1>9, <1>10, <1>11, <1>12, <1>13, PlaceStep

LEMMA PipeInvStep ==
    ASSUME TypeOK, JobInv, BeginInv, StageInv, StreamInv, PipeInv, Next
    PROVE  PipeInv'
BY PipeInvServer, PipeInvAgent DEF Next, ServerStep, AgentStep

-----------------------------------------------------------------------------
(* The channel of the handler has room.                                    *)

LEMMA RoomLeft ==
    ASSUME TypeOK, BeginInv, CreditInv, PipeInv, ResultInv
    PROVE  DownloadFits
<1> SUFFICES ASSUME credited, toServer # <<>>, Takes, Head(toServer).type # "exit"
             PROVE  Len(pend) < PendingCap
  BY DEF DownloadFits
<1>1. /\ Len(toServer) \in Nat /\ Len(toServer) >= 1 /\ Head(toServer) = toServer[1]
      /\ 1 \in 1..Len(toServer) /\ Len(pend) \in Nat
  BY TailFacts, LengthFacts DEF TypeOK
<1>2. kind # "term"
  BY <1>1 DEF ResultInv
<1>3. CASE kind # "download"
  <2>1. Len(pend) + Len(toServer) =< 1
    BY <1>2, <1>3 DEF ResultInv
  <2> QED BY <1>1, <2>1
<1>4. CASE kind = "download"
  <2>1. hpc = "wait"
    BY DEF Takes, BeginInv, Fresh
  <2>2. credits + Len(toAgent) + (read - Len(got)) =< Window
    BY <1>4, <2>1 DEF CreditInv
  <2>3. Under =< Due + 1 /\ Lead =< 1 /\ Under = Len(pend) + Len(toServer) /\ Due = read - Len(got) + Lead
    BY <1>4, PipeFacts
  <2>4. credits \in Nat /\ Len(toAgent) \in Nat /\ read \in Nat /\ Len(got) \in Nat /\ Lead \in Nat
    BY LengthFacts
  <2> QED BY <1>1, <2>2, <2>3, <2>4
<1> QED BY <1>3, <1>4

-----------------------------------------------------------------------------
(* What a step does to the wires.                                          *)

LEMMA ServerWire ==
    ASSUME TypeOK, JobInv, ServerStep
    PROVE  \/ toAgent' = toAgent \/ toAgent' = <<>>
           \/ SendRequest
           \/ /\ Post("credit") /\ credited /\ meta /\ Receives("chunk") /\ ReceiveChunk
              /\ got' = Append(got, Head(pend).n)
           \/ \E type \in {"cancel", "input", "close"} :
                 /\ Post(type) /\ hpc # "send"
                 /\ \/ hpc' # "wait" \/ kind = "term"
                    \/ toServer # <<>> /\ Takes /\ Head(toServer).type # "exit" /\ Len(pend) >= PendingCap
<1>1. CASE ReceiveResult \/ ReceiveFileResult \/ ReceiveEnd \/ PendingFailed \/ BrowserLeaves \/ ServerDrops
           \/ Shutdown \/ LinkEnds \/ Redial
  BY <1>1 DEF ReceiveResult, ReceiveFileResult, Answered, ReceiveEnd, PendingFailed, BrowserLeaves,
     ServerDrops, Shutdown, LinkEnds, Redial
<1>2. CASE ReceiveMeta \/ Timeout \/ TypeKey \/ SendClose
  BY <1>2 DEF ReceiveMeta, Receives, Timeout, TypeKey, SendClose, Return
<1>3. CASE ReceiveChunk
  BY <1>3 DEF ReceiveChunk, Receives, Return
<1>4. CASE Deliver
  <2>1. toServer # <<>>
    BY <1>4 DEF Deliver
  <2>2. hpc # "send"
    BY <2>1 DEF JobInv, WireInv
  <2> QED BY <1>4, <2>1, <2>2 DEF Deliver, Overflows
<1> QED BY <1>1, <1>2, <1>3, <1>4 DEF ServerStep, Handler

LEMMA AgentWire ==
    ASSUME TypeOK, JobInv, StageInv, AgentStep
    PROVE  /\ toAgent' = toAgent \/ (toAgent # <<>> /\ toAgent' = Tail(toAgent) /\ AgentReads)
           /\ \/ toServer' = toServer
              \/ \E type \in {"result", "meta", "chunk", "end", "exit"}, n \in -1..MaxChunks :
                    /\ Say(type, n)
                    /\ kind = "term" => type = "exit"
                    /\ kind \notin {"download", "term"} => Fresh
                    /\ gpc = "none" => ReadRequest
                    /\ gpc' \in {"start", "meta"} => gpc' = gpc /\ SendNotice
<1>0. Fine \in -1..MaxChunks /\ Bad \in -1..MaxChunks /\ kind \in Kind
  BY DEF Fine, Bad, TypeOK
<1>1. CASE ReadRequest
  <2>1. toAgent # <<>> /\ toAgent' = Tail(toAgent) /\ Head(toAgent) = "request"
    BY <1>1 DEF ReadRequest, Reads
  <2>2. Fresh /\ gpc = "none"
    BY <1>1, <2>1, TakeStep, TailFacts DEF ReadRequest, setup, handlerVars, AgentMsg, Fresh, TypeOK
  <2>3. /\ AnswerType \in {"result", "meta", "chunk", "end", "exit"}
        /\ kind = "term" => AnswerType = "exit"
    BY <1>0 DEF AnswerType
  <2>4. CASE Say(AnswerType, Bad) /\ gpc' = gpc
    BY <1>0, <1>1, <2>1, <2>2, <2>3, <2>4 DEF AgentReads
  <2>5. CASE toServer' = toServer
    BY <1>1, <2>1, <2>5 DEF AgentReads
  <2> QED BY <1>1, <2>4, <2>5 DEF ReadRequest
<1>2. CASE ReadCancel \/ ReadCredit \/ ReadInput \/ ReadClose
  BY <1>2 DEF ReadCancel, ReadCredit, ReadInput, ReadClose, Reads, AgentReads
<1>3. CASE Sweep \/ OtherJobStarts \/ OtherJobEnds \/ WriteInput \/ ActionEnds \/ ReleaseSlot
           \/ DownloadCancelled \/ DownloadLeaves \/ ReadEnds \/ FinishTerm \/ ShellExits
  BY <1>3 DEF Sweep, OtherJobStarts, OtherJobEnds, WriteInput, ActionEnds, ReleaseSlot,
     DownloadCancelled, DownloadLeaves, ReadEnds, FinishTerm, ShellExits, others
<1>4. CASE CommandEnds \/ FileOpEnds \/ ActionAccepted
  <2>1. /\ Say("result", Fine) \/ Say("result", Bad)
        /\ gpc = "start" /\ kind \in {"exec", "fileop", "action"} /\ gpc' \in {"busy", "exit"} /\ toAgent' = toAgent
    BY <1>4 DEF CommandEnds, FileOpEnds, ReportsResult, ActionAccepted, others
  <2> QED BY <1>0, <2>1 DEF Fresh
<1>5. CASE TermStarts \/ ReportExit \/ SendNotice
  <2>1. kind = "term" /\ toAgent' = toAgent
    BY <1>5 DEF TermStarts, ReportExit, SendNotice, others, JobInv, PlaceInv, ExitInv
  <2>2. toServer' = toServer \/ Say("exit", Fine) \/ Say("exit", Bad)
    BY <1>5 DEF TermStarts, ReportExit, SendNotice
  <2>3. gpc # "none" \/ toServer' = toServer
    BY <1>5 DEF TermStarts, ReportExit, SendNotice, JobInv, PlaceInv
  <2>4. gpc' \in {"start", "meta"} => gpc' = gpc /\ SendNotice
    BY <1>5 DEF TermStarts, ReportExit, SendNotice
  <2> QED BY <1>0, <2>1, <2>2, <2>3, <2>4
<1>6. CASE DownloadOpens
  <2>1. kind = "download" /\ toAgent' = toAgent /\ gpc = "start"
    BY <1>6 DEF DownloadOpens, others
  <2>2. toServer' = toServer \/ (Say("end", Bad) /\ gpc' = "exit")
    BY <1>6 DEF DownloadOpens
  <2> QED BY <1>0, <2>1, <2>2
<1>7. CASE SendMeta \/ SendEnd \/ ReadFails
  <2>1. kind = "download" /\ toAgent' = toAgent /\ gpc \in {"meta", "stream"} /\ gpc' \in {"stream", "close"}
    BY <1>7 DEF SendMeta, SendEnd, ReadFails, MayRead, AfterWrite, others, StageInv
  <2>2. Say("meta", Fine) \/ Say("end", Fine) \/ Say("end", Bad)
    BY <1>7 DEF SendMeta, SendEnd, ReadFails
  <2> QED BY <1>0, <2>1, <2>2
<1>8. CASE SendChunk
  <2>1. /\ kind = "download" /\ toAgent' = toAgent /\ gpc = "stream" /\ gpc' \in {"stream", "close"}
        /\ Say("chunk", read + 1) /\ read < size
    BY <1>8 DEF SendChunk, MayRead, AfterWrite, others, StageInv
  <2>2. read + 1 \in -1..MaxChunks
    BY <2>1 DEF TypeOK
  <2> QED BY <2>1, <2>2
<1> QED BY <1>1, <1>2, <1>3, <1>4, <1>5, <1>6, <1>7, <1>8 DEF AgentStep, AgentReads, Goroutine

-----------------------------------------------------------------------------
(* The other kinds have one answer.                                        *)

LEMMA ResultInvStep ==
    ASSUME TypeOK, JobInv, BeginInv, StageInv, StreamInv, ResultInv, Next
    PROVE  ResultInv'
<1>0. Len(pend) \in Nat /\ Len(toServer) \in Nat
  BY LengthFacts
<1>1. CASE ServerStep
  <2>0. kind' = kind
    BY <1>1, ServerFrame
  <2>1. CASE UNCHANGED <<pend, toServer>>
    BY <2>0, <2>1 DEF ResultInv
  <2>2. CASE pend' = <<>> /\ toServer' = toServer
    BY <1>0, <2>0, <2>2 DEF ResultInv
  <2>3. CASE kind = "download"
    BY <2>0, <2>3 DEF ResultInv
  <2>4. CASE Deliver
    <3>1. /\ Len(toServer) > 0 /\ Len(toServer') = Len(toServer) - 1 /\ 1 \in 1..Len(toServer)
          /\ \A i \in 1..Len(toServer') : i + 1 \in 1..Len(toServer) /\ toServer'[i] = toServer[i + 1]
      BY <1>0, <2>4, DeliverCounts
    <3>2. CASE pend' = pend
      <4>1. kind \notin {"download", "term"} => Len(pend) + Len(toServer') =< 1
        BY <1>0, <3>1 DEF ResultInv
      <4> QED BY <2>0, <3>1, <3>2, <4>1 DEF ResultInv
    <3>3. CASE Len(pend') = Len(pend) + 1 /\ toServer[1].type # "exit"
      <4>1. kind # "term"
        BY <3>1, <3>3 DEF ResultInv
      <4>2. Len(pend') + Len(toServer') = Len(pend) + Len(toServer)
        BY <1>0, <3>1, <3>3
      <4> QED BY <2>0, <4>1, <4>2 DEF ResultInv
    <3> QED BY <2>4, <3>2, <3>3, DeliverCounts
  <2> QED BY <1>1, <2>1, <2>2, <2>3, <2>4, ServerCounts
<1>2. CASE AgentStep
  <2>0. kind' = kind /\ pend' = pend
    BY <1>2, AgentFrame
  <2>1. CASE toServer' = toServer
    BY <2>0, <2>1 DEF ResultInv
  <2>2. ASSUME NEW type \in {"result", "meta", "chunk", "end", "exit"}, NEW n \in -1..MaxChunks,
               Say(type, n), kind = "term" => type = "exit", kind \notin {"download", "term"} => Fresh,
               toServer' # toServer
        PROVE  ResultInv'
    <3>1. Grows(Msg(type, n)) /\ Msg(type, n).type = type
      BY <2>2, SayFacts, MsgFacts
    <3>2. kind \notin {"download", "term"} => Len(pend) + Len(toServer') =< 1
      <4>1. kind \notin {"download", "term"} => Len(pend) = 0 /\ Len(toServer) = 0
        BY <2>2 DEF BeginInv
      <4> QED BY <3>1, <4>1 DEF Grows
    <3>3. ASSUME kind = "term", NEW i \in 1..Len(toServer') PROVE toServer'[i].type = "exit"
      <4>1. i \in 1..Len(toServer) \/ i = Len(toServer) + 1
        BY <1>0, <3>1 DEF Grows
      <4> QED BY <2>2, <3>1, <3>3, <4>1 DEF Grows, ResultInv
    <3> QED BY <2>0, <3>2, <3>3 DEF ResultInv
  <2> QED BY <1>2, <2>1, <2>2, AgentWire
<1> QED BY <1>1, <1>2 DEF Next, ServerStep, AgentStep

-----------------------------------------------------------------------------
(* Nothing has been answered.                                              *)

LEMMA MetaStays ==
    ASSUME ServerStep, pend = <<>>
    PROVE  meta' = meta
BY DEF ServerStep, Handler, Timeout, TypeKey, BrowserLeaves, ServerDrops, Shutdown, Deliver, LinkEnds,
       Redial, SendRequest, ReceiveResult, ReceiveFileResult, Answered, ReceiveMeta, ReceiveChunk,
       ReceiveEnd, PendingFailed, SendClose, handlerVars, Receives

LEMMA WaitFrom ==
    ASSUME ServerStep, hpc' = "wait"
    PROVE  hpc = "wait" \/ SendRequest
BY DEF ServerStep, Handler, Timeout, TypeKey, BrowserLeaves, ServerDrops, Shutdown, Deliver, LinkEnds,
       Redial, ReceiveResult, ReceiveFileResult, Answered, ReceiveMeta, ReceiveChunk,
       ReceiveEnd, PendingFailed, SendClose, handlerVars, Receives, Return, Deregistered

LEMMA FreshServer ==
    ASSUME TypeOK, JobInv, ServerStep, Fresh'
    PROVE  Fresh
<1>0. gpc' = gpc
  BY ServerFrame
<1>1. hpc' = "send" => hpc = "send"
  BY DEF ServerStep, Handler, Timeout, TypeKey, BrowserLeaves, ServerDrops, Shutdown, Deliver, LinkEnds,
         Redial, SendRequest, ReceiveResult, ReceiveFileResult, Answered, ReceiveMeta, ReceiveChunk,
         ReceiveEnd, PendingFailed, SendClose, handlerVars, Deregistered, Return, Receives
<1>2. ASSUME toAgent' # <<>>, toAgent'[1] = "request"
      PROVE  Fresh
  <2>1. CASE toAgent' = toAgent
    BY <1>2, <2>1 DEF Fresh
  <2>2. CASE SendRequest
    BY <2>2 DEF SendRequest, Fresh
  <2>3. ASSUME NEW type \in {"credit", "cancel", "input", "close"}, Post(type)
        PROVE  Fresh
    <3>1. CASE toAgent = <<>>
      BY <1>2, <2>3, <3>1, PostFacts DEF AgentMsg
    <3>2. CASE toAgent # <<>>
      <4>1. 1 \in 1..Len(toAgent)
        BY <3>2, TailFacts DEF TypeOK
      <4>2. toAgent'[1] = toAgent[1]
        BY <2>3, <4>1, PostFacts DEF AgentMsg
      <4> QED BY <1>2, <3>2, <4>2 DEF Fresh
    <3> QED BY <3>1, <3>2
  <2> QED BY <1>2, <2>1, <2>2, <2>3, ServerWire
<1> QED BY <1>0, <1>1, <1>2 DEF Fresh

LEMMA FreshAgent ==
    ASSUME TypeOK, JobInv, StageInv, AgentStep, Fresh'
    PROVE  Fresh /\ toServer' = toServer
<1>0. hpc' = hpc /\ toAgent \in Seq(AgentMsg)
  BY AgentFrame DEF TypeOK
<1>1. CASE hpc = "send"
  <2>1. toAgent = <<>> /\ gpc = "none"
    BY <1>1 DEF JobInv, WireInv
  <2>2. ~ReadRequest
    BY <2>1 DEF ReadRequest, Reads
  <2> QED BY <1>1, <2>1, <2>2, AgentWire DEF Fresh
<1>2. CASE gpc' \in {"start", "meta"}
  <2>1. toServer' = toServer
    <3>1. ~(gpc' = gpc /\ SendNotice)
      BY <1>2 DEF SendNotice, JobInv, PlaceInv, ExitInv, StageInv
    <3> QED BY <1>2, <3>1, AgentWire
  <2>2. ReadRequest => Fresh
    BY <1>0, TailFacts DEF ReadRequest, Reads, Fresh
  <2>3. DownloadOpens => Fresh
    BY DEF DownloadOpens, Fresh
  <2> QED BY <1>2, <2>1, <2>2, <2>3, PlaceStep DEF Fresh
<1>3. CASE toAgent' # <<>> /\ toAgent'[1] = "request"
  <2>1. toAgent' = toAgent
    <3>1. ASSUME toAgent # <<>>, toAgent' = Tail(toAgent) PROVE FALSE
      <4>1. 1 \in 1..Len(toAgent') /\ toAgent' \in Seq(AgentMsg)
        BY <1>0, <1>3, <3>1, TailFacts
      <4>2. 2 \in 1..Len(toAgent) /\ toAgent'[1] = toAgent[2]
        BY <1>0, <3>1, <4>1, TailFacts
      <4> QED BY <1>3, <4>2 DEF JobInv, WireInv
    <3> QED BY <3>1, AgentWire
  <2>2. Fresh /\ gpc = "none"
    <3>1. 1 \in 1..Len(toAgent)
      BY <1>0, <1>3, <2>1, TailFacts
    <3> QED BY <1>3, <2>1, <3>1 DEF Fresh, JobInv, WireInv
  <2>3. ~ReadRequest
    <3>1. toAgent # <<>> /\ Len(Tail(toAgent)) # Len(toAgent)
      BY <1>0, <1>3, <2>1, TailFacts
    <3> QED BY <2>1, <3>1 DEF ReadRequest, Reads
  <2> QED BY <2>2, <2>3, AgentWire
<1> QED BY <1>0, <1>1, <1>2, <1>3 DEF Fresh

LEMMA BeginInvStep ==
    ASSUME TypeOK, JobInv, BeginInv, StageInv, StreamInv, Next
    PROVE  BeginInv'
<1>0. toAgent \in Seq(AgentMsg)
  BY DEF TypeOK
<1>1. CASE ServerStep
  <2>0. UNCHANGED <<kind, gpc>>
    BY <1>1, ServerFrame
  <2>1. ASSUME Fresh'
        PROVE  pend' = <<>> /\ toServer' = <<>> /\ got' = <<>> /\ ~meta' /\ pend = <<>> /\ toServer = <<>>
    <3>1. pend = <<>> /\ toServer = <<>> /\ got = <<>> /\ ~meta
      BY <1>1, <2>1, FreshServer DEF BeginInv
    <3>2. got' = got
      BY <1>1, <3>1, GotGrows DEF Receives
    <3>3. ~Deliver
      BY <3>1 DEF Deliver
    <3> QED BY <1>1, <3>1, <3>2, <3>3, ServerCounts, LengthFacts, MetaStays
  <2>2. ASSUME kind' = "download", hpc' = "wait",
               gpc' = "start" \/ (toAgent' # <<>> /\ toAgent'[1] = "request")
        PROVE  \A i \in 1..Len(toAgent') : toAgent'[i] = "request"
    <3>1. Fresh'
      BY <2>2 DEF Fresh
    <3>2. CASE SendRequest
      <4>1. toAgent = <<>>
        BY <3>2 DEF SendRequest, JobInv, WireInv
      <4> QED BY <3>2, <4>1 DEF SendRequest, Post
    <3>3. CASE ~SendRequest
      <4>1. hpc = "wait"
        BY <1>1, <2>2, <3>3, WaitFrom
      <4>2. toAgent' = toAgent \/ toAgent' = <<>>
        BY <1>1, <2>0, <2>1, <2>2, <3>1, <3>3, ServerWire DEF Receives
      <4> QED BY <2>0, <2>2, <4>1, <4>2 DEF BeginInv
    <3> QED BY <3>2, <3>3
  <2> QED BY <2>1, <2>2 DEF BeginInv
<1>2. CASE AgentStep
  <2>0. UNCHANGED <<kind, hpc, pend, got, meta>>
    BY <1>2, AgentFrame
  <2>1. Fresh' => pend' = <<>> /\ toServer' = <<>> /\ got' = <<>> /\ ~meta'
    BY <1>2, <2>0, FreshAgent DEF BeginInv
  <2>2. ASSUME kind' = "download", hpc' = "wait",
               gpc' = "start" \/ (toAgent' # <<>> /\ toAgent'[1] = "request")
        PROVE  \A i \in 1..Len(toAgent') : toAgent'[i] = "request"
    <3>1. gpc = "start" \/ (toAgent # <<>> /\ toAgent[1] = "request")
      <4>1. CASE gpc' = "start"
        <5>1. ReadRequest => toAgent # <<>> /\ toAgent[1] = "request"
          BY <1>0, TailFacts DEF ReadRequest, Reads
        <5> QED BY <1>2, <4>1, <5>1, PlaceStep
      <4>2. CASE toAgent' # <<>> /\ toAgent'[1] = "request"
        <5>1. CASE toAgent' = toAgent
          BY <4>2, <5>1
        <5>2. ASSUME toAgent # <<>>, toAgent' = Tail(toAgent) PROVE FALSE
          <6>1. 1 \in 1..Len(toAgent') /\ toAgent' \in Seq(AgentMsg)
            BY <1>0, <4>2, <5>2, TailFacts
          <6>2. 2 \in 1..Len(toAgent) /\ toAgent'[1] = toAgent[2]
            BY <1>0, <5>2, <6>1, TailFacts
          <6> QED BY <4>2, <6>2 DEF JobInv, WireInv
        <5> QED BY <1>2, <5>1, <5>2, AgentWire
      <4> QED BY <2>2, <4>1, <4>2
    <3>2. \A i \in 1..Len(toAgent) : toAgent[i] = "request"
      BY <2>0, <2>2, <3>1 DEF BeginInv
    <3>3. CASE toAgent' = toAgent
      BY <3>2, <3>3
    <3>4. CASE toAgent # <<>> /\ toAgent' = Tail(toAgent)
      BY <1>0, <3>2, <3>4, TailFacts
    <3> QED BY <1>2, <3>3, <3>4, AgentWire
  <2> QED BY <2>1, <2>2 DEF BeginInv
<1> QED BY <1>1, <1>2 DEF Next, ServerStep, AgentStep

-----------------------------------------------------------------------------
(* The window of credits.                                                  *)

LEMMA CreditInvServer ==
    ASSUME TypeOK, JobInv, BeginInv, StageInv, CreditInv, StreamInv, DownloadFits, ServerStep
    PROVE  CreditInv'
<1> DEFINE w == Len(toAgent')
           g == Len(got')
<1>0. /\ UNCHANGED <<kind, credited, gpc, read, credits>>
      /\ Len(toAgent) \in Nat /\ Len(got) \in Nat /\ read \in Nat /\ credits \in Nat
  BY ServerFrame, LengthFacts
<1>1. g \in Nat /\ Len(got) =< g /\ (g # Len(got) => g = Len(got) + 1)
  <2>1. got' = got \/ Len(got') = Len(got) + 1
    BY GotGrows
  <2> QED BY <1>0, <2>1
<1> HIDE DEF w, g
<1>2. ASSUME NEW i \in 1..Len(toAgent), toAgent[i] = "credit"
      PROVE  credited /\ gpc \notin {"none", "start"} /\ credits + i + (read - g) =< Window
  <2>1. credited /\ gpc \notin {"none", "start"} /\ credits + i + (read - Len(got)) =< Window /\ i \in Nat
    BY <1>2 DEF CreditInv
  <2> QED BY <1>0, <1>1, <2>1
<1>3. CASE toAgent' = toAgent \/ toAgent' = <<>>
  <2>1. w \in Nat /\ w =< Len(toAgent)
    BY <1>0, <1>3 DEF w
  <2>2. \A i \in 1..w : i \in 1..Len(toAgent) /\ toAgent'[i] = toAgent[i]
    BY <1>3 DEF w
  <2>3. ASSUME kind = "download", credited, hpc' = "wait"
        PROVE  credits + w + (read - g) =< Window
    <3>1. CASE hpc = "wait"
      <4>1. credits + Len(toAgent) + (read - Len(got)) =< Window
        BY <2>3, <3>1 DEF CreditInv
      <4> QED BY <1>0, <1>1, <2>1, <4>1
    <3>2. CASE SendRequest
      <4>1. Len(toAgent) = 0 /\ credits = 0 /\ read = 0
        BY <3>2 DEF SendRequest, JobInv, WireInv, StageInv
      <4> QED BY <1>0, <1>1, <2>1, <4>1
    <3> QED BY <2>3, <3>1, <3>2, WaitFrom
  <2> QED BY <1>0, <1>2, <2>2, <2>3 DEF CreditInv, w, g
<1>4. CASE SendRequest
  <2>1. toAgent = <<>> /\ credits = 0 /\ read = 0
    BY <1>4 DEF SendRequest, JobInv, WireInv, StageInv
  <2>2. toAgent' = <<>> \/ toAgent' = <<"request">>
    BY <1>4, <2>1 DEF SendRequest, Post
  <2>3. w \in {0, 1} /\ \A i \in 1..w : toAgent'[i] # "credit"
    BY <2>2 DEF w
  <2>4. credits + w + (read - g) =< Window
    BY <1>1, <2>1, <2>3
  <2> QED BY <1>0, <2>3, <2>4 DEF CreditInv, w, g
<1>5. ASSUME NEW type \in {"credit", "cancel", "input", "close"}, Post(type), toAgent' # toAgent
      PROVE  /\ w = Len(toAgent) + 1
             /\ \A i \in 1..w : \/ i \in 1..Len(toAgent) /\ toAgent'[i] = toAgent[i]
                                \/ i = Len(toAgent) + 1 /\ toAgent'[i] = type
  <2>1. /\ Len(toAgent') = Len(toAgent) + 1 /\ toAgent'[Len(toAgent) + 1] = type
        /\ \A i \in 1..Len(toAgent) : toAgent'[i] = toAgent[i]
    BY <1>5, PostFacts DEF AgentMsg
  <2>2. \A i \in 1..w : i \in 1..Len(toAgent) \/ i = Len(toAgent) + 1
    BY <1>0, <2>1 DEF w
  <2> QED BY <2>1, <2>2 DEF w
<1>6. CASE /\ Post("credit") /\ credited /\ meta /\ Receives("chunk")
           /\ got' = Append(got, Head(pend).n) /\ toAgent' # toAgent
  <2>0. hpc = "wait" /\ kind = "download"
    BY <1>6 DEF Receives
  <2>1. Head(pend).n = Len(got) + 1 /\ Head(pend).n \in 1..read
    BY <1>6, NextChunk
  <2>2. g = Len(got) + 1 /\ read # 0
    <3>1. Head(pend).n \in 1..MaxChunks
      BY <2>1 DEF TypeOK
    <3> QED BY <1>6, <2>1, <3>1, AppendFacts DEF TypeOK, g
  <2>3. gpc \notin {"none", "start"}
    BY <2>2 DEF StageInv
  <2>4. credits + Len(toAgent) + (read - Len(got)) =< Window
    BY <1>6, <2>0 DEF CreditInv
  <2>5. credits + (Len(toAgent) + 1) + (read - g) =< Window
    BY <1>0, <2>2, <2>4
  <2> QED BY <1>0, <1>2, <1>5, <1>6, <2>3, <2>5 DEF CreditInv, w, g
<1>7. ASSUME NEW type \in {"cancel", "input", "close"}, Post(type), hpc # "send", toAgent' # toAgent,
             \/ hpc' # "wait" \/ kind = "term"
             \/ toServer # <<>> /\ Takes /\ Head(toServer).type # "exit" /\ Len(pend) >= PendingCap
      PROVE  CreditInv'
  <2>1. ~(kind = "download" /\ credited /\ hpc' = "wait")
    BY <1>7, LengthFacts DEF DownloadFits
  <2>2. \A i \in 1..w : toAgent'[i] = "credit" => i \in 1..Len(toAgent) /\ toAgent[i] = "credit"
    BY <1>5, <1>7
  <2> QED BY <1>0, <1>2, <2>1, <2>2 DEF CreditInv, w, g
<1> QED BY <1>3, <1>4, <1>6, <1>7, ServerWire

\* The credits of the agent change with a chunk, a message that is read and the start.
LEMMA CreditSteps ==
    ASSUME TypeOK, JobInv, StageInv, AgentStep
    PROVE  \/ DownloadOpens /\ gpc = "start" /\ kind = "download" /\ toAgent' = toAgent /\ read' = read
              /\ credits' \in {credits, Window} /\ (credits' # credits => credited)
           \/ /\ toAgent' = toAgent /\ credits' \in Nat
              /\ \/ credits' = credits /\ read' = read
                 \/ credited /\ credits' = credits - 1 /\ (read' = read \/ read' = read + 1)
                 \/ ~credited /\ credits' = credits /\ read' = read + 1
           \/ /\ toAgent # <<>> /\ toAgent' = Tail(toAgent) /\ read' = read
              /\ credits' = credits \/ (credits' = credits + 1 /\ toAgent[1] = "credit")
<1>0. credits \in Nat /\ toAgent \in Seq(AgentMsg)
  BY LengthFacts DEF TypeOK
<1>1. CASE ReadCredit
  <2>1. toAgent # <<>> /\ toAgent' = Tail(toAgent) /\ Head(toAgent) = "credit"
    BY <1>1 DEF ReadCredit, Reads
  <2>2. toAgent[1] = "credit"
    BY <1>0, <2>1, TailFacts
  <2> QED BY <1>1, <2>1, <2>2 DEF ReadCredit, CreditAdded
<1>2. CASE ReadRequest \/ ReadCancel \/ ReadInput \/ ReadClose
  BY <1>2 DEF ReadRequest, ReadCancel, ReadInput, ReadClose, Reads, downloadVars
<1>3. CASE DownloadOpens
  <2>1. CASE credits' = credits
    BY <1>3, <2>1 DEF DownloadOpens, others
  <2>2. CASE credits' = (IF credited THEN Window ELSE 0)
    <3>1. gpc = "start"
      BY <1>3 DEF DownloadOpens
    <3>2. credits = 0
      BY <3>1 DEF StageInv
    <3> QED BY <1>3, <2>2, <3>1, <3>2 DEF DownloadOpens, others
  <2> QED BY <1>3, <2>1, <2>2 DEF DownloadOpens
<1>4. CASE SendChunk \/ ReadFails
  <2>1. MayRead /\ credits' = CreditLeft /\ toAgent' = toAgent
    BY <1>4 DEF SendChunk, ReadFails, others
  <2>2. (SendChunk /\ read' = read + 1) \/ (ReadFails /\ read' = read)
    BY <1>4 DEF SendChunk, ReadFails
  <2>3. CASE credited
    BY <1>0, <2>1, <2>2, <2>3 DEF MayRead, CreditLeft
  <2>4. CASE ~credited
    BY <1>0, <2>1, <2>2, <2>4 DEF CreditLeft
  <2> QED BY <2>3, <2>4
<1>5. CASE \/ Sweep \/ OtherJobStarts \/ OtherJobEnds \/ WriteInput \/ ActionEnds \/ ReleaseSlot
           \/ DownloadCancelled \/ DownloadLeaves \/ ReadEnds \/ FinishTerm \/ ShellExits \/ CommandEnds
           \/ FileOpEnds \/ ActionAccepted \/ TermStarts \/ ReportExit \/ SendNotice \/ SendMeta \/ SendEnd
  BY <1>0, <1>5 DEF Sweep, OtherJobStarts, OtherJobEnds, WriteInput, ActionEnds, ReleaseSlot,
     DownloadCancelled, DownloadLeaves, ReadEnds, FinishTerm, ShellExits, CommandEnds, FileOpEnds,
     ReportsResult, ActionAccepted, TermStarts, ReportExit, SendNotice, SendMeta, SendEnd, others,
     downloadVars, jobVars
<1> QED BY <1>1, <1>2, <1>3, <1>4, <1>5 DEF AgentStep, AgentReads, Goroutine

LEMMA CreditInvAgent ==
    ASSUME TypeOK, JobInv, BeginInv, StageInv, CreditInv, AgentStep
    PROVE  CreditInv' /\ credits' \in 0..Window
<1> DEFINE c == credits'
           r == read'
<1>0. /\ UNCHANGED <<kind, credited, hpc, got>> /\ toAgent \in Seq(AgentMsg)
      /\ Len(toAgent) \in Nat /\ Len(got) \in Nat /\ read \in Nat /\ credits \in Nat /\ credits =< Window
      /\ Len(got) =< read
  BY AgentFrame, LengthFacts DEF TypeOK, StageInv
<1>1. gpc \notin {"none", "start"} => gpc' \notin {"none", "start"}
  BY PlaceStep
<1> HIDE DEF c, r
<1>2. CASE DownloadOpens /\ gpc = "start" /\ kind = "download" /\ toAgent' = toAgent /\ r = read /\ c \in {credits, Window}
  <2>1. read = 0 /\ Len(got) = 0 /\ credits = 0
    BY <1>2 DEF StageInv, BeginInv, Fresh
  <2>2. \A i \in 1..Len(toAgent) : toAgent[i] \notin {"credit", "request"}
    BY <1>2 DEF CreditInv, JobInv, WireInv
  <2>3. hpc = "wait" => Len(toAgent) = 0
    BY <1>0, <1>2, <2>2 DEF BeginInv
  <2>4. hpc = "wait" => c + Len(toAgent) + (r - Len(got)) =< Window
    BY <1>0, <1>2, <2>1, <2>3
  <2> QED BY <1>0, <1>2, <2>2, <2>4 DEF CreditInv, c, r
<1>3. CASE /\ toAgent' = toAgent /\ c \in Nat
           /\ \/ c = credits /\ r = read
              \/ credited /\ c = credits - 1 /\ (r = read \/ r = read + 1)
              \/ ~credited /\ c = credits /\ r = read + 1
  <2>1. c =< credits /\ (credited => \A k \in Nat : c + k + (r - Len(got)) =< credits + k + (read - Len(got)))
    BY <1>0, <1>3
  <2>2. ASSUME credited, NEW k \in Nat, credits + k + (read - Len(got)) =< Window
        PROVE  c + k + (r - Len(got)) =< Window
    <3>1. r \in Nat /\ c \in Nat
      BY <1>0, <1>3
    <3> QED BY <1>0, <2>1, <2>2, <3>1
  <2>3. Len(toAgent) \in Nat /\ \A i \in 1..Len(toAgent) : i \in Nat
    BY <1>0
  <2> QED BY <1>0, <1>1, <1>3, <2>1, <2>2, <2>3 DEF CreditInv, c, r
<1>4. CASE /\ toAgent # <<>> /\ toAgent' = Tail(toAgent) /\ r = read
           /\ c = credits \/ (c = credits + 1 /\ toAgent[1] = "credit")
  <2>1. /\ Len(toAgent') = Len(toAgent) - 1 /\ 1 \in 1..Len(toAgent)
        /\ \A i \in 1..Len(toAgent') : i + 1 \in 1..Len(toAgent) /\ toAgent'[i] = toAgent[i + 1]
    BY <1>0, <1>4, TailFacts
  <2>2. toAgent[1] = "credit" => credits + 1 + (read - Len(got)) =< Window
    BY <2>1 DEF CreditInv
  <2>3. c \in 0..Window
    BY <1>0, <1>4, <2>2
  <2>4. ASSUME kind = "download", credited, hpc = "wait"
        PROVE  c + Len(toAgent') + (r - Len(got)) =< Window
    <3>1. credits + Len(toAgent) + (read - Len(got)) =< Window
      BY <2>4 DEF CreditInv
    <3> DEFINE w == Len(toAgent')
    <3>2. w = Len(toAgent) - 1
      BY <2>1
    <3> HIDE DEF w
    <3>3. c + w + (r - Len(got)) =< Window
      BY <1>0, <1>4, <3>1, <3>2
    <3> QED BY <3>3 DEF w
  <2>5. ASSUME NEW i \in 1..Len(toAgent'), toAgent'[i] = "credit"
        PROVE  credited /\ gpc' \notin {"none", "start"} /\ c + i + (r - Len(got)) =< Window
    <3>1. i + 1 \in 1..Len(toAgent) /\ toAgent[i + 1] = "credit" /\ i \in Nat
      BY <2>1, <2>5
    <3>2. credited /\ gpc \notin {"none", "start"} /\ credits + (i + 1) + (read - Len(got)) =< Window
      BY <3>1 DEF CreditInv
    <3> QED BY <1>0, <1>1, <1>4, <3>1, <3>2
  <2> QED BY <1>0, <2>3, <2>4, <2>5 DEF CreditInv, c, r
<1> QED BY <1>2, <1>3, <1>4, CreditSteps DEF c, r

LEMMA CreditInvStep ==
    ASSUME TypeOK, JobInv, BeginInv, StageInv, CreditInv, StreamInv, DownloadFits, Next
    PROVE  CreditInv' /\ credits' \in 0..Window
<1>1. ServerStep => credits' \in 0..Window
  BY ServerFrame DEF TypeOK
<1> QED BY <1>1, CreditInvServer, CreditInvAgent DEF Next, ServerStep, AgentStep

-----------------------------------------------------------------------------
(* What the browser gets.                                                  *)

LEMMA PrefixInvStep ==
    ASSUME TypeOK, JobInv, StageInv, StreamInv, PrefixInv, Next
    PROVE  PrefixInv'
<1>0. got \in Seq(1..MaxChunks) /\ Len(got) \in Nat /\ pend \in Seq(ServerMsg)
  BY LengthFacts DEF TypeOK
<1>1. CASE ServerStep
  <2>0. UNCHANGED <<kind, gpc, size>>
    BY <1>1, ServerFrame
  <2>1. \A i \in 1..Len(got') : got'[i] = i
    <3>1. CASE got' = got
      BY <3>1 DEF PrefixInv, DownloadIsPrefix
    <3>2. CASE got' # got
      <4>1. /\ Len(got') = Len(got) + 1 /\ got'[Len(got) + 1] = Len(got) + 1
            /\ \A i \in 1..Len(got) : got'[i] = got[i]
        BY <1>1, <3>2, GotGrows
      <4>2. \A i \in 1..Len(got') : i \in 1..Len(got) \/ i = Len(got) + 1
        BY <1>0, <4>1
      <4> QED BY <4>1, <4>2 DEF PrefixInv, DownloadIsPrefix
    <3> QED BY <3>1, <3>2
  <2>2. ASSUME kind = "download", outcome' = "ok"
        PROVE  Len(got') = size /\ gpc \in {"close", "exit", "done"} /\ hpc' = "done"
    <3>1. CASE ReceiveEnd
      <4>1. /\ pend # <<>> /\ Head(pend).type = "end" /\ Head(pend).n = Fine /\ Len(got) = size
            /\ got' = got /\ hpc' = "done"
        BY <2>2, <3>1 DEF ReceiveEnd, Receives, Return
      <4>2. Head(pend) = pend[1] /\ 1 \in 1..Len(pend)
        BY <1>0, <4>1, TailFacts
      <4> QED BY <4>1, <4>2 DEF StreamInv
    <3>2. CASE outcome = "ok"
      <4>1. Len(got) = size /\ gpc \in {"close", "exit", "done"} /\ hpc = "done"
        BY <2>2, <3>2 DEF PrefixInv, DownloadIsPrefix
      <4>2. got' = got
        BY <1>1, <4>1, GotGrows DEF Receives
      <4>3. hpc' = "done"
        BY <1>1, <4>1 DEF ServerStep, Handler, Timeout, TypeKey, BrowserLeaves, ServerDrops, Shutdown, Deliver,
           LinkEnds, Redial, SendRequest, ReceiveResult, ReceiveFileResult, Answered, ReceiveMeta,
           ReceiveChunk, ReceiveEnd, PendingFailed, SendClose, handlerVars, Deregistered, Return, Receives, Takes
      <4> QED BY <4>1, <4>2, <4>3
    <3>3. CASE ~ReceiveEnd
      <4>1. hpc # "closing"
        BY <2>2 DEF JobInv, CloseInv
      <4>2. outcome' = outcome
        BY <1>1, <2>2, <3>3, <4>1 DEF ServerStep, Handler, Timeout, TypeKey, BrowserLeaves, ServerDrops,
           Shutdown, Deliver, LinkEnds, Redial, SendRequest, ReceiveResult, ReceiveFileResult, Answered,
           ReceiveMeta, ReceiveChunk, PendingFailed, SendClose, handlerVars, Return, Receives
      <4> QED BY <2>2, <3>2, <4>2
    <3> QED BY <3>1, <3>3
  <2> QED BY <2>0, <2>1, <2>2 DEF PrefixInv, DownloadIsPrefix
<1>2. CASE AgentStep
  <2>1. UNCHANGED <<kind, got, outcome, hpc>>
    BY <1>2, AgentFrame
  <2>2. gpc \in {"close", "exit", "done"} => gpc' \in {"close", "exit", "done"} /\ size' = size
    BY <1>2, PlaceStep
  <2> QED BY <2>1, <2>2 DEF PrefixInv, DownloadIsPrefix
<1> QED BY <1>1, <1>2 DEF Next, ServerStep, AgentStep

-----------------------------------------------------------------------------
(* The types.                                                              *)

LEMMA FlagStep ==
    ASSUME TypeOK, Next
    PROVE  {credited', registered', pdone', meta', own', entered', stopped', notice', missed'} \subseteq BOOLEAN
<1>0. {credited, registered, pdone, meta, own, entered, stopped, notice, missed} \subseteq BOOLEAN
  BY DEF TypeOK
<1>1. CASE ServerStep
  <2>1. UNCHANGED <<credited, entered, stopped, notice, missed>>
    BY <1>1, ServerFrame
  <2>2. registered' \in BOOLEAN /\ own' \in BOOLEAN
    BY <1>0, <1>1 DEF ServerStep, Handler, Timeout, TypeKey, BrowserLeaves, ServerDrops, Shutdown, Deliver, LinkEnds,
       Redial, SendRequest, ReceiveResult, ReceiveFileResult, Answered, ReceiveMeta, ReceiveChunk,
       ReceiveEnd, PendingFailed, SendClose, Deregistered
  <2>3. pdone' \in BOOLEAN /\ meta' \in BOOLEAN
    BY <1>0, <1>1 DEF ServerStep, Handler, Timeout, TypeKey, BrowserLeaves, ServerDrops, Shutdown, Deliver, LinkEnds,
       Redial, SendRequest, ReceiveResult, ReceiveFileResult, Answered, ReceiveMeta, ReceiveChunk,
       ReceiveEnd, PendingFailed, SendClose, handlerVars, Overflows
  <2> QED BY <1>0, <2>1, <2>2, <2>3
<1>2. CASE AgentStep
  <2>1. UNCHANGED <<credited, registered, pdone, meta, own>>
    BY <1>2, AgentFrame
  <2>2. entered' \in BOOLEAN /\ notice' \in BOOLEAN
    BY <1>0, <1>2 DEF AgentStep, AgentReads, OtherJobStarts, OtherJobEnds, Sweep, Goroutine, WriteInput, ShellExits,
       SendNotice, ReadRequest, ReadCancel, ReadCredit, ReadInput, ReadClose, CommandEnds, FileOpEnds,
       ReportsResult, ActionAccepted, ActionEnds, ReleaseSlot, DownloadOpens, SendMeta, SendChunk,
       ReadFails, DownloadCancelled, SendEnd, DownloadLeaves, TermStarts, ReadEnds, FinishTerm,
       ReportExit, termVars, jobVars
  <2>3. stopped' \in BOOLEAN /\ missed' \in BOOLEAN
    BY <1>0, <1>2 DEF AgentStep, AgentReads, OtherJobStarts, OtherJobEnds, Sweep, Goroutine, WriteInput, ShellExits,
       SendNotice, ReadRequest, ReadCancel, ReadCredit, ReadInput, ReadClose, CommandEnds, FileOpEnds,
       ReportsResult, ActionAccepted, ActionEnds, ReleaseSlot, DownloadOpens, SendMeta, SendChunk,
       ReadFails, DownloadCancelled, SendEnd, DownloadLeaves, TermStarts, ReadEnds, FinishTerm,
       ReportExit, jobVars, others, StopTerm
  <2> QED BY <1>0, <2>1, <2>2, <2>3
<1> QED BY <1>1, <1>2 DEF Next, ServerStep, AgentStep

LEMMA PlacesStep ==
    ASSUME TypeOK, Next
    PROVE  /\ kind' \in Kind /\ hpc' \in {"send", "wait", "closing", "done"}
           /\ outcome' \in {"none", "ok", "error"} /\ link' \in {"up", "down", "swept"}
<1>1. CASE ServerStep
  <2>1. kind' = kind
    BY <1>1, ServerFrame
  <2>2. hpc' \in {hpc, "wait", "closing", "done"} /\ outcome' \in {outcome, "ok", "error"}
    BY <1>1 DEF ServerStep, Handler, Timeout, TypeKey, BrowserLeaves, ServerDrops, Shutdown, Deliver, LinkEnds,
       Redial, SendRequest, ReceiveResult, ReceiveFileResult, Answered, ReceiveMeta, ReceiveChunk,
       ReceiveEnd, PendingFailed, SendClose, handlerVars, Deregistered, Return
  <2>3. link' \in {link, "up", "down"}
    BY <1>1 DEF ServerStep, Handler, Timeout, TypeKey, BrowserLeaves, ServerDrops, Shutdown, Deliver, LinkEnds,
       Redial, SendRequest, ReceiveResult, ReceiveFileResult, Answered, ReceiveMeta, ReceiveChunk,
       ReceiveEnd, PendingFailed, SendClose
  <2> QED BY <2>1, <2>2, <2>3 DEF TypeOK
<1>2. CASE AgentStep
  <2>1. UNCHANGED <<kind, hpc, outcome>>
    BY <1>2, AgentFrame
  <2>2. link' \in {link, "swept"}
    BY <1>2 DEF AgentStep, AgentReads, OtherJobStarts, OtherJobEnds, Sweep, Goroutine, WriteInput, ShellExits,
       SendNotice, ReadRequest, ReadCancel, ReadCredit, ReadInput, ReadClose, CommandEnds, FileOpEnds,
       ReportsResult, ActionAccepted, ActionEnds, ReleaseSlot, DownloadOpens, SendMeta, SendChunk,
       ReadFails, DownloadCancelled, SendEnd, DownloadLeaves, TermStarts, ReadEnds, FinishTerm,
       ReportExit, others
  <2> QED BY <2>1, <2>2 DEF TypeOK
<1> QED BY <1>1, <1>2 DEF Next, ServerStep, AgentStep

LEMMA QueuesStep ==
    ASSUME TypeOK, JobInv, StageInv, StreamInv, Next
    PROVE  /\ pend' \in Seq(ServerMsg) /\ Len(pend') =< PendingCap
           /\ got' \in Seq(1..MaxChunks) /\ toServer' \in Seq(ServerMsg)
<1>0. /\ pend \in Seq(ServerMsg) /\ Len(pend) =< PendingCap /\ Len(pend) \in Nat
      /\ got \in Seq(1..MaxChunks) /\ toServer \in Seq(ServerMsg)
  BY LengthFacts DEF TypeOK
<1>1. CASE ServerStep
  <2>1. got' \in Seq(1..MaxChunks)
    BY <1>0, <1>1, GotGrows
  <2>2. toServer' = toServer \/ (toServer # <<>> /\ toServer' = Tail(toServer))
    BY <1>1 DEF ServerStep, Handler, Timeout, TypeKey, BrowserLeaves, ServerDrops, Shutdown, Deliver, LinkEnds,
       Redial, SendRequest, ReceiveResult, ReceiveFileResult, Answered, ReceiveMeta, ReceiveChunk,
       ReceiveEnd, PendingFailed, SendClose
  <2>3. toServer' \in Seq(ServerMsg)
    BY <1>0, <2>2, TailFacts
  <2>4. CASE Deliver
    BY <1>0, <2>1, <2>3, <2>4, DeliverCounts
  <2>5. CASE ~Deliver
    <3>1. pend' = pend \/ pend' = <<>> \/ (pend # <<>> /\ pend' = Tail(pend))
      BY <1>1, <2>5 DEF ServerStep, Handler, Timeout, TypeKey, BrowserLeaves, ServerDrops, Shutdown, LinkEnds,
         Redial, SendRequest, ReceiveResult, ReceiveFileResult, Answered, ReceiveMeta, ReceiveChunk,
         ReceiveEnd, PendingFailed, SendClose, handlerVars, Return, Receives
    <3>2. CASE pend' = <<>>
      BY <2>1, <2>3, <3>2
    <3>3. CASE pend # <<>> /\ pend' = Tail(pend)
      <4>1. pend' \in Seq(ServerMsg) /\ Len(pend') = Len(pend) - 1
        BY <1>0, <3>3, TailFacts
      <4> QED BY <1>0, <2>1, <2>3, <4>1
    <3> QED BY <1>0, <2>1, <2>3, <3>1, <3>2, <3>3
  <2> QED BY <2>4, <2>5
<1>2. CASE AgentStep
  <2>1. UNCHANGED <<pend, got>>
    BY <1>2, AgentFrame
  <2>2. toServer' \in Seq(ServerMsg)
    BY <1>0, <1>2, AgentWire, SayFacts DEF Grows
  <2> QED BY <1>0, <2>1, <2>2
<1> QED BY <1>1, <1>2 DEF Next, ServerStep, AgentStep

LEMMA NumbersStep ==
    ASSUME TypeOK, JobInv, JobInv', Next
    PROVE  /\ slots' \in 0..SlotCap /\ taken' \in 0..SlotCap
           /\ size' \in 0..MaxChunks /\ read' \in 0..MaxChunks
           /\ input' \in 0..InputCap /\ exits' \in 0..2
<1>0. slots' \in Nat /\ taken' \in Nat /\ input' \in Nat /\ exits' \in Nat
  BY DEF JobInv, NumbersInv
<1>1. exits' \in 0..2
  BY <1>0 DEF JobInv, ExitOnce
<1>2. taken' =< slots'
  <2>1. slots' = taken' + 0 \/ slots' = taken' + 1
    BY DEF JobInv, SlotsExact
  <2>2. \A m, n \in Nat : m = n + 0 \/ m = n + 1 => n =< m
    OBVIOUS
  <2> QED BY <1>0, <2>1, <2>2
<1>3. slots' =< SlotCap /\ input' =< InputCap /\ size' \in 0..MaxChunks /\ read' \in 0..MaxChunks
  <2>1. CASE ServerStep
    BY <2>1, ServerFrame DEF TypeOK
  <2>2. CASE OtherJobStarts \/ ReadRequest
    <3>1. UNCHANGED <<input, size, read>> /\ (slots' = slots \/ (slots < SlotCap /\ slots' = slots + 1))
      BY <2>2 DEF OtherJobStarts, ReadRequest, jobVars, termVars, downloadVars
    <3> QED BY <3>1 DEF TypeOK
  <2>3. CASE ReadInput \/ ReadClose \/ Sweep \/ WriteInput \/ FinishTerm
    <3>1. UNCHANGED <<size, read>>
      BY <2>3 DEF ReadInput, ReadClose, Sweep, WriteInput, FinishTerm, downloadVars
    <3>2. slots' = slots \/ slots' = Released
      BY <2>3 DEF ReadInput, ReadClose, Sweep, WriteInput, FinishTerm, StopTerm
    <3>3. input' = input \/ input' = input - 1 \/ (input < InputCap /\ input' = input + 1)
      BY <2>3 DEF ReadInput, ReadClose, Sweep, WriteInput, FinishTerm, termVars
    <3>4. slots \in 0..SlotCap /\ input \in 0..InputCap /\ size \in 0..MaxChunks /\ read \in 0..MaxChunks
      BY DEF TypeOK
    <3>5. slots' =< SlotCap
      BY <3>2, <3>4, AgentJobAssumption DEF Released
    <3>6. input' =< InputCap
      BY <3>3, <3>4, AgentJobAssumption
    <3> QED BY <3>1, <3>4, <3>5, <3>6
  <2>4. CASE OtherJobEnds \/ ReleaseSlot
    BY <2>4 DEF OtherJobEnds, ReleaseSlot, jobVars, termVars, downloadVars, TypeOK
  <2>5. CASE DownloadOpens \/ SendChunk \/ ReadFails
    BY <2>5 DEF DownloadOpens, SendChunk, MayRead, ReadFails, others, termVars, TypeOK
  <2>6. CASE \/ ReadCancel \/ ReadCredit \/ ActionEnds
             \/ DownloadCancelled \/ DownloadLeaves \/ ReadEnds \/ ShellExits \/ CommandEnds
             \/ FileOpEnds \/ ActionAccepted \/ TermStarts \/ ReportExit \/ SendNotice \/ SendMeta \/ SendEnd
    <3>1. UNCHANGED <<slots, input, size, read>>
      BY <2>6 DEF ReadCancel, ReadCredit, ActionEnds, DownloadCancelled, DownloadLeaves, ReadEnds, ShellExits,
         CommandEnds, FileOpEnds, ReportsResult, ActionAccepted, TermStarts, ReportExit, SendNotice, SendMeta,
         SendEnd, slotVars, downloadVars, termVars
    <3> QED BY <3>1 DEF TypeOK
  <2> QED BY <2>1, <2>2, <2>3, <2>4, <2>5, <2>6 DEF Next, ServerStep, AgentReads, Goroutine
<1> QED BY <1>0, <1>1, <1>2, <1>3

LEMMA TypeStep ==
    ASSUME TypeOK, JobInv, DataInv, DownloadFits, Next
    PROVE  TypeOK'
<1>1. JobInv'
  BY JobStep
<1>2. credits' \in 0..Window
  BY CreditInvStep DEF DataInv
<1>3. toAgent' \in Seq(AgentMsg) /\ gpc' \in {"none", "start", "busy", "meta", "stream", "close", "relay",
                                             "finish", "report", "exit", "done"}
  BY <1>1 DEF JobInv, WireInv, PlaceInv
<1>4. StageInv /\ StreamInv
  BY DEF DataInv
<1> QED BY <1>1, <1>2, <1>3, <1>4, FlagStep, PlacesStep, QueuesStep, NumbersStep DEF TypeOK

-----------------------------------------------------------------------------
(* Every state.                                                            *)

LEMMA DataInit == Init => TypeOK /\ DataInv
<1> SUFFICES ASSUME Init PROVE TypeOK /\ DataInv
  OBVIOUS
<1>1. TypeOK
  <2>1. {credited, registered, pdone, meta, own, entered, stopped, notice, missed} \subseteq BOOLEAN
    BY DEF Init
  <2>2. pend = <<>> /\ got = <<>> /\ toAgent = <<>> /\ toServer = <<>>
    BY DEF Init
  <2>3. /\ slots \in 0..SlotCap /\ taken \in 0..SlotCap /\ size \in 0..MaxChunks /\ read \in 0..MaxChunks
        /\ credits \in 0..Window /\ input \in 0..InputCap /\ exits \in 0..2
    BY DEF Init
  <2>4. kind \in Kind /\ hpc = "send" /\ outcome = "none" /\ link = "up" /\ gpc = "none"
    BY DEF Init
  <2> QED BY <2>1, <2>2, <2>3, <2>4 DEF TypeOK
<1>2. DataInv
  BY DEF Init, DataInv, BeginInv, StageInv, CreditInv, StreamInv, PipeInv, ResultInv, PrefixInv,
     DownloadIsPrefix, Lead
<1> QED BY <1>1, <1>2

LEMMA DataStep == TypeOK /\ JobInv /\ DataInv /\ [Next]_vars => TypeOK' /\ DataInv'
<1> SUFFICES ASSUME TypeOK, JobInv, DataInv, [Next]_vars PROVE TypeOK' /\ DataInv'
  OBVIOUS
<1>1. CASE Next
  <2>1. BeginInv /\ StageInv /\ CreditInv /\ StreamInv /\ PipeInv /\ ResultInv /\ PrefixInv
    BY DEF DataInv
  <2>2. DownloadFits
    BY <2>1, RoomLeft
  <2>3. TypeOK'
    BY <1>1, <2>2, TypeStep
  <2>4. DataInv'
    BY <1>1, <2>1, <2>2, BeginInvStep, StageInvStep, CreditInvStep, StreamInvStep, PipeInvStep,
       ResultInvStep, PrefixInvStep DEF DataInv
  <2> QED BY <2>3, <2>4
<1>2. CASE UNCHANGED vars
  <2> USE <1>2 DEF vars, setup, handlerVars, slotVars, jobVars, downloadVars, termVars
  <2>1. TypeOK'
    BY DEF TypeOK
  <2>2. Takes' = Takes /\ Lead' = Lead /\ Fresh' = Fresh
    BY DEF Takes, Lead, Fresh
  <2>3. BeginInv' /\ StageInv' /\ CreditInv' /\ ResultInv' /\ PrefixInv'
    BY <2>2 DEF DataInv, BeginInv, StageInv, CreditInv, ResultInv, PrefixInv, DownloadIsPrefix
  <2>4. StreamInv' /\ PipeInv'
    BY <2>2 DEF DataInv, StreamInv, PipeInv
  <2> QED BY <2>1, <2>3, <2>4 DEF DataInv
<1> QED BY <1>1, <1>2

\* The types, the strengthening of JobInv and the one of the download, which relates the
\* credits, the two wires, the channel of the handler and the chunks of the browser
\* (internal/server/files.go and cmd/agent/files.go), hold in every state.
THEOREM DataInvHolds == Spec => [](TypeOK /\ JobInv /\ DataInv)
<1>1. Init => TypeOK /\ JobInv /\ DataInv
  BY JobInit, DataInit
<1>2. TypeOK /\ JobInv /\ DataInv /\ [Next]_vars => (TypeOK /\ JobInv /\ DataInv)'
  BY JobStep, DataStep
<1> QED BY <1>1, <1>2, PTL DEF Spec

\* Every variable of the job keeps its range, for every limit of the agent and every length
\* of the server's queue: slots stay within the limit of the kind, the credits within the
\* window, the channel within its capacity (cmd/agent/main.go, internal/server/server.go).
THEOREM TypeCorrect == Spec => []TypeOK
BY DataInvHolds, PTL

\* handleFileDownload and deliver (internal/server/files.go, server.go): with an agent that
\* waits for credits, a message never meets a full channel, whatever the window, as long as
\* the capacity has room for two messages more: errPendingBackpressure never ends a download.
THEOREM DownloadFitsHolds == Spec => []DownloadFits
<1>1. TypeOK /\ JobInv /\ DataInv => DownloadFits
  BY RoomLeft DEF DataInv
<1> QED BY <1>1, DataInvHolds, PTL

\* handleFileDownload (internal/server/files.go and cmd/agent/files.go): the browser gets the
\* chunks of the file in order and without a gap, and a complete answer is the whole file.
THEOREM DownloadIsPrefixHolds == Spec => []DownloadIsPrefix
<1>1. TypeOK /\ JobInv /\ DataInv => DownloadIsPrefix
  BY DEF DataInv, PrefixInv
<1> QED BY <1>1, DataInvHolds, PTL

=============================================================================
