# homectl in TLA+

homectl is a control panel for machines at home: a server with a web panel and a SQLite
database, and one agent per machine that keeps a WebSocket to the server. This directory holds
TLA+ modules that model the parts of it in which goroutines, connections, crashes and database
statements interleave, the TLC configurations that check them, and TLAPS proofs of
their safety properties for every size of the instance. `PROJECT.json` lists components, runs, mutants, the map
from definitions to source lines, findings, hazards and theorems.

## 1. Inventory

| Part | State it keeps | Operations | Talks to | What makes it correct |
|---|---|---|---|---|
| Agent and terminal registry (`server.go`) | `Server.agents`, `Server.terms`, `done` channels, sockets | agent WebSocket, terminal WebSocket, logout, credential change, device deletion, shutdown | sessions and devices tables, every handler that calls `getOnlineAgent` | an entry is a connection that somebody reads; a replaced connection ends; no terminal outlives its session |
| Administrator authentication (`auth.go`, account part of `store.go`) | admins row, sessions, `preAuth`, `totpFailures`, `totpSetups`, hash slots | login, TOTP stage, logout, change of name and password, TOTP setup, enable, disable | registry (closes terminals) | a code and a pre-auth are good once; a lock stops requests under way; a change of credentials ends what the old ones opened |
| Enrollment and identity (`state.go`, `main.go` of the agent, `handleAgentWS`, `EnrollDevice`) | `state.json`, `agent.state`, devices, enrollment tokens | start, dial, hello, ack, save, token creation, deletion | registry | an enrolled device can always authenticate again; a token binds one device |
| File upload (`files.go` on both sides) | credits, pending channel, `uploads`, event queue, temporary file | start, chunk, credit, end, abort, timeout, loss of the connection | registry, pending requests | no queue overflows in normal use; the target is whole or untouched; nothing is left behind |
| Devices table and migration (`store.go`) | schema version, columns, rows, display order | start of the server, JSON import, enroll, rename, reorder, delete | panel | a running server has its schema; only a drag moves devices |
| File download (`files.go` on both sides) | `downloads`, credits, slot | start, credit, cancel, data | pending requests | the window bounds the queue; the file arrives in order and whole; a cancelled download ends |
| Requests, commands, actions, file operations | `Server.pending`, agent slots | request, deliver, timeout, remove | agents | a request is answered while its connection lasts; slots come back exactly once |
| Agent terminals (`main.go`) | `terms`, slots, shells | open, input, resize, close, loss of the connection | server terminals | no shell outlives its terminal; its end is reported once |
| Heartbeats and metric policy | last heartbeat, cards, policy on the agent | heartbeat writer, policy push | devices table | the agent works by the stored policy, and the stored heartbeat follows it |
| Password throttles (`auth.go`) | failure windows per client and session | allow, record, clear, evict | login | bounded maps, a lockout that lasts |
| Telemetry, configuration, hashing, protocol types, panel, installation | none that is shared | I/O, parsing, pure functions | | |

Hard behaviours: goroutines that read under a lock and act after releasing it; a reconnect that
overtakes the end of the old connection; transactions that commit between a check and its use;
flow control whose two ends must agree; an agent or server that ends between two writes. The
hazards, each at its line, are in `PROJECT.json`; the ones no property covers yet say why.

## 2. Modules

| Module | Models | Extended by |
|---|---|---|
| `Hub` | registry, terminals, revocation, deletion, shutdown | `MCHub`, `HubProofs` |
| `Upload` | one upload, both ends and the wire | `MCUpload`, `UploadProofs`, `UploadRefinement` |
| `AtomicUpload` | what an upload promises: the target appears whole in one step, or never | instantiated by `Upload` |
| `AgentJob` | one command, action, file operation, download or terminal, from the server's handler to the agent's goroutine and back | `MCAgentJob`, `AgentJobProofs` |
| `MetricPolicy` | the cards of a device, the policy on the agent, and the heartbeats collected under it | `MCMetricPolicy`, `MetricPolicyProofs` |
| `Login` | password and TOTP login, account changes | `MCLogin`, `LoginProofs` |
| `Enrollment` | identity file, handshake, tokens, credentials | `MCEnrollment`, `EnrollmentProofs` |
| `DeviceTable` | start of the server, migration, import, order | `MCDeviceTable`, `DeviceTableProofs` |

The modules meet in the tables: `Hub` treats enrollment as one step with a free outcome, which
`Enrollment` spells out, and which `MetricPolicy` reduces to the read of the record, the registration
and the ack; `AgentJob` begins where `Hub` and the handlers have found a connection; `Login` treats
the sessions as a set of rows, whose effect on open terminals is `Hub`; `DeviceTable` takes the row that `Enrollment` inserts as one INSERT.

**Atomic steps.** In `Hub` and `Login` a step is a critical section (`Server.mu`, `authMu`), a
call of the store, or a call that closes a socket. The store uses one SQLite connection
(`SetMaxOpenConns(1)`), so one call is one step. Every `pc` label is a point where another
goroutine can run; the values a handler read before it are kept in its own variables
(`tagent`, `cred`, `snap`, `todo`) and used stale, as the code does. Two actions stand for more than one
such section: `MetricPolicy!Register` (entry in the map, stop of the replaced connection, start of the writer)
and `Upload!StopUpload` (entry out of the map, stop channel closed, file closed). What the replaced connection
still does in between goes by its own queue, or is dropped because it is not the registered one any more, so
it could as well be done before or after; a worker whose entry is gone can no longer commit, and the choice of its
`select` lets it go on with a closed stop channel too. `Hub` has the steps of the registration apart.

**Hub.** `agents`, `terms` are the two maps; `up` the open agent sockets; `closed` the terminals
whose `forceClose` has run. `todo` and `kill` are the local slices of `closeBrowserTerms...`,
`handleDeleteDevice` and `Shutdown`: copied under the lock and worked off after it. An agent
handler goes idle, (enroll), register, (snapshot, close), serve, remove, (snapshot), close,
done. `row[d]` is the credential stored for the device, named after the connection that enrolled
it, so that re-enrollment after a deletion is told apart. Whether a heartbeat is fresh
(`deviceOnline`) is a free choice of `TermLookupAgent`.

**Upload.** Both directions of the socket are FIFO queues, lost together by `Drop`. A chunk is
its number in the body, which is all that "whole and in order" needs. `session` is the
`uploadSession` as the set of what is still there: map entry, closed stop channel, descriptor,
temporary file. Timeouts are `WaitFails`, possible whenever the handler waits. Mode `direct` is
the path of an agent without the capability `file_upload_credits`. Go's `select` between stop
and events is a choice of `WorkerStops` and `WorkerTakes`.

**AtomicUpload.** `Upload` instantiates it with a refinement mapping: the body as a sequence of chunk
numbers, the target, whether the upload has been stored or stopped, and the answer. An error is
allowed in every state: a lost answer, or a timeout that races the rename, leaves the browser with
an error and the file in place, and the code promises no more.

**AgentJob.** One job of one of five kinds (`kind`), because they share the shape: a handler with a
pending request or a browser terminal, a slot and a goroutine on the agent, and two tables,
`agent.terms` and `agent.downloads`, in which the job is `entered` only after its goroutine has
started. The other jobs of the kind are a number (`taken`). `toAgent` and `toServer` are the wire of
the connection the handler looked up; `own` says whether the agent still has that one, and `link` where
its loop over connections stands: `up`, `down` (`run` has returned), `swept` (the tables are
emptied). The server may close a connection the agent still reads and may read what a lost one
still delivered. `stopped` is `termSession.stop` or the context of a download. A download runs with
or without the capability `file_download_credits`. `exits` and `missed` are history: the reports of
an end, and whether a close, a cancel or a sweep came before the job was in its table.

**MetricPolicy.** `stored` is the column, `cards` the agent's policy, `info` the policy under which
the last stored heartbeat was collected. `NormalizeMetricCards` is applied to every input, duplicates
and unknown cards included; its loop over the six cards of `metricCardOrder` is written out
(`InOrder`). A change of the cards is three steps (store, look the agent up, send); a
connection is read of the record, registration, `hello_ack` with the record that was read, then
messages in order. The heartbeat writer of each connection holds at most one heartbeat and goes
on after its connection was replaced. Unused requests and connections are taken in a fixed order
(`IsNext`), which is the symmetry of interchangeable names without TLC's restriction on liveness.
`raced` is history: the connections that met one of the windows of `AppliedUnlessRaced`.

**Login.** A request is used once and names what it creates (token, session, password, secret).
Expiry is a step that removes what the code would treat as absent. The password throttles only
stop requests, so a request may stop where they are asked.

**Enrollment.** `disk` and `mem` are `state.json` and `agent.state`; `saveState` is atomic (write,
sync, rename). A crash, a failed write or a lost connection may come between any two steps, up to
`MaxFaults` of them. A connection whose agent has given up may still be handled by the server. Deletion
is two steps, the row and then the stop of the connection (`deleting` holds the devices in between), and
the stop may find none: the stage `acked` also stands for a connection that is not registered yet. `uses` is
history: the rows ever inserted under each enrollment token, so that `TokenBindsOnce` sees a second insert of the
same device too.

**DeviceTable.** Each statement of `OpenStore` that commits by itself is a step, so the process can
end between any two. `Init` has no database, every schema of the earlier releases, those with the devices
table alone (`store_test.go:354-370`) included, and a later one. The import of the JSON store runs at each start.

## 3. Runs

All bounds are constants of the modules, set in the cfg files. `CHECK_DEADLOCK FALSE` everywhere:
identifiers are used once, so a run of a small instance ends when they are used up, and an
upload or a job that is done does nothing more.

| Run | Instance | Shows |
|---|---|---|
| `hub` | 2 connections of 1 device, 1 terminal, 1 session, 1 administrator request or shutdown | `TypeOK`, `NoDetachedTerminal`, `NoDeadRegistration`, `SupersededIsStopped`, `OutdatedHandlersEnd` |
| `hub_delete` | 1 connection, 1 request | violation of `DeletedDeviceDisconnected` |
| `upload` | window 4, pending queue 8 (the code's values), bodies of 0 to 6 chunks, both modes, known and unknown length | `TypeOK`, `AgentQueueFits`, `PendingFits`, `CommittedIsWhole`, `OkMeansCommitted`, `StoppedNeverCommits`, `UploadReleased`, and that `Upload` implements `AtomicUpload` (`ImplementsAtomicUpload`) |
| `login` | 4 requests, 1 hash slot, 2 pre-auths, 2 attempts, lock after 1 failure, codes of 2 time steps | `TypeOK`, `TOTPStepOnce`, `PreAuthOnce`, `BusyIsOwned`, `LockVoidsPreAuth`, `OverrunIsOverlap` |
| `login_session`, `login_rehash` | 4 requests, `preauth_max_attempts` 3, the least the configuration allows; 2 hash slots for `login_rehash` | violations of `SessionsFollowPassword`, `PasswordStays` |
| `enroll` | 1 agent, 2 connections, 2 ids, device tokens and enrollment tokens, 2 faults | `TypeOK`, `NeverLockedOut`, `TokenBindsOnce`, `EnrolledGetsOnline` |
| `enroll_save` | the same | violation of `OnlineIsSaved` |
| `devices` | 3 ids, 2 names, 1 device in the JSON store, order up to 4 | `TypeOK`, `UpMeansMigrated`, `OrderStays`, `DraggedAsShown`, `ImportKeepsRows` |
| `devices_migration` | the same | violation of `MigrationKeepsOrder` |
| `agent_job` | every kind of job, 2 slots, window 2, pending queue 4, files of 0 to 5 chunks, input queue 1, 2 keystrokes on the wire | `TypeOK`, `SlotsExact`, `DownloadFits`, `DownloadIsPrefix`, `ExitOnce`, `UnattendedWorkEnds`, `AnsweredWithoutTimer` |
| `metric_policy` | 2 connections, 2 changes of the cards | `TypeOK`, `AppliedUnlessRaced`, `HeartbeatsFollowPolicy` |

Why the bounds are enough:

- *Hub.* The races are between pairs: an old and a new connection, a terminal and a revocation, a
  deletion and a registration, a shutdown and any of them. The proofs of section 5 cover any number
  of connections, requests, terminals, sessions and devices.
- *Upload.* The window is the code's. Six chunks are more than the window, so the handler runs
  out of credit, waits, and drains; zero chunks are the empty file.
- *Login.* Four requests are a login, two overlapping TOTP requests under its token and one
  account change or second login. Two pre-auths fill the table with three logins, so eviction
  happens. The limits are 32 pre-auths, 5 attempts and 10 failures by default, and at least 3 each of the
  latter in a configuration; `login` locks at the first failure and allows two attempts, so that four
  requests reach both limits with another one under way. The limits are only compared with counters,
  so smaller ones change how many requests it takes and nothing else.
- *Enrollment.* Two faults are a lost ack and a crash or failed write after it; two ids and tokens
  let a device start over after a deletion, two enrollment tokens let the operator replace a used one.
- *DeviceTable.* Three devices with two names have ties by name and, after an interrupted
  migration, ties by order; order up to 4 leaves gaps after deletions.
- *AgentJob.* One job is enough: jobs of an agent share the slots, whose other holders are counted,
  and the wire, where what is written for one job is not read for another. A window of 2 and five chunks
  make the goroutine run out of credit, go on and end; the pending queue keeps the code's margin over
  the window (2 more; the code has 8 for a window of 4). Without credits the chunks overflow it. An
  input queue of 1 with two keystrokes overflows. Connections after the job's own are not bounded.
- *MetricPolicy.* Two connections are a replaced one with its writer still at work and its successor;
  two changes are needed for one to overtake the other.

Each property of a passing run has a mutant in `PROJECT.json`: a bug of the kind the code could
have, defined beside the definition it replaces, under which TLC finds the property violated.

### Fairness

- `Hub.FairSpec`: every handler that can go on does (the Go scheduler runs every runnable
  goroutine), and a timer that was started fires. Nothing is assumed of agents, browsers,
  administrators or the clock.
- `Upload.FairSpec`: both read loops, the agent's worker, its clean-up after a lost connection, and
  the handler's waits, which end by a message or by their timer. Nothing is assumed of the
  browser: `SendChunk`, `BodyEnds` and `BodyFails` have no fairness, so an upload may hang in
  its body as long as the browser does. `UploadReleased` takes it that the file system removes what it is asked
  to: the agent ignores the error of `os.Remove` (`files.go:664`).
- `AgentJob.FairSpec`: handlers, goroutines and both read loops run; a command ends, since it has a
  timeout; the agent's read notices that the server has closed the connection. Nothing is assumed of
  browsers, timers of requests, shells, other jobs or the network, and a shell may run forever. In particular
  the handler of a download that has a chunk need not go on (`HandlerGoes`): it writes to the browser, the
  response has no write deadline (`cmd/server/main.go:65-70`), and until the write returns it reads neither its
  channel nor its timer. So `AnsweredWithoutTimer` says that a request is answered, or waits for its
  browser, as long as the connection lasts.
- `MetricPolicy.FairSpec`: handlers and read loops run, the heartbeat ticks, and the database does not
  refuse every heartbeat of a connection (strong fairness of `WriterStores`: it may refuse any
  number of them). Nothing is assumed of the administrator or the network.
- `Enrollment.FairSpec`: the agent dials again forever and the service manager restarts it
  (`main` loops over `run`); the server handles what it has received. Faults are finite. Nothing
  is assumed of the administrator or the operator.

## 4. Findings

Five runs show the code doing something else than a document, a comment or a test says. The
quotations and lines are in `PROJECT.json`.

1. `hub_delete`: a device deleted while its agent is between the check of its token and its
   registration stays connected with a credential that is gone.
2. `login_session`: a login that verified the old password creates its session after the change
   of the password revoked all of them.
3. `login_rehash`: with `password_hash_concurrency` of 2 or more, the upgrade of a bcrypt hash
   can write the old password over the new one.
4. `enroll_save`: after one failed write of `state.json` the device is online while its file
   stays marked pending, so it does not start once `enroll_token` has been emptied.
5. `devices_migration`: a start that ends between adding `sort_order` and filling it loses the
   order of the earlier release.

Some properties of passing runs are stated with an exception, because the code leaves a window open.
The exception is part of the statement, with a history variable that is set only in the window:

- `AppliedUnlessRaced`: a change of the cards that is stored and finds no agent while the connection is
  between the read of its record and its registration, or that is sent after a later one was
  stored, leaves the agent with the earlier policy until its next handshake. The documents
  (CONFIGURATION.md:115, WEB_PANEL.md:38) promise that an online agent gets it at once.
- `UnattendedWorkEnds`: a `term_close`, a `file_cancel` or the sweep of the tables that comes before the
  goroutine has entered the job finds nothing, and the shell or the download goes on until the next
  loss of a connection.
- `OverrunIsOverlap`: overlapping requests compare more wrong codes under one pre-auth than
  `preauth_max_attempts`, which CONFIGURATION.md:20 states as a limit without exception; only requests that
  overlap do, and the global `totp_max_failures` holds.

## 5. Theorems

Every invariant, every action property and the refinement that the passing runs check is proved by TLAPS
for all values of the constants that satisfy the module's assumption:

- `HubAssumption`: the pools of identifiers are disjoint and the null values outside them.
- `UploadAssumption`: the window is at least 1 and the pending queue holds two messages more.
- `AgentJobAssumption`: the limits are positive and the pending queue holds two messages more than the
  window. The code's constants (4 and 8) satisfy both.
- `LoginAssumption`: finitely many requests, null values outside them, positive limits; the
  configuration refuses a limit of zero.
- `EnrollmentAssumption`: the null value is outside the pools, and no device id is one of the
  names the model gives to the states of an enrollment token that is not bound (separate columns in the code).
- `MetricPolicyAssumption`: the null value is not a connection, requests and connections are disjoint,
  and a request brings a list of strings, of any length and content.
- `DeviceTableAssumption`: ids and names are numbers, so that they can be compared; the devices are
  finitely many and the bound on display orders, which only the model has, leaves room for each.

| Theorem | Argument |
|---|---|
| `HubProofs!TypeCorrect` | `TypeOK` is inductive |
| `HubProofs!NoDeadRegistrationHolds`, `SupersededIsStoppedHolds` | `RegistryInv` is inductive |
| `HubProofs!NoDetachedTerminalHolds` | `TerminalInv` is inductive relative to `HandlerInv` |
| `UploadProofs!TypeCorrect` | `TypeOK /\ OwnerInv` is inductive |
| `UploadProofs!OkMeansCommittedHolds` | `ReplyInv /\ OkMeansCommitted` is inductive |
| `UploadProofs!StoppedNeverCommitsHolds` | action property, from `OwnerInv` |
| `UploadRefinement!UploadInvHolds` | `UploadInv` is inductive |
| `UploadRefinement!AgentQueueFitsHolds`, `PendingFitsHolds`, `CommittedIsWholeHolds` | from `UploadInv` |
| `UploadRefinement!ImplementsAtomicUploadHolds` | refinement, step by step, from `UploadInv` |
| `AgentJobProofs!JobInvHolds`, `SlotsExactHolds`, `ExitOnceHolds` | `JobInv` is inductive |
| `AgentJobProofs!DataInvHolds`, `TypeCorrect` | `TypeOK /\ DataInv` is inductive relative to `JobInv` |
| `AgentJobProofs!DownloadFitsHolds`, `DownloadIsPrefixHolds` | from `DataInv` |
| `LoginProofs!LoginInvHolds`, `TypeCorrect` | `TypeOK /\ LoginInv` is inductive |
| `LoginProofs!TOTPStepOnceHolds`, `PreAuthOnceHolds`, `BusyIsOwnedHolds` | from `LoginInv` |
| `LoginProofs!LockVoidsPreAuthHolds`, `OverrunIsOverlapHolds` | action properties, from `LoginInv` |
| `EnrollmentProofs!EnrollmentInvHolds`, `TypeCorrect` | `TypeOK /\ EnrollmentInv` is inductive |
| `EnrollmentProofs!NeverLockedOutHolds`, `TokenBindsOnceHolds` | from `EnrollmentInv` |
| `DeviceTableProofs!UpMeansMigratedHolds`, `MigrationInvHolds`, `TypeCorrect` | `TypeOK /\ MigrationInv` is inductive |
| `DeviceTableProofs!ImportKeepsRowsHolds`, `DraggedAsShownHolds` | action properties, from `TypeOK` |
| `DeviceTableProofs!OrderStaysHolds` | action property, from `MigrationInv` |
| `MetricPolicyProofs!PolicyInvHolds`, `TypeCorrect` | `TypeOK /\ PolicyInv` is inductive |
| `MetricPolicyProofs!AppliedUnlessRacedHolds` | from `PolicyInv` |

Each strengthening is a definition of the component's module and was checked with TLC before it was proved.

- `RegistryInv` adds to the two properties that a handler holds connections to stop, or terminals
  to close, only at the labels where it works them off (`HandlerInv`). Without it a handler could
  return with a connection still on its list, and `SupersededIsStopped` would not survive.
- `TerminalInv` says where an open terminal can be found between its registration and its end: in
  `terms`, or in the copy of a handler that took it out (`Shutdown`). With that, a revocation
  either comes before the second `SessionValid`, which refuses the terminal, or its copy, still to
  be taken, will contain it. This is the argument of the comment in `handleTerminalWS`.
- `OwnerInv` says who may commit an upload: `removeUpload` and `stopUpload` take the map entry
  under one lock, so a worker at its commit excludes a stop before or after. `TypeOK` of `Upload`
  needs it because a worker that writes must hold a chunk.
- `ReplyInv` follows a success from the worker through the wire and the pending channel: each of
  them is in transit only after the rename.
- `UploadInv` is the account of an upload. Where the handler stands fixes what it has sent
  (`HandlerInv`, `StartInv`, `EndInv`); while the entry is in the map, what was sent and has not arrived
  is on the wire in order (`WireInv`), what arrived is in the file, in hand or queued in order
  (`ContentInv`), and the handler has got at most the credits the worker has returned (`CreditInv`).
  Hence the chunks under way never exceed the window, and the agent's queue holds them. Once the entry is gone these
  equations end, and `AnswersInv` bounds what the agent can still send: the end of the worker and the
  answer to an end that finds no entry. These two come on top of the credits, so two places
  more than the window are enough in the pending queue. `CommitInv` keeps the target absent until the entry was
  taken, and with `ContentInv` the file is whole at the commit.
- *The refinement.* The rename, by the worker or in `ReadEnd` of a direct upload, is the step `Store` of
  `AtomicUpload`; closing the stop channel is `Stop`, the handler's return `AnswerOk` or `AnswerError`; all
  other steps leave the mapped variables alone. `UploadInv` makes the stored target the body, because the
  content is whole at the rename, and lets `AnswerOk` find it stored.
- `JobInv` is needed because a slot is given back by whoever ends the job: the goroutine, or, once a
  terminal is running, the first call of `termSession.stop`. It says which kinds can be where
  (`PlaceInv`), that only a terminal is closed and ended by messages (`WireInv`, `CloseInv`), that the
  request is read once and before everything else (`WireInv`), and that the table entry is what entitles
  to report an end (`ExitInv`): `finishTerm` and `termInput` both take it out under the lock, and the one
  that finds it reports.
- `DataInv` follows the data of a job. Nothing is answered before the request was taken (`BeginInv`); the
  window of a download is split between the agent, the wire and the chunks the browser has not got
  (`CreditInv`); the chunks follow each other through the channel and the wire (`StreamInv`), which hold what
  was sent and at most its end (`PipeInv`). `DownloadFits` follows from these bounds. The other kinds have one
  answer (`ResultInv`). `DownloadIsPrefix` has to outlive the connection, when the wire is lost
  but the channel still holds chunks, so `StreamInv` orders the channel always and the wire only
  while the handler takes from it.
- `LoginInv`: what a request has in its hands at each label (`RequestInv`), tokens are issued once
  (`IssueInv`), the wrong codes under a pre-auth are those counted and those about to be
  (`CountInv`, which is `OverrunIsOverlap` in inductive form), and a pre-auth has one holder or one winner
  (`ClaimInv`): claiming sets `busy` under `authMu`, and the winner deletes the entry before it is done.
  `SessionInv` relates the recorded time step to the sessions; the steps that set it back also
  delete the sessions, which is why `TOTPStepOnce` survives them. `LockInv` says the lock has cleared the
  pre-auths of all requests that were let in, so none can be claimed.
- `EnrollmentInv`: a process works with the id and token of its file (`ProcessInv`), ids are drawn once
  (`IdInv`), and every hello ever sent for an id, however old its connection, carried the token in
  the file (`CredentialInv`). The last is the point: a late hello may still be enrolled, and what it
  stores is what the agent will present. `TokenBindsOnce` is a part of it: an insert and the use of its token are
  one transaction, so the count of inserts and the state of the token go together.
- `MigrationInv` gives each stage of the start the columns of the stages before it, and says that
  the current version means a complete schema, which is what lets a later start skip the migration. Its
  stages run only below the current version, so that their renumbering is no exception to `OrderStays`. A new
  device comes last because its order is one past the largest, which exists in a finite table; a drag
  covers the table because a list without duplicates of the table's length has every device.
- `PolicyInv`: how far a connection is and what may be on its wire (`PhaseInv`), that of the changes under
  way only one carries what is stored, unless it was overtaken (`RaceInv`), and where the
  stored policy is on its way to the agent: in the record the handler has read, last on the wire, or in
  a change that has yet to look the agents up or to send (`DeliveryInv`). `TypeOK` rests on
  lemmas about the normalization: its result is a policy, and normalizing a policy changes nothing,
  so what the server stores, the agent keeps.

### Model-checked only

The six liveness properties (`OutdatedHandlersEnd`, `UploadReleased`, `EnrolledGetsOnline`,
`UnattendedWorkEnds`, `AnsweredWithoutTimer`, `HeartbeatsFollowPolicy`) are beyond the prover, which has no
reasoning about fairness. The violations of section 4 are counterexamples of TLC.

## 6. Not modelled

The password throttles (failure windows per client and session, and their bounded map) are planned
(section 7); `Login` leaves it open whether they refuse a request, which covers what they can do to a
login. Left out for good: telemetry collection (I/O and arithmetic on one
goroutine), configuration parsing (done once, its limits are the constants here), Argon2id, bcrypt and
HMAC (pure library functions), the JSON encoding of messages, the browser's code (its requests
are the inputs of the modules), installation and release scripts. An agent that sends its enrollment token as
`token`, as agents older than this repository's did, is not modelled, nor are agents without the
capability for metric policies, to which none is sent. Of terminals, output and window sizes are left
out: they change no table and no slot.

## 7. Plan

Done, in the order of what would hurt most: `Hub`, `Upload`, `Login`, `Enrollment`, `DeviceTable`,
`AgentJob`, `MetricPolicy`, and `AtomicUpload` with the refinement.

Next module: `Throttle`, the failure windows, lockouts and eviction of `passwordFailures`, and
`reauthFailures`.

Abstract specifications worth stating next: a map from devices to at most one live connection, refined by
`Hub`; an account whose sessions are opened in one step, refined by `Login` outside the findings above.

Proofs: every safety property of the passing runs has one. Next are the refinements of these two
specifications, and for `Throttle` that a lockout lasts and that the maps stay within their bounds.
