# Verification of managed-agents

TLA+ models of the parts of managed-agents that must survive crashes, retries and
interleavings, the TLC runs that check them on small instances, and proofs of the
central invariants for every instance. `PROJECT.json` lists the components, the runs,
the mutants that show each property can fail, the map from definitions to source
lines, and the hazards the properties are for.

## 1. Inventory

The platform runs agent sessions. A caller creates a session and appends inputs; a
harness (the agent's logic) reacts to each input by changing its tables and by
submitting operations: a model call, a shell command, a file edit. Results come back
later as completions and are inputs themselves.

```
 caller -> agent API -> session object (driver + runtime + harness)
                             |   ^ completion
                             v   |
                    LLM worker / tool workers (stateless)
                             |   ^ callback, acknowledged once admitted
                             v   |
                 LLM gateway (external) / execution gateway (one object per machine)
                                             |   ^ results, sent until acknowledged
                                             v   |
                                   execution daemon (journal) -> execution core
```

| Component | State | Operations | What is hard | What makes it correct |
|---|---|---|---|---|
| Session driver (`packages/session-runtime/src/driver.ts`) | lock queue, running drain, cached receipts, alarm | initialize, appendInput, acceptCompletion, resume, alarm, drain | admissions overlap a drain that awaits providers; the activation is lost anywhere; a timeout is not a refusal | admitted work always has an alarm behind it; a submitted operation is never dropped or replaced |
| Session runtime (`runtime.ts`, `storage/`) | inbox, pending operations, progress, harness tables | prepare, commit, check completions | callbacks arrive before the commit that explains them, twice, or after a restart | events are applied once and in order; replay submits the same operations |
| Minimal-bash and pi-no-compaction harnesses | phase, active operation, conversation, steering queue | message, cancel, resume, completion | results out of order; failures in the middle of a batch of tool calls; cancellation and steering at any moment | every tool call has one true result; mutations keep their order; no operation is orphaned |
| Session execution binding | pinned daemon generation, shared discovery | prepare, submit, toolCompletion | pinning races with submission; the daemon restarts | a session never runs in two generations |
| Tool workers (bash, read, edit, write) | none; images in an external store | submit, acceptExecutionResult, upload | classification of errors into rejected and uncertain, of results into done, nothing and in doubt; lost uploads | the model is told the truth about effects; an accepted operation is never reported as rejected; no acknowledgement before admission |
| LLM worker and webhook | none; the job at the gateway | submit, outcome, receive, deliver | two paths for one outcome, size limits, secret rotation, bounded redelivery | both paths agree; the outcome arrives |
| Execution gateway (`machine.ts`, `registry.ts`) | registry row, sockets, waiting calls, deliveries, counters | register, rotate, delete, connect, submit, messages, deliver | every await admits a rotation, a deletion or a reconnection | truthful answers; one daemon per machine; acknowledgement only after the receiver's receipt |
| Daemon journal and runner (`store.rs`, `runner.rs`) | SQLite rows, tasks, connection | admit, complete, recover, send, ack, nack, sweep, discard, retry | kill between any two steps; lost and late acknowledgements; capacity | at most one execution; one outcome; nothing lost |
| Execution core, ledger (`core.rs`, `receipts.rs`) | receipts, bytes and pending counts | execute, cancel, mark_delivered, sweep, shutdown | cancellation races dispatch, shutdown races admission; budgets | an identity runs once; replay is stable; accounts are exact |
| Execution core, native runtime (`native/runtime.rs`, `native/session.rs`) | registry, sessions, supervisors, timers | start, run, terminate, observe, write, close, interrupt, shutdown | stops, exits, timeouts and shutdown in any order; processes that ignore signals or escape | nothing that lives is forgotten; results tell the first cause; no lost wake-up |
| Execution core, output (`native/journal.rs`, the spool and readers of `native/session.rs`) | journal, output file, preview tail | append, read, finish | bytes expire under readers; the file fails midway | no silent gap; complete means complete |
| Execution core, exec sessions and REPLs (`execution.rs`, `buffer.rs`, `repl/`) | yielded processes, buffers, interpreters | exec, interact, close, cells | yields, collectors and cancellation race the end | output is returned once; every cell ends |
| Agent API, directory and harness hosts | session rows, session objects, queue of status writes | create, check readiness, initialize, publish | concurrent, repeated and dying creations; late and lost status writes | one session per creation request; the directory shows the last status; every creation ends |
| Filesystem, patch | files | read, write, patch | matching and partial failure | the patch that was planned is applied |
| Enrolment, service, update, CLI, contracts, diagnostics | files, OS services | - | I/O | not modelled |

Components interact by calls (driver to worker to gateway), by messages (gateway and
daemon over a WebSocket), by callbacks (receiver to session) and by shared tables (the
journal, the inbox, the session directory). There are no shared clocks; retries and
idempotent identities tie the parts together: an operation ID derives from its input's
sequence and its key, a request ID from the operation ID, a delivery ID from request and
result.

## 2. Modules

| Module | Models | Size of its state |
|---|---|---|
| `SessionRuntime` | driver, runtime tables, alarm, providers | 19 variables |
| `SessionLog` | what a session promises, abstractly | 3 variables |
| `SessionRuntimeProofs` | theorems about `SessionRuntime` | - |
| `DaemonJournal` | journal and runner of the daemon | 13 variables |
| `MachineGateway` | machine object and registry row of the gateway | 18 variables |
| `MachineGatewayProofs` | theorems about `MachineGateway` | - |
| `PiHarness` | the pi-no-compaction harness | 10 variables |
| `PiHarnessProofs` | theorems about `PiHarness` | - |
| `RequestLedger` | receipts and dispatch of the execution core | 6 variables |
| `DaemonProofs` | theorems about `RequestLedger`, `DaemonJournal` and `ExecutionInput`, and the sums they rest on | - |
| `MinimalBashHarness` | the minimal-bash harness and a client that pages through it | 11 variables |
| `ToolWorkers` | one tool operation: binding, workers, gateway and daemon by what they answer, delivery | 14 variables |
| `ToolWorkersProofs` | theorems about `ToolWorkers`, `ExecutionOutput` and `BoundedViews`: what is reported of an operation, what is observed of its output and what is shown of it | - |
| `LlmWorker` | one model call: worker, webhook, the gateway's job | 13 variables |
| `ModelTurnProofs` | theorems about `LlmWorker` and `MinimalBashHarness`: a model call and the turns made of such calls | - |
| `SessionDirectory` | creation of a session and its displayed status | 13 variables |
| `SessionDirectoryProofs` | theorems about `SessionDirectory` | - |
| `BoundedViews` | truncation of files and output for the model | 6 variables |
| `NativeRuntime` | registry, supervisors and stops of executions | 9 variables |
| `NativeRuntimeProofs` | theorems about `NativeRuntime` | - |
| `ExecutionOutput` | capture, journal, output file, drain of one execution | 10 variables |
| `ExecutionInput` | input queue, close and interrupts of one execution | 15 variables |
| `MC...` | instances for TLC | - |

Definitions named "Variant" in their comment are not part of a specification. Each is a
plausible wrong version of the definition it precedes, used to show that a property of
a run notices it.

### SessionRuntime

The durable tables are `inbox` (a row's position is its sequence number), `pending` and
`applied` (the harness tables, represented by the events applied to them). The memory of
an activation is `prepared`, `receipts`, `receiptInput`, the locals of `#drain` and
`#submit`, and is lost by `Crash`. `admission` is the holder of the promise queue of
`#locked`: an admission awaits the alarm in the middle of its locked section and so is
two actions (`AppendArm`, then `AppendNew` or another end); every other locked section is
one action guarded by `LockFree`. `pc` is the place of the running `#drain`:

- `arm`: it waits to arm recovery (`DrainArm`);
- `loop`: it looks at the head (`LoopStop`, `LoopPrepare`, `LoopPrepareFails`, `SliceEnd`);
- `submit`: operations are sent and answered outside the lock (`SubmitSend`,
  `SubmitAnswer`, `SubmitError`, `SubmitDone`);
- `failed`, `commit`: the failure is recorded or the plan committed (`SubmitFails`,
  `Commit`, `CommitFails`);
- `final`, `ending`: the alarm is set or deleted and `#running` cleared (`Final`,
  `Ending`, `DrainThrows`).

A harness is the constant `Plan(past, event)`: the keys of the operations it plans for an
event as a function of what it applied before. That it is a function is the determinism
the README of the runtime asks of harnesses; an undeclared key stands for a handler that
throws. Providers are external: they decide once about an operation (`ProviderDecides`),
answer every submission of it with that decision, finish the job and deliver its result
until it is admitted. Time is abstract: an alarm or a retry may come at any moment after
it was set.

`SessionLog` is the contract of a session: a log of distinct events of which a prefix is
done, in order. `RefinesSessionLog` states that `SessionRuntime` implements it, with the
inbox as the log, the applied events as the prefix and the pending table as the open
operations.

### DaemonJournal

`rows` is the table `requests`, keyed by generation and request ID. A row's times are
abstracted to what the statements compare: `due` (`next_attempt` has come), `aged`
(created before the delivery horizon), `acked` (never, recently, before the retention
period). `Start`, `RecoverRow` and `RecoverDone` are the beginning of `run`; recovery is
one step per row because each row is its own statement and the process may die between
two. `Kill` is a crash, `Stop` then `Exit` an orderly end, a rejected credential or the
fault of an unsaved result. `Verdict` is the order of checks of `Engine::request`. `Send`
is `next`, `attempted`, the send and `flushed`; `SendFails` stops after `attempted`.
`Discard` and `Retry` belong to the CLI, which opens the journal from another process,
also while the daemon is down.

The gateway is what the daemon may observe of it: requests of any generation, and
acknowledgements or refusals of the results it was sent, with the receiver's state in
`received`. Frames are sets: no property relies on the order of unrelated frames.

### MachineGateway

One action is the code between two awaits that wait for I/O. The continuation of an
`await` on an async function that did its last work synchronously (`authorize` returning
its row) is taken to run with it. A secret is its version, a socket its epoch, and a call
is one HTTP attempt together with the dispatch ID it uses. The counters are variables of
their own, changed where the code changes them, so that their balance is a property and
not a definition. `Evict` loses memory and sockets and keeps the row; `Deploy` does the same
and changes the environment, which an activation never sees change: another routing secret,
with or without the old one to verify by, or callback routes that are complete, lack a
receiver or do not parse. An envelope is the version of the secret that signed it. `deliver`
has three ends that the daemon takes for final: the receiver's refusal (`DeliverRefused`),
an envelope or a content that the gateway cannot accept (`DeliverInvalid`), and routes that
do not parse (`DeliverUnrouted`); the last two are the gateway's own and also hit a result
that the receiver has. `DeliverStale` raises a fourth error that is not retryable.

The daemon and the receiver are external: the daemon answers each request on the connection
that brought it, keeps the latest envelope of a request, and sends the results of accepted
requests again and again; the receiver may admit a result at any time after it was handed
over, also after the gateway's deadline, and answers with a receipt of the agreed form (one
that is no object would be refused for good as well). `DaemonSendsInvalid` is a result that
passes the checks of `deliver` under no deployment. A deployment without any routing secret
behaves as one that verifies nothing.

Repeated registrations, rotations answered with the existing secret, repeated hellos and
reads change nothing and are stutters.

### PiHarness

`s`, `messages`, `pending` and `batch` are the four tables. `handle` is modelled as the code
has it: operators on a context (`Read`, then `CompleteTool`, `AdvanceTools`, `FinishTurn`,
`PromoteSteering`, `RequestLlm`, `Fail`) that propose rows and plan operations, and one
`Apply` that commits them with the input's consumption. A `HarnessFailure` is thrown only in
tail position, so that `Fail` of what was proposed so far is exactly what the code commits.
The pass of `advanceTools` over the queued rows is written as a set, `Tried`: a mutation is
tried when none is active and no earlier valid one is queued; one with bad arguments stays
queued while the lane is busy, because the lane is looked at before the arguments.
`status` is the status last returned to the host. The runtime is external here: it has the
operations accepted and delivers each completion once, in any order, which is what
`SessionLog` promises. A call is whether it mutates and whether its arguments parse, a
request fits when its context has at most `MaxContext` messages, and an error is the input
that observed it. `turn_count` is only displayed and left out.

### MinimalBashHarness

The same phases as `PiHarness`, written in the same way (a context, then `Apply`), with
what differs in the code: calls run one at a time in the order of the response
(`AdvanceTools`), messages wait for the end of the turn (`RequestWithSteering`), and there
is no admission limit on a message, so that sizes matter. A message has a size; a waiting
message is stored with fewer fields than a row of the transcript, and `MayWait` and
`MayEnter` keep that difference. A size failure ends a run while its operation is still out;
`Awaited` is the code's test that consumes the late completion without effect. The reader is
a client that reads all pages of the pending messages and then of the transcript
(`PageRows` is `pageRows`, with its limit and its byte budget), one page per step.

### ToolWorkers

One operation of one of four tools, with an input of each class the worker tells apart. `Attempt`,
`Discovered` and `Prepare` are the host's binding: concurrent attempts share one question to
the gateway, and the generation is persisted before anything is dispatched. `Submit` is the
worker's `submit` before the gateway is called; `Refusals` are the gateway's checks, any of
which may fail since the machine may change at each await between them; `Accept` is the
daemon's admission. An attempt the driver gives up goes on, so a request may be accepted
long after its timeout. `Rejects` is the classification of gateway errors.
`Ends(kind)` pairs each result the daemon may report with what the operation really did to its
file or by its command. The pairs are read from the execution core: the last part of a run's
supervision (`BashResults`), the planning and the commit of a patch (`EditResults`), the
temporary file and the rename of a write (`WriteResults`), and the errors of each, which the
daemon marks as uncertain by their code (`ErrorResults`). Directories made on the way to a
write that fails do not count as its effect, and a handle is taken to be looked up before its
retention ends: otherwise a command's timeout could be answered with `not_found`.
`BashOutcome`, `ReadOutcome`, `EditOutcome` and `WriteOutcome` are the four `terminalOutcome`
functions, reduced to the status, what the model is told of the effect, and a content to
compare. A delivery formats the result, uploads an image where there is one (`Lookup`,
`Upload`, `Recover`), and is admitted and acknowledged; two deliveries may overlap.
`Manage` deletes the machine, rotates its secret or deploys the gateway without its callback
routes. Without routes the gateway answers a delivery with an error that is not retryable, and
the daemon puts the result in quarantine (`Quarantine`), as it does past its delivery horizon
(`ExceedHorizon`): it keeps the result and sends it again only if the request is repeated
(`Accept`) or its operator says so (`Retry`). The routes coming back does not release it. The
gateway and the daemon appear by what they answer and keep, which is what
`MachineGateway` and `DaemonJournal` establish in detail.

### LlmWorker

The gateway's job is external: it is created once per idempotency key and ends with a
response of some size. Its outcome reaches the session inline in a webhook (`Receive`,
`Deliver`) or from the job's detail when a repeated submission finds it ended (`Detail`),
through the shared `TerminalOutcome`. Sizes are relative to three limits: the request, the
outcome, the transport. A call of the session whose deadline passed cannot be aborted and
may still admit the outcome. `Rotate` is the three-step change of the webhook secret. Whether
the gateway takes a request is settled once per operation, although an account may be disabled
between two attempts: that a job which exists is found before the account is looked at is
assumed of the gateway, and then no verdict depends on it.

### SessionDirectory

One creation request ID, used by several clients at once, some with another content. A call
is suspended at every await of D1 or of the session object and may be lost there; its
client, who was told nothing definitive, calls again. `Lookup`, `Insert` and `Reread` are
`reserve`, `Initialize` the object's transaction, `Ready` and `FailCreation` the two
conditional updates. `Handle` changes the harness's status, `Publish` is one link of the
publisher's promise chain, and a write of a lost activation may land late (`GhostLands`).
Retirement is reserved by the code and not written by it yet; it is an operator's action.

### BoundedViews

A text is the sequence of the lengths of its lines. `TruncateHead` and `FormatText`
are the read worker's, `TruncateTail` the bash worker's; their loops are the same one
(`Taken`), over the lines from the first or from the last on. A reader follows the offsets it is told from line 1 on.

### RequestLedger

`receipts` is the map of the ledger, `bytes` and `pending` its accounts. `Accept` is the
locked section of `execute_inner` for a new request; a known request joins its receipt or
conflicts with it and changes nothing. `Dispatch`, `Refuse` and `Finish` are the detached
task: the check before execution, then the end of the operation, whose result replaces
its reservation (`Settle`). `Sweep` turns delivered results whose retention is over into
tombstones. `ShutdownBegin` cancels under the lock that admits, `ShutdownReturn` is the
end of the poll for `pending = 0`. `effects` counts how often an operation was begun.
Callers only wait for a receipt; that they may vanish at any time is what the detached task
is for, so they have no state.

### NativeRuntime

`sessions` holds an execution with the locals of its supervisor (`task`, `stopping`,
`killed`), its process (`root`, and `group` for descendants) and its stop; `entries`,
`index` and `pending` are the registry. Each locked section of the registry or of a session is one
action, and the supervisor's loop is its head (`Head`) and the branches of `select!`.
`TerminateRun` is the lookup that finds the run; `TerminateLookup` and `TerminatePend` are
the two locked sections of the other case. A process ignores a signal or not, and the
system may refuse a signal (`MaxFaults`). `first` and `doomed` are history: the stop that
was acknowledged first, and whether the run was registered with a termination retained.

### ExecutionOutput and ExecutionInput

These are the two data paths of one execution, apart from its lifecycle. A byte is its
position in the output, so that what a client got can be compared with what was written.
The journal's and the tail's chunk arithmetic is translated, not assumed: `Cut` takes the
`Piece` of each chunk that lies between two positions, `Popped` drops the chunks that have
become empty, and `Discard`, `Read` and `Preview` are made of them. `Sweep` is the kill of the group, after which an escaped process may still
hold the output. The waiter of `wait_finished` is four actions, because its correctness is
about what happens between the check and the wait.

Input is a queue of items with IDs; `held` counts the permits of the semaphore where the
code acquires and drops them. The writer is between two awaits in each of its states;
`failed` and `closed` are the interval in which it has given up and not yet said so.

## 3. Runs

| Run | Bounds | Question |
|---|---|---|
| `session_faults` | one input, valid or not, with two concurrent operations, two faults | Can crashes, timeouts, thrown errors and early callbacks lose, repeat, change or refuse anything that was submitted? Is admitted work protected by an alarm? Do the tables implement `SessionLog`? |
| `session` | *session*: two inputs, good or poison, one operation, one fault; *directory*: two clients, four kinds of content, one input, two status changes, two faults | Is work processed unless the head is blocked? Do creations agree and end, and is the displayed status the last one? |
| `session_blocking` | one input, a chain of two operations, two faults, no resume (`UnresumedSpec`) | Does the documented blocking rule hold? (It does not, see section 6.) |
| `daemon` | *ledger*: three requests with two inputs, limits of two receipts, two pending and eight bytes with reservations of four and results of 1, 3 and 5; *journal*: one request ID with a valid and an invalid content, two processes, two frames under way, one fault, room for one worst case and one small result; *input*: four IDs, sizes 0 to 2, queue of two bytes, three receipts, two interrupts | Does a request run once, with one outcome, kept until received and within budget? Is replay stable, are accounts exact, is shutdown complete? Is input ordered, delivered once, accounted for? |
| `journal` | one request ID with a valid and an invalid content, two processes, one frame under way, one fault | Does a request run once, and are results of this and of an earlier process delivered? |
| `operations` | *tools*: four tools, two attempts, two deliveries, two daemon generations, two faults; *llm*: request and response sizes around limits of 2 (request), 1 (outcome) and 4 (transport), two attempts, three deliveries, two faults; *output*: four bytes in chunks of up to three, journal of three, tail of two, one client; *views*: every text of up to five lines of lengths 0, 1, 3, 4, 5 under limits of three lines and four bytes | Is the session told the truth about each operation, once, in the generation it is bound to, and is it told at all? Are readers of output and of truncated text misled? |
| `operations_rejection` | one bash operation, two attempts, two faults | Does a repeated submission replay its acceptance? (Not always, see section 6.) |
| `native` | two executions of one ID (starts and runs with a timeout), one refused signal | Is live work owned, do results tell the first cause, does no process outlive its execution, is no stop slept over? |
| `native_early_termination` | one execution | Does a retained termination hold? (It does not, see section 6.) |
| `gateway` | two attempts waiting together, one delivery, two payloads, two connections, two versions of each secret, one eviction, deployment or invalid frame | Are callers and daemon told the truth, are the counters exact, and are checks repeated after every await? |
| `pi` | two responses with calls (a lane of three mutations and a read; a refused read), three messages, one cancel, one resume | Does the conversation stay coherent, are mutations ordered, messages kept once, effects never orphaned; does every batch drain and every cancellation take effect? |
| `minimal` | one response with calls (three with a refused one in the middle, or one refused), three messages of sizes 2, 3 and 4 against a limit of 4, one cancel, one resume, pages of two rows or three bytes | Has every call its result, is one operation waited for, is every message kept once and shown to a reader, do runs stop? |

`session`, `daemon` and `operations` package independent instances: a variable `part` is
chosen in the first state, the behaviour is one of that part's module, and the variables of
the other parts keep an initial value. Nothing is composed there; each property speaks of the
variables of one part, and the temporal ones are conditional on `part`. The composition of
session, workers, gateway and daemon is inside `ToolWorkers`, by contracts.

Why the bounds are enough to be interesting: two operations make the partial failure of a
batch possible, and two faults allow a crash during the recovery from a timeout or from
another crash. Two generations of a daemon are what recovery, generation fences and the
deletion of tombstones are about. Two epochs make a replacement; a third adds no new
relation between an old and a new connection. Two calls of one request are an attempt and
its retry. Limits are set to one where a limit must be reached. A lane of three mutations
with a refused one in the middle has every order of refusal, completion and waiting that
the lane distinguishes. With one request ID in the journal only the byte budget can be
exhausted; that the limits on rows and on running requests hold with more is proved
(`ResultsKeptWithinBudget`). The ledger has one request more than receipts, its byte limit is two
reservations, and results are below and above one. Two attempts and two deliveries of a tool
call are what replay, a shared discovery and a second upload need; three deliveries of a
webhook are one more than the faults that may lose one. Sizes of messages and responses are
at, below and above each limit that the code compares them with. Output is longer than the
journal, chunks are longer than the tail, and every limit of a read up to the tail is
tried. A second execution of an ID is what expiry and re-registration need. Three messages
are one that starts a run and two that must keep their order; the context limit is reached in the second turn.

Deadlock is checked in `session_faults` and `session_blocking`, whose environment can always
act. It is not checked in the other runs: a daemon may stay down, a machine may be deleted, a
session may be idle, an execution may be over, and after the bounded inputs nothing need
happen.

### Properties

Some properties are conjunctions of named parts, given in parentheses.

*Session.* `InOrderExactlyOnce`: the harness has applied exactly the consumed prefix of
the inbox. `WorkAccounted`: whatever was sent to a provider is still planned by the head,
or recorded as pending, or has its completion in the inbox, and the pending
table is exactly the open operations, with the right job (`JobsAccounted`); the result of a
finished job is never refused, and one that overtakes the commit blocks neither the commit nor
the head (`CallbacksSafe`); after any crash, what is submitted for the head
is what was submitted before (`ReplaySamePlan`). `BlockedUntilResumed`: a blocked head is not
overtaken. `Protected`: runnable work has an alarm stored or being delivered.
`RefinesSessionLog`, `EventuallySettles`.

*Directory.* `CreationsAgree`: one object at most, with the content that reserved the ID;
whoever is told "created" sent that content and can use the session; "invalid" is final; one
call at most is told the session is new. `DisplayIsCurrent`: an input that passed the check
finds its object, a retired session stays retired, and unless a write was lost or overtaken
the directory shows the last status. `CreationsSettle`.

*Daemon.* `OneExecution` (`AtMostOnce`; `OneOutcome`: every frame ever sent, the row and the
receiver agree), `KeptWithinBudget` (`NothingLost`: a running request has a task in this
process, a result is dropped only when it is received or discarded, and the core is told only
then; `WithinBudget`), `EventuallyDelivered`. The run `daemon` checks the second
at larger bounds than liveness allows in `journal`.

*Ledger.* `EffectsHonest` (an operation is begun once at most, and never for a request
reported as cancelled before execution), `AccountsBalance` (counts, bytes and the budget),
`SettledAtShutdown`, `ReplayIsStable`.

*Operations.* `ToldTheTruth`: an outcome that says the work was done, or that nothing
happened, is right, and what is in doubt is told as doubt. `RejectionsAreSafe`: an operation
that was rejected has not run and never will, and no rejection meets an outcome the session
holds, unless the machine was deleted or the gateway lost its routes between two attempts
(`Managed`; the run `operations_rejection` shows that exception). `AdmittedWhereBound`
(`AcknowledgedIsAdmitted`: the daemon lets go of a result only when the session has exactly
that result, and overlapping deliveries carry the same outcome; `OnlyInBoundGeneration`).
`LlmOutcomesHold` (`LlmOutcomesAgree`: both paths make the same outcome at every size;
`ConfirmedIsAdmitted`). `OperationsSettle`: every operation gets its receipt and its outcome,
unless its machine is gone, its secret revoked, processing blocked, the daemon restarted
before the receipt, the result left in quarantine, or the event does not fit in a webhook; every
output ends and its waiter is woken. Each exception is a disjunct of `Settled` or `LlmSettled`
and something the code really does: after a restart of the daemon, for example, retries are
refused with a generation mismatch forever, which protects against a second execution and
leaves the head waiting. And a result that came while the gateway had no callback routes stays
with the daemon for good, although the routes come back, unless its operator has it sent again.

*Gateway.* `AnswersHold` (`AnswersAreTrue`; `VerdictsAreTrue`: the daemon is told to forget a
result only when the receiver holds it, and to give up on it only when the receiver refused
it, the deployment cannot verify its envelope, or its routes do not parse), `BooksInStep` (`ConnectionsInStep`:
one daemon per machine, and nobody waits on a connection that is gone; `CountersBalance`),
`RevocationWins` (what was authorised before an await does not count after it).

*Harnesses.* Pi: `TranscriptCoherent` (`ContextCoherent`: whenever no batch is running, the
log pairs every call with one result, in call order, and a response and its results are in the
context together; `SteeringOnce`: a message is in the transcript or
pending, once, in order, and none waits in an idle session), `CallsInOrder` (`NoOrphan`: the
open operations are exactly those the state waits for; `MutationsInOrder`), `ResultsAreTrue`
(a call runs at most once, is reported as not executed exactly if it was not, and the host's
status is the state's), `TurnsEnd`. Minimal bash: `CallsAnswered` (of the responses in context:
what is stored outside of it has no results; a shorter run of results
only where a turn is at work or a size failure ended it), `OneAtATime` (a completion that was
abandoned neither ends nor advances the run that replaced it), `HeldOnce` (with `Stuck` as
its exception: a waiting message that may not enter the transcript makes every resume fail and
adds the messages before it again), `NothingHidden` (a client that pages is shown every
message kept before it began), `RunsStop`.

*Native runtime.* `WorkIsOwned` (`LiveWorkIsOwned`: live work is registered and within the
limit, the maps of the registry agree; `ShutdownIsComplete`), `StopsAreTold`
(`OutcomeTellsFirstCause`; `StopIsNoticed`: the supervisor never sleeps on a stop it has not
acted upon, the safety half of "a stopped execution ends"), `FinishedIsClean` (a finished
execution has no process left unless a kill failed, which its result says).

*Output, input, views.* `ObservationsAreHonest` (`ReadersAreTold`: the journal holds the
newest bytes, cursors skip nothing silently, and the end is the end; `RunResultIsHonest`),
`InputIsFaithful` (`DeliveredInOrder`, `ReceiptMeansAccepted`, `LossIsExplained`),
`ViewsAreHonest` (`PagesCoverFile`: following the notes shows every line once, up to the end
or a line said to be too long; `TailIsLongest`).

Two details worth knowing about `VerdictsAreTrue`. When the connection changes while a result
is being verified, the error raised is not retryable and would quarantine the result. It never
reaches the daemon because every path that makes a socket stale closes it in the same step.
And the verdicts of the gateway itself say nothing of the receiver: a result that was admitted,
but whose acknowledgement was lost, is quarantined when it is sent again under a deployment
that has dropped its secret or cannot read its routes.

### Fairness

*Session* (`EventuallySettles`). The holder of the promise queue finishes, because its
commit is synchronous (weak). Steps of a running drain and of the alarm handler that wait
for the promise queue are strongly fair: the queue is first-in first-out, so a waiter is
served although others come and go. The platform delivers a stored alarm at least once
and time passes (weak). Providers decide, finish and redeliver: this is their contract in
`provider.ts`. Nothing is assumed of callers, and the property is conditional on no
operator resetting the head forever.

*Daemon* (`EventuallyDelivered`). Only while the daemon stays up. The select loop serves
its socket and its timer, the task of a request ends, time passes (weak); sending and the
receiver's confirmation are strongly fair, since the connection may break and come back
between attempts. Lost connections are bounded by `MaxFaults`. Quarantine by the delivery
horizon or by a permanent refusal ends the retries and is allowed for in the property.

*Harnesses* (`TurnsEnd`, `RunsStop`). While operations are open, some completion is delivered:
this is the providers' contract, what `EventuallySettles` shows of the runtime and
`OperationsSettle` of the workers. It is weak fairness of `Completes`, written out in
`Fairness` because TLC evaluates the enabledness of `Completes` very slowly. Nothing is assumed
of messages, resumes and readers.

*Tools* (`OperationsSettle`). Calls, requests and frames that are not lost arrive; native
operations end; the daemon reconnects and the deployment's callback routes come back (which
does not bring back what was quarantined before); the driver's alarm and the daemon's redelivery come again and again (all weak). Losses are bounded
by `MaxFaults`, restarts by `MaxGenerations`. Nothing is assumed of `Manage`, of `Quarantine`
and of the operator's `Retry`.

*LLM* (`OperationsSettle`). The gateway ends its jobs and sends its bounded number of
deliveries, calls are answered, the driver retries (weak). Faults are fewer than deliveries,
since the code has no other way to learn of an outcome. Rotation is not forced to happen.

*Directory* (`CreationsSettle`). A client that was told nothing definitive calls again, and a
call that is not lost goes on (weak). Publication owes nothing.

*Output* (`OperationsSettle`). The supervisor runs, its drain deadline comes, the waiter is
polled (weak). The process and the reader owe nothing.

No fairness is stated for the native runtime, the input path and the ledger. That a stopped
execution ends rests on `StopIsNoticed` and on the system killing what it is told to kill;
a liveness run of two executions is out of TLC's reach at the size of this state.

## 4. Proofs

The theorems hold for every value of the constants that the named assumptions of the
modules allow, also of the bounds: every number of inputs, clients, attempts, connections,
generations, crashes and losses. Each proof has the same shape: an inductive invariant (named
below), one lemma per group of actions that shows it preserved, and the theorems as its
consequences. TLC has checked these invariants on instances too, except `ToolInv`, whose types
mix strings and records in one set, which TLC cannot evaluate.

| Module | Theorems | States | Assumes |
|---|---|---|---|
| `SessionRuntimeProofs` | `TypeCorrect`, `ExactlyOnceInOrder`, `AlwaysProtected`, `AllWorkAccounted`, `BlockedHeadStays`, `ImplementsSessionLog` | `TypeOK`, `InOrderExactlyOnce`, `Protected`, `WorkAccounted`, `BlockedUntilResumed`, `RefinesSessionLog` | bounds are naturals, positive for policies; the declared keys are finite; the marks for a rejection and for no job are not among outcomes and jobs |
| `SessionDirectoryProofs` | `CreationsAlwaysAgree`, `DisplayAlwaysCurrent` | `CreationsAgree`, `DisplayIsCurrent` | finitely many clients; `None` is not a row or a status |
| `ToolWorkersProofs` | `ToolsTellTheTruth`, `ToolRejectionsAreSafe`, `ToolsAdmittedWhereBound` | `ToldTheTruth`, `RejectionsAreSafe`, `AdmittedWhereBound` | `None` is not an outcome or an answer |
| `ToolWorkersProofs` | `ObservationsStayHonest` | `ObservationsAreHonest` | capacity, limits and sizes are naturals, all but the capacity positive |
| `ToolWorkersProofs` | `ViewsStayHonest` | `ViewsAreHonest` | lengths and limits are naturals, the limits of the tools positive |
| `ModelTurnProofs` | `LlmOutcomesAlwaysHold` | `LlmOutcomesHold` | an input and an outcome within their limits fit the transport together, as the limits of the code do |
| `DaemonProofs` | `EffectsAreHonest`, `ShutdownSettles`, `ReplaysAreStable`, `AccountsAlwaysBalance` | `EffectsHonest`, `SettledAtShutdown`, `ReplayIsStable`, `AccountsBalance` | finitely many requests; an error fits the reservation |
| `DaemonProofs` | `RequestsRunOnce`, `ResultsKeptWithinBudget` | `OneExecution`, `KeptWithinBudget` | results are within their limit; the mark for no outcome is not one |
| `DaemonProofs` | `InputAlwaysFaithful` | `InputIsFaithful` | sizes are naturals; the mark for no receipt is not data |
| `PiHarnessProofs` | `TranscriptsAreCoherent`, `CallsStayInOrder`, `ResultsStayTrue` | `TranscriptCoherent`, `CallsInOrder`, `ResultsAreTrue` | a batch is a sequence of calls |
| `ModelTurnProofs` | `TranscriptIsAnswered`, `RunsWaitForOne`, `MessagesAreHeldOnce`, `PagesHideNothing` | `CallsAnswered`, `OneAtATime`, `HeldOnce`, `NothingHidden` | a batch is a sequence of calls; sizes and limits are positive |
| `MachineGatewayProofs` | `GatewayAnswersHold`, `GatewayBooksInStep`, `RevocationAlwaysWins` | `AnswersHold`, `BooksInStep`, `RevocationWins` | the mark for no generation is not one; every call has a request |
| `NativeRuntimeProofs` | `NativeWorkIsOwned`, `NativeStopsAreTold`, `NativeFinishesClean` | `WorkIsOwned`, `StopsAreTold`, `FinishedIsClean` | whether a request is timed is a Boolean |

*Session, order.* The first invariant is `TypeInv == TypeOK /\ StepBound /\
InOrderExactlyOnce`. Types and order need each other. A commit appends the head's event to
`applied`; that this keeps the order needs the head to be the row after the last applied one
(`HeadFollowsApplied`), which follows from the order and the types. That the head has the
type of an event needs the head to be a row. `StepBound` says that the drain's body runs
only with a step left, which is what keeps `step` in its range.

*Session, accounts.* The second is `AccountInv == TypeInv /\ Guarded /\ Books /\
AdmissionTells /\ Hands`. `Guarded` is about the alarm: an admission that holds the lock has
armed it, so that the row it adds is protected from its first moment, and the drain works
only on a head that is there and not blocked. `Books` relates durable storage to the
providers: event IDs are distinct, a completion's body is what the provider decided and comes
after the input that started it, nothing is sent for an input before it is the head, and what
was sent for the head is in the head's plan. The last is where determinism enters: after a
crash the plan is made again from the same `applied` and the same event. `Hands` relates
memory to both: a receipt is an answer the provider could still give, a plan in memory is the
head's, and the operations of a plan are to be sent, in flight or answered. `NoOrphanJob`,
`PendingIsOpenJobs` and the safety of callbacks are preserved by a commit only because of
`Hands`; `Hands` survives a crash because it speaks of memory that is then empty.
`ImplementsSessionLog` maps every step to a step of `SessionLog` or to a stutter: an
admission appends (distinct by `Distinct`), a commit finishes the next event, all others
change neither the log, the prefix nor the open operations.

*Directory.* `DirectoryInv == DirectoryTypes /\ CreationInv /\ DisplayInv`. `CallsFit` says
what a suspended call may rely on for however long it is suspended; one lemma shows that no
move the row can make takes it away (a reservation keeps ID and content and leaves
"initializing" for good), so that each action need only be checked for the call that moves.
`OneMadeIt` is what makes one call at most "new". `DisplayInv` says that the last write
queued is the last status.

*Tools.* `ToolInv` relates everything on the way (attempts given up, frames, deliveries, the
image) to three things that do not change once they are there: the input, the pinned
generation and the result in the daemon's journal. An input that is not plain has one
outcome of its own and never gets to the daemon; a plain one has the outcome of its result,
unless management took the machine or its routes away.

*Model call.* `LlmInv`: a job that has ended does not change, a call has a job or is rejected
and never both, and both paths make the same outcome of the job. The assumption on the
limits is used there: the detail is too large for the transport only if its response alone is
over the limit of an outcome.

*Journal.* `JournalInv`: a key that was run has a row while its generation lasts and is fenced
off by the generation afterwards (`RunOnce`); the outcome of a row is written before it is
sent and never changes, and what was sent remembers it (`ReportsTell`, `FramesTell`,
`ReceivedTell`); a row is let go of only after an acknowledgement, which follows the
receiver's admission, or by an operator (`LetGo`); a running row has its task until the process
stops (`TasksOwn`). `WithinBudget` is inductive with the sizes in `RowsFit`: a row is admitted
with the worst result counted in, so that whatever the result turns out to be the table holds
no more than admission allowed.

*Ledger.* `LedgerInv`: the types, `EffectsKnown` (a request that is unknown or accepted has had no
effect, which is what makes the one step that begins an operation the only one),
`PendingCounts` (the counter is the number of unsettled receipts) and `ShutdownHolds` (the
token is cancelled once shutdown has begun, and after its return nothing is unsettled).
Shutdown looks at the counter and not at the receipts, so that `SettledAtShutdown` needs
`PendingCounts`; that it stays true after the return needs that nothing is accepted under a
cancelled token. `AccountsBalance` adds that `bytes` is the sum of the charges of all receipts
and that what is not a tombstone fits the limit.

*Sums.* The byte accounts are folds over sets of identities, of rows and of positions in a
queue. That the recursive
function behind such a fold exists over a finite set, and that any summand may be taken out
first, is shown by induction over the subsets of that set, in the first-order form of "a set of
subsets that holds each one whose immediate subsets it holds is all of them" (from the
well-foundedness of the strict subset ordering). What the steps then need are three facts: a
sum changes by the difference at the one place that changes, only grows with its summands, and
is split by a partition.

*Input.* `InputInv` rests on one sequence: what the process received, followed by what the
writer holds, followed by the queue, is what was accepted, perhaps with the end of input after
it (`InputFlows`). Callers add at its end, the writer moves the boundary within it, and only the
end of the writer or of the execution cuts it off. An open standard input has no end of input
on its way, which is why nothing is accepted behind one; an item that is delivered is the
next accepted one, and the end of input is delivered when nothing is missing. `WriterTells`
says that a writer that has ended saw the end of input, failed or was aborted after the
exit, so that what is missing is explained. The permits are the sum over the items on their
way (`PermitsHeld`), that is over a sequence that grows at its end and is served from its
front.

*Output.* `OutputInv` says of the chunks of the journal, and of those of the tail, that
together they are one stretch of the output that ends with the last byte captured
(`JournalIsStretch`, `TailIsStretch`), of the file how far it keeps up (`SpoolKeepsUp`), of
the stages of reader and supervisor what they imply of each other (`StagesAgree`), and of
what a client holds that it grows, lies before its cursor and is gapless unless a gap was
told (`ClientsAreTold`). How the bytes were cut into chunks does not matter: a cut through
the chunks is the same cut through the stretch (`FlattenCut`), popping loses nothing
(`FlattenPopped`), so that `Appended` and `Spooled` lead from one stretch to the next and
`Read` returns the stretch between its cursor and its end. `FlattenSeq` is a recursive
function; that it exists is shown by the least position without it, and the two lemmas by
the same argument along the length of the sequence, with one more chunk as the step.

*Views.* The loops of both truncations take lines one by one and stop at the first that does
not fit (`TakenIs`), so that what they take is within the limits and one more line is not
(`TakenFits`). The loop of the tail runs on the text read backwards, whose beginnings are as
long as the ends of the text (`SizesOfReverse`). A head that was cut has at least one line and
never the last (`HeadShows`): all lines can only have fitted if a final newline was what did
not, and then an empty last line is left to be read. `ViewsInv` says that the offset of the
note is behind what was shown, and that a read in vain is the last one. The text may be of
any length: `Sizes` and the loop of `Taken` are recursive functions whose existence is part
of the proof.

*Pi harness.* `HarnessInv` is stated of the values a context holds (`Holds`), once for the
committed state and once for what a handler has planned, so that each operator on contexts has
one lemma: from a context that is between turns (`Between`) or at work on a batch (`Working`) to
a plan that may be committed (`PlanHolds`). `Serving` is the heart of it: while a batch runs, the log
ends with its response and the results flushed so far, a row that was started has its operation
among those launched for this very call, and each operation launched for this response is in its
row. A result is then told from its row when it is flushed, and remains true because later
launches are for later responses only. The pass of `advanceTools` that starts what may start is
a set of calls, and the lane of mutations stays in order because at most one mutation of that
set is started and all before it are done.

*Minimal-bash harness.* `MinimalInv == TurnInv /\ ReaderInv`. `TurnInv` is `Holds` of the committed
state, and each operator on contexts leads from `Between` or `Working` to a plan that holds, as
for the pi harness. What differs is what a size failure leaves behind: an operation that is
still out although its run has ended. `PhaseFits` says that the operations that are out and were
not abandoned are the one the state waits for, or none, and `Past` that what was launched or
abandoned has an earlier input than whatever is launched next, so that `Awaited` never mistakes
the late completion of one for the completion of another. `Paired` lets a response have fewer
results than calls only while it is at work or if its operation was abandoned (`Dropped`).
`Ordered` holds up to the failed promotion that `Stuck` describes. `ReaderInv` says of each
message that was kept before the reader began and was not shown to it yet: as long as the
reader is at the waiting ones, it is ahead of the reader's cursor or in the transcript already;
later it is in the transcript beyond what was read of it. Messages move only from the waiting
ones to the end of the transcript, and the transcript is read last, so that none gets past.

*Gateway.* `GatewayInv == CallsInv /\ DeliveriesInv /\ LinkInv /\ WaitersHaveSockets /\
WiresInv`. Each counter is the cardinality of the calls or deliveries in the stages that hold
it, which every way out of a stage gives back (one lemma about one call changing its stage
serves all actions). A call that has not reached its dispatch was not sent, so that "not
sent" is true of every refusal before it. An open socket is the one of the row, so that the
error of a stale delivery is never sent. What the gateway refuses by itself it refuses under a
deployment that the frame does not outlive: a deployment ends every connection. `EnvelopesInv`
only says that envelopes are secrets' versions, for the frames to be well-formed.

*Native runtime.* `NativeInv`: each session keeps to itself (`Fits`: what a stop, the launch
and the exit leave in its record is what its result and its wake-up are made of), and the
lemmas on `Terminated`, `Killed` and `Finished` serve every action that uses them. The
registry lets go only of what has aged, and only finished sessions age, so that cleanup keeps
the live ones; the limit holds because the live entries that admission counts are all the live
sessions there are. `ShutdownIsComplete` needs that shutdown knows everything live from its
beginning on (`ShutdownInv`), since it waits for that set and not for the registry.

Only model-checked is liveness (`EventuallySettles`, `CreationsSettle`,
`EventuallyDelivered`, `OperationsSettle`, `TurnsEnd`, `RunsStop`): fairness is outside what
the prover does.

`LlmOutcomesHold` and the parts of `daemon`, `session` and `operations` are proved of their own
modules; that the run's composition behaves as one of its parts is by its construction.

## 5. What is not modelled

- Contents: parsing, hashing, canonical JSON and signatures are represented by the
  identity they establish. Handler scopes and frozen values are left out.
- Lengths of time: backoff, deadlines and horizons may pass at any moment.
- SQLite and the object's storage are transactions that happen or do not.
- The apply_patch worker: no host registers it and `toolCompletion` refuses its operations.
  Of the other workers, parsing and formatting of contents; of the hosts and the agent API,
  authentication, routing, listing and the parsing of commands, which keep no state.
- Of the execution core, exec sessions, REPLs, shells and the filesystem (see the plan).
- Status files, enrolment, service management, self-update and the CLI except its two
  journal commands.
- Diagnostics.

## 6. Findings

`session_blocking`. The README of the session runtime says that transport ambiguity keeps
retrying the same head and that repeated handler failures block it. The driver counts both
in one column and compares the count it read before the submission. The run's counterexample,
with `maxHandlerFailures` at 2 and nobody resuming the session: the first submission of the
head gets no answer, which counts one failure; the retry, which reads that count, is
accepted; the commit that follows fails, the head's first handler failure, and blocks it. With
resumes there is another way: a resume while the head is being submitted resets the row but not
the count the drain has read.

`native_early_termination`. The README of the native runtime says that a termination racing
ahead of its run is retained, so that the run completes as terminated without launching.
`terminate_run` looks the run up in one locked section and retains the termination in
another; a run registered in between is launched and runs on, while the caller holds a
receipt that says the termination is pending.

`operations_rejection`. `provider.ts` asks of a worker that identical IDs and inputs replay the
same acceptance or rejection for the full recovery horizon. The tool workers report every
gateway error that is neither retryable nor uncertain, except 401, 403 and 409, as a rejection,
also on a repeated submission. After an acceptance whose answer was lost, a deleted machine
(410) or a gateway without callback routes (503, not retryable) makes the worker reject an
operation that the daemon accepted and may have run. `RejectionsAreSafe` shows that these two
are the only ways to get there.

## 7. Plan

Done: `SessionRuntime`, `SessionLog`, `DaemonJournal`, `MachineGateway`, `PiHarness`,
`RequestLedger`, `NativeRuntime`, `ExecutionOutput`, `ExecutionInput`, `ToolWorkers`,
`LlmWorker`, `MinimalBashHarness`, `SessionDirectory`, `BoundedViews`; the proofs of section 4,
the refinement of `SessionLog` among them.

Next, in this order:

1. Proofs: the wake-up of the waiter of `ExecutionOutput`, which is about stages and not about
   sequences of chunks.
2. `ExecSession` (yielded processes: output is returned once, in the order of the
   session's lock; a session is closed only when nothing is left; cancellation ends what was
   yielded) and `ReplSession` (cells finish once; an interrupt's grace period; loss of the
   interpreter finishes all).
3. Patch matching as operators checked against a reference over bounded inputs.
