---------------------------- MODULE DaemonJournal ----------------------------
(***************************************************************************)
(* The execution daemon: the SQLite journal of requests and results        *)
(* (store.rs), the engine that admits a request and runs it, and the       *)
(* connection that sends results until they are acknowledged (runner.rs).  *)
(*                                                                         *)
(* A request row is written before the request is accepted or run.  Its    *)
(* result is written before it is sent, and kept until the receiver has    *)
(* confirmed it.  The process may be killed between any two steps; the     *)
(* journal survives, the core and the running tasks do not.                *)
(*                                                                         *)
(* The gateway at the other end of the connection is represented by the    *)
(* frames it may send: requests of any generation, and acknowledgements of *)
(* results that the receiver has durably admitted.  A frame set stands for *)
(* the socket's stream: order between unrelated frames is not relied upon. *)
(***************************************************************************)
EXTENDS Integers, FiniteSets, Functions

CONSTANTS
  RequestIds,      \* request IDs callers choose
  Hashes,          \* request contents, by their canonical hash
  Unsupported,     \* contents whose operation does not parse
  Native,          \* contents whose operation runs in the core
  TaskResults,     \* outcomes of an execution
  OutcomeBytes(_), \* size of an encoded outcome
  MaxResult,       \* MAX_RESULT, reserved for a request that is running
  MaxRows,         \* config.max_journal_requests
  MaxActive,       \* config.max_active_requests
  MaxOutboxBytes,  \* config.max_outbox_bytes
  MaxGenerations,  \* bound on daemon starts
  MaxInFlight,     \* bound on frames under way on the connection
  MaxFaults        \* bound on lost connections and unsaved results

Restarted == "DAEMON_RESTARTED"
NoOutcome == "none"

Outcomes == TaskResults \cup {Restarted}

ASSUME JournalAssumption ==
  /\ MaxResult \in Nat
  /\ MaxRows \in Nat
  /\ MaxActive \in Nat
  /\ MaxOutboxBytes \in Nat
  /\ MaxGenerations \in Nat
  /\ MaxInFlight \in Nat
  /\ MaxFaults \in Nat
  /\ NoOutcome \notin Outcomes
  /\ \A o \in Outcomes : OutcomeBytes(o) \in 0 .. MaxResult

VARIABLES
  rows,        \* table requests: key -> row
  phase,       \* of the process: down, recovering, running, stopping
  generation,  \* core.generation(), counted; 0 before the first start
  tasks,       \* keys whose execution task runs in this process
  marked,      \* native requests the core was told are delivered
  connected,   \* the socket is open and past hello and ready
  inbound,     \* frames on their way to the daemon
  outbound,    \* frames on their way to the gateway
  received,    \* results the receivers have durably admitted: key -> outcome
  executions,  \* history: how often each key was run
  reported,    \* history: every <<key, outcome>> ever sent
  discarded,   \* history: keys whose result an operator discarded
  faults       \* lost connections and unsaved results, bounded by MaxFaults

process == <<phase, generation, tasks, marked>>
link    == <<connected, inbound, outbound>>
history == <<executions, reported, discarded, faults>>
journalVars == <<rows, process, link, received, history>>

-----------------------------------------------------------------------------
(* Values *)

Keys == (Nat \ {0}) \X RequestIds

\* A row is active, pending, delivered, quarantined or expired.  due: next_attempt has
\* come; aged: created before the delivery horizon; acked: never, within the retention
\* period, or before it.
Put(f, x, v) == [y \in DOMAIN f \cup {x} |-> IF y = x THEN v ELSE f[y]]

Request(key, hash)   == [type |-> "request", key |-> key, hash |-> hash]
Result(key, outcome) == [type |-> "result", key |-> key, outcome |-> outcome]
Ack(key, outcome)    == [type |-> "result_ack", key |-> key, outcome |-> outcome]
Nack(key, outcome, retryable) ==
  [type |-> "result_nack", key |-> key, outcome |-> outcome, retryable |-> retryable]
Reply(frame, verdict) ==
  [type |-> IF verdict \in {"New", "Duplicate"} THEN "accepted" ELSE "rejected",
   key |-> frame.key, hash |-> frame.hash, code |-> verdict]

Active == {key \in DOMAIN rows : rows[key].state = "active"}

UsedBytes == SumFunction([key \in DOMAIN rows |-> rows[key].bytes])

-----------------------------------------------------------------------------
(* Journal: what its statements make of the table *)

\* The INSERT of admit: the worst-case result is reserved.
NewRow(hash) ==
  [hash |-> hash, state |-> "active", outcome |-> NoOutcome, delivery |-> NoOutcome,
   bytes |-> MaxResult, due |-> TRUE, aged |-> FALSE, acked |-> "never"]

\* An identical resubmission makes a delivered or quarantined result due again.
Readmitted(row) ==
  [row EXCEPT !.due = TRUE,
              !.state = IF @ \in {"delivered", "quarantined"} THEN "pending" ELSE @]

\* complete: only an active row takes an outcome.
Completed(row, outcome) ==
  IF row.state = "active"
  THEN [row EXCEPT !.state = "pending", !.outcome = outcome, !.delivery = outcome,
                   !.bytes = OutcomeBytes(outcome), !.due = TRUE]
  ELSE row

\* ack finds its row by delivery ID, outcome and state.
AckMatches(frame) ==
  /\ frame.key \in DOMAIN rows
  /\ rows[frame.key].delivery = frame.outcome
  /\ rows[frame.key].outcome # NoOutcome
  /\ rows[frame.key].state # "expired"

Acknowledged(row) ==
  [row EXCEPT !.state = "delivered", !.acked = IF @ = "never" THEN "recently" ELSE @]

Expired(row) ==
  [row EXCEPT !.state = "expired", !.outcome = NoOutcome, !.bytes = 0]

\* Variant: the horizon drops the result instead of keeping it for inspection.
SweptAway(row) ==
  CASE row.state = "pending" /\ row.aged -> Expired(row)
    [] row.state = "delivered" /\ row.acked = "long_ago" -> Expired(row)
    [] OTHER -> row

\* The first two statements of sweep.
Swept(row) ==
  CASE row.state = "pending" /\ row.aged -> [row EXCEPT !.state = "quarantined"]
    [] row.state = "delivered" /\ row.acked = "long_ago" -> Expired(row)
    [] OTHER -> row

\* The last statement of sweep: only expired rows of older generations go.
Kept(table) ==
  {key \in DOMAIN table : table[key].state # "expired" \/ key[1] = generation}

Update(key, row) == rows' = [rows EXCEPT ![key] = row]

-----------------------------------------------------------------------------
(* The process *)

RoomInFlight == Cardinality(inbound) + Cardinality(outbound) < MaxInFlight

NoLink == connected' = FALSE /\ inbound' = {} /\ outbound' = {}

\* run: the lock is taken, a core with a new generation is made.
Start ==
  /\ phase = "down"
  /\ generation < MaxGenerations
  /\ phase' = "recovering"
  /\ generation' = generation + 1
  /\ UNCHANGED <<rows, tasks, marked, link, received, history>>

\* recover: a row left active by an earlier process is reported, not rerun.
RecoverRow(key) ==
  /\ phase = "recovering"
  /\ key \in Active
  /\ Update(key, Completed(rows[key], Restarted))
  /\ UNCHANGED <<process, link, received, history>>

RecoverDone ==
  /\ phase = "recovering"
  /\ Active = {}
  /\ phase' = "running"
  /\ UNCHANGED <<rows, generation, tasks, marked, link, received, history>>

\* A stop request, or an unsaved result: the connection is dropped first.
Stop ==
  /\ phase = "running"
  /\ phase' = "stopping"
  /\ NoLink
  /\ UNCHANGED <<rows, generation, tasks, marked, received, history>>

Gone == phase' = "down" /\ tasks' = {} /\ marked' = {} /\ NoLink

\* Every task has finished, or the shutdown deadline has passed.
Exit ==
  /\ phase = "stopping"
  /\ Gone
  /\ UNCHANGED <<rows, generation, received, history>>

Kill ==
  /\ phase \in {"recovering", "running"}
  /\ Gone
  /\ UNCHANGED <<rows, generation, received, history>>

\* connection: connect, welcome, hello and ready.
Connect ==
  /\ phase = "running"
  /\ ~connected
  /\ connected' = TRUE
  /\ UNCHANGED <<rows, process, inbound, outbound, received, history>>

Fault ==
  /\ faults < MaxFaults
  /\ faults' = faults + 1

Disconnect ==
  /\ connected
  /\ Fault
  /\ NoLink
  /\ UNCHANGED <<rows, process, received, executions, reported, discarded>>

-----------------------------------------------------------------------------
(* Engine::request *)

Full ==
  \/ Cardinality(DOMAIN rows) >= MaxRows
  \/ Cardinality(Active) >= MaxActive
  \/ UsedBytes + MaxResult > MaxOutboxBytes

\* The verdict of Journal::admit.
Admit(frame) ==
  IF frame.key \notin DOMAIN rows THEN IF Full THEN "DAEMON_CAPACITY" ELSE "New"
  ELSE IF rows[frame.key].hash # frame.hash THEN "IDEMPOTENCY_CONFLICT"
  ELSE IF rows[frame.key].state = "expired" THEN "RESULT_EXPIRED"
  ELSE "Duplicate"

\* The generation fence, the parse, and admit, in this order.
Verdict(frame) ==
  IF frame.key[1] # generation THEN "RUNTIME_GENERATION_MISMATCH"
  ELSE IF frame.hash \in Unsupported THEN "INVALID_REQUEST"
  ELSE Admit(frame)

Receive(frame, type) ==
  /\ phase = "running"
  /\ frame \in inbound
  /\ frame.type = type
  /\ inbound' = inbound \ {frame}
  /\ UNCHANGED connected

\* The row is durable before the task starts and the reply leaves.
RequestNew(frame) ==
  /\ Receive(frame, "request")
  /\ Verdict(frame) = "New"
  /\ rows' = Put(rows, frame.key, NewRow(frame.hash))
  /\ tasks' = tasks \cup {frame.key}
  /\ executions' = Put(executions, frame.key,
                       IF frame.key \in DOMAIN executions THEN executions[frame.key] + 1 ELSE 1)
  /\ outbound' = outbound \cup {Reply(frame, "New")}
  /\ UNCHANGED <<phase, generation, marked, received, reported, discarded, faults>>

RequestDuplicate(frame) ==
  /\ Receive(frame, "request")
  /\ Verdict(frame) = "Duplicate"
  /\ Update(frame.key, Readmitted(rows[frame.key]))
  /\ outbound' = outbound \cup {Reply(frame, "Duplicate")}
  /\ UNCHANGED <<process, received, history>>

RequestRefused(frame) ==
  /\ Receive(frame, "request")
  /\ Verdict(frame) \notin {"New", "Duplicate"}
  /\ outbound' = outbound \cup {Reply(frame, Verdict(frame))}
  /\ UNCHANGED <<rows, process, received, history>>

\* The task ends, with a result of the core or by panicking.
TaskCompletes(key, outcome) ==
  /\ key \in tasks
  /\ tasks' = tasks \ {key}
  /\ Update(key, Completed(rows[key], outcome))
  /\ UNCHANGED <<phase, generation, marked, link, received, history>>

\* Variant: the result is sent although it could not be saved.
TaskReportedUnsaved(key) ==
  /\ key \in tasks
  /\ phase = "running"
  /\ Fault
  /\ tasks' = tasks \ {key}
  /\ phase' = "stopping"
  /\ \E outcome \in TaskResults : reported' = reported \cup {<<key, outcome>>}
  /\ NoLink
  /\ UNCHANGED <<rows, generation, marked, received, executions, discarded>>

\* complete_timed fails: the daemon stops, the row stays active.
TaskUnsaved(key) ==
  /\ key \in tasks
  /\ phase = "running"
  /\ Fault
  /\ tasks' = tasks \ {key}
  /\ phase' = "stopping"
  /\ NoLink
  /\ UNCHANGED <<rows, generation, marked, received, executions, reported, discarded>>

-----------------------------------------------------------------------------
(* Delivery *)

\* Variant: only results of this generation are sent.
SendableNow(key) ==
  /\ phase = "running"
  /\ connected
  /\ key \in DOMAIN rows
  /\ key[1] = generation
  /\ rows[key].state = "pending"
  /\ rows[key].due
  /\ RoomInFlight

Sendable(key) ==
  /\ phase = "running"
  /\ connected
  /\ key \in DOMAIN rows
  /\ rows[key].state = "pending"
  /\ rows[key].due
  /\ RoomInFlight

\* next, attempted, send and flushed.
Send(key) ==
  /\ Sendable(key)
  /\ Update(key, [rows[key] EXCEPT !.due = FALSE])
  /\ outbound' = outbound \cup {Result(key, rows[key].outcome)}
  /\ reported' = reported \cup {<<key, rows[key].outcome>>}
  /\ UNCHANGED <<process, connected, inbound, received, executions, discarded, faults>>

\* The attempt is recorded, the send times out and ends the connection.
SendFails(key) ==
  /\ Sendable(key)
  /\ Fault
  /\ Update(key, [rows[key] EXCEPT !.due = FALSE])
  /\ NoLink
  /\ UNCHANGED <<process, received, executions, reported, discarded>>

\* A matching result_ack; the core hears of results of its own generation.
AckReceived(frame) ==
  /\ Receive(frame, "result_ack")
  /\ AckMatches(frame)
  /\ Update(frame.key, Acknowledged(rows[frame.key]))
  /\ marked' = IF frame.key[1] = generation /\ rows[frame.key].hash \in Native
               THEN marked \cup {frame.key} ELSE marked
  /\ UNCHANGED <<phase, generation, tasks, outbound, received, history>>

AckIgnored(frame) ==
  /\ Receive(frame, "result_ack")
  /\ ~AckMatches(frame)
  /\ UNCHANGED <<rows, process, outbound, received, history>>

\* A permanent nack quarantines a pending result, any other leaves it.
NackReceived(frame) ==
  /\ Receive(frame, "result_nack")
  /\ rows' = IF /\ ~frame.retryable
                /\ frame.key \in DOMAIN rows
                /\ rows[frame.key].delivery = frame.outcome
                /\ rows[frame.key].state = "pending"
             THEN [rows EXCEPT ![frame.key].state = "quarantined"]
             ELSE rows
  /\ UNCHANGED <<process, outbound, received, history>>

\* sweep, before every connection and every 30 seconds of one.
SweepJournal ==
  /\ phase = "running"
  /\ LET table == [key \in DOMAIN rows |-> Swept(rows[key])]
     IN  rows' = Restrict(table, Kept(table))
  /\ UNCHANGED <<process, link, received, history>>

\* `outbox --discard` and `outbox --retry`, from a process of their own.
Discard(key) ==
  /\ key \in DOMAIN rows
  /\ rows[key].state = "quarantined"
  /\ Update(key, Expired(rows[key]))
  /\ discarded' = discarded \cup {key}
  /\ UNCHANGED <<process, link, received, executions, reported, faults>>

Retry(key) ==
  /\ key \in DOMAIN rows
  /\ rows[key].state = "quarantined"
  /\ Update(key, [rows[key] EXCEPT !.state = "pending", !.due = TRUE, !.aged = FALSE])
  /\ UNCHANGED <<process, link, received, history>>

-----------------------------------------------------------------------------
(* Time, and the gateway *)

\* next_attempt comes.
FallDue(key) ==
  /\ key \in DOMAIN rows
  /\ rows[key].state = "pending"
  /\ ~rows[key].due
  /\ Update(key, [rows[key] EXCEPT !.due = TRUE])
  /\ UNCHANGED <<process, link, received, history>>

\* The delivery horizon of a result passes, or the retention of a delivered one.
PassHorizon(key) ==
  /\ key \in DOMAIN rows
  /\ rows[key].state = "pending"
  /\ ~rows[key].aged
  /\ Update(key, [rows[key] EXCEPT !.aged = TRUE])
  /\ UNCHANGED <<process, link, received, history>>

PassRetention(key) ==
  /\ key \in DOMAIN rows
  /\ rows[key].acked = "recently"
  /\ Update(key, [rows[key] EXCEPT !.acked = "long_ago"])
  /\ UNCHANGED <<process, link, received, history>>

\* A caller's request, or a retry of one, reaches the daemon's socket.
GatewayRequests(key, hash) ==
  /\ connected
  /\ RoomInFlight
  /\ inbound' = inbound \cup {Request(key, hash)}
  /\ UNCHANGED <<rows, process, connected, outbound, received, history>>

GatewayReads(frame) ==
  /\ frame \in outbound
  /\ frame.type \in {"accepted", "rejected"}
  /\ outbound' = outbound \ {frame}
  /\ UNCHANGED <<rows, process, connected, inbound, received, history>>

\* deliver: the receiver admits the result; the confirmation may not arrive.
GatewayAdmits(frame, confirmed) ==
  /\ frame \in outbound
  /\ frame.type = "result"
  /\ outbound' = outbound \ {frame}
  /\ received' = IF frame.key \in DOMAIN received THEN received
                 ELSE Put(received, frame.key, frame.outcome)
  /\ inbound' = inbound \cup {IF confirmed THEN Ack(frame.key, frame.outcome)
                              ELSE Nack(frame.key, frame.outcome, TRUE)}
  /\ UNCHANGED <<rows, process, connected, history>>

\* deliver: capacity, an unavailable receiver, or a permanent refusal.
GatewayRefuses(frame, retryable) ==
  /\ frame \in outbound
  /\ frame.type = "result"
  /\ outbound' = outbound \ {frame}
  /\ inbound' = inbound \cup {Nack(frame.key, frame.outcome, retryable)}
  /\ UNCHANGED <<rows, process, connected, received, history>>

-----------------------------------------------------------------------------
JournalInit ==
  /\ rows = <<>>
  /\ phase = "down"
  /\ generation = 0
  /\ tasks = {}
  /\ marked = {}
  /\ connected = FALSE
  /\ inbound = {}
  /\ outbound = {}
  /\ received = <<>>
  /\ executions = <<>>
  /\ reported = {}
  /\ discarded = {}
  /\ faults = 0

Lifecycle ==
  \/ Start
  \/ \E key \in Active : RecoverRow(key)
  \/ RecoverDone
  \/ Stop
  \/ Exit
  \/ Kill
  \/ Connect
  \/ Disconnect

Engine ==
  \/ \E frame \in inbound :
       \/ RequestNew(frame)
       \/ RequestDuplicate(frame)
       \/ RequestRefused(frame)
  \/ \E key \in tasks, outcome \in TaskResults : TaskCompletes(key, outcome)
  \/ \E key \in tasks : TaskUnsaved(key)

Delivery ==
  \/ \E key \in DOMAIN rows : Send(key) \/ SendFails(key)
  \/ \E frame \in inbound :
       AckReceived(frame) \/ AckIgnored(frame) \/ NackReceived(frame)
  \/ SweepJournal
  \/ \E key \in DOMAIN rows : Discard(key) \/ Retry(key)

Time ==
  \E key \in DOMAIN rows : FallDue(key) \/ PassHorizon(key) \/ PassRetention(key)

Gateway ==
  \/ \E key \in (1 .. generation) \X RequestIds, hash \in Hashes :
       GatewayRequests(key, hash)
  \/ \E frame \in outbound :
       \/ GatewayReads(frame)
       \/ \E confirmed \in BOOLEAN : GatewayAdmits(frame, confirmed)
       \/ \E retryable \in BOOLEAN : GatewayRefuses(frame, retryable)

JournalNext == Lifecycle \/ Engine \/ Delivery \/ Time \/ Gateway

JournalSpec == JournalInit /\ [][JournalNext]_journalVars

-----------------------------------------------------------------------------
(* Properties *)

\* "The operation was not rerun": through retries, restarts, lost connections and
\* the removal of tombstones, a request runs at most once in all generations.
AtMostOnce == \A key \in DOMAIN executions : executions[key] <= 1

\* The outcome of a request never changes once it can have been seen: every frame
\* ever sent, the row and the receiver agree, also across a crash and recovery.
OneOutcome ==
  /\ \A r, s \in reported : r[1] = s[1] => r = s
  /\ \A key \in DOMAIN received : <<key, received[key]>> \in reported
  /\ \A r \in reported :
       /\ r[1] \in DOMAIN rows
       /\ rows[r[1]].state # "expired"
       => rows[r[1]].outcome = r[2]

\* A request has one execution and one outcome, whatever is retried or restarted.
OneExecution == AtMostOnce /\ OneOutcome

\* A request that is running has a task behind it in this process, so that it will
\* take its outcome here or be recovered at the next start: never neither.
ActiveIsOwned ==
  phase = "running" => Active = tasks

\* "No automatic deletion of undelivered results": what was run is still running,
\* and then owned by a task, or its result is kept and can be sent, until the
\* receiver has it or an operator discards it; only then may the core forget it.
NothingLost ==
  /\ \A key \in DOMAIN executions :
       \/ key \in DOMAIN received
       \/ key \in discarded
       \/ key \in DOMAIN rows /\ rows[key].state \in {"active", "pending", "quarantined"}
  /\ marked \subseteq DOMAIN received
  /\ ActiveIsOwned

\* admit counts: the journal stays within its row and concurrency budgets.
WithinCounts ==
  /\ Cardinality(DOMAIN rows) <= MaxRows
  /\ Cardinality(Active) <= MaxActive

\* Capacity is reserved before execution: whatever the outcomes turn out to be, the
\* journal stays within its row, concurrency and byte budgets.
WithinBudget == WithinCounts /\ UsedBytes <= MaxOutboxBytes

\* No result is lost to make room, and none is taken without room.
KeptWithinBudget == NothingLost /\ WithinBudget

-----------------------------------------------------------------------------
(* Liveness *)

AllKeys == (1 .. MaxGenerations) \X RequestIds

\* One frame is taken from the socket.
Serve ==
  \E frame \in inbound :
    \/ RequestNew(frame) \/ RequestDuplicate(frame) \/ RequestRefused(frame)
    \/ AckReceived(frame) \/ AckIgnored(frame) \/ NackReceived(frame)

\* The select loop serves its socket and its timer, tasks end, time passes and a
\* receiver that is asked again and again admits the result at last.
JournalFairness ==
  /\ WF_journalVars(\E key \in Active : RecoverRow(key))
  /\ WF_journalVars(RecoverDone)
  /\ WF_journalVars(Connect)
  /\ WF_journalVars(Serve)
  /\ WF_journalVars(\E frame \in outbound : GatewayReads(frame))
  /\ \A key \in AllKeys :
       /\ WF_journalVars(key \in tasks /\ \E outcome \in TaskResults : TaskCompletes(key, outcome))
       /\ SF_journalVars(Send(key))
       /\ WF_journalVars(FallDue(key))
       /\ \A outcome \in Outcomes :
            SF_journalVars(GatewayAdmits(Result(key, outcome), TRUE))

JournalFairSpec == JournalSpec /\ JournalFairness

\* While the daemon stays up, the result of every request it has run, in this or an
\* earlier generation, reaches its receiver unless it is quarantined or discarded: a
\* lost send, a lost acknowledgement or a reconnect never ends the retries.
EventuallyDelivered ==
  <>[](phase = "running") =>
    \A key \in AllKeys :
      key \in DOMAIN executions ~>
        \/ key \in DOMAIN received \cup discarded
        \/ key \in DOMAIN rows /\ rows[key].state = "quarantined"
=============================================================================
