----------------------------- MODULE ToolWorkers -----------------------------
(***************************************************************************)
(* One tool operation of a session, from the harness host to the daemon    *)
(* and back: the host's execution binding (session-execution), the four    *)
(* stateless tool workers its hosts bind (bash, read, edit, write), the    *)
(* image store the read worker uploads to, and what the session admits.    *)
(*                                                                         *)
(* The session driver repeats the submission, under one identity, until it *)
(* has a receipt.  An attempt that it stops waiting for goes on: its call  *)
(* of the worker, its request at the gateway and its frame on the way to   *)
(* the daemon may all take effect later.  The daemon's result is delivered *)
(* until the worker has seen the session admit it; two deliveries may run  *)
(* at the same time.  Gateway and daemon appear here by what they answer   *)
(* and keep: MachineGateway and DaemonJournal model how.                   *)
(***************************************************************************)
EXTENDS Integers, FiniteSets

CONSTANTS
  Kinds,           \* tools of the operations: bash, read, edit, write
  NativeCodes,     \* codes of native errors
  MaxAttempts,     \* bound on attempts under way at the same time
  MaxDeliveries,   \* bound on deliveries under way at the same time
  MaxGenerations,  \* bound on daemon starts
  MaxFaults,       \* bound on losses, timeouts and changes of configuration
  None,            \* no value
  Thrown           \* an error that tells nothing

\* Codes of a refusal by a worker or by the gateway, and contents of a result.
Codes ==
  {"INVALID_BASH_REQUEST", "INVALID_READ_REQUEST", "INVALID_EDIT_REQUEST", "INVALID_WRITE_REQUEST",
   "BASH_REQUEST_TOO_LARGE", "READ_REQUEST_TOO_LARGE", "INVALID_REQUEST", "INVALID_SECRET",
   "MACHINE_DELETED", "MACHINE_OFFLINE", "CALLBACK_CONFIGURATION", "RUNTIME_GENERATION_MISMATCH"}

Contents ==
  NativeCodes \cup {"DAEMON_RESTARTED", "EDIT_REQUEST_TOO_LARGE", "WRITE_FILE_TOO_LARGE"}
  \cup {"exited", "timed_out", "terminated", "start_failed", "lost"}
  \cup {"text", "too_large", "image", "bad_image", "bad_bmp"}
  \cup {"applied", "rejected", "partial", "already_applied"}

\* An OperationOutcome, by what it tells of the effect and the content that tells it,
\* and what a provider's submit may return.
Outcomes ==
  [status : {"succeeded", "failed"}, origin : {"execution", "submission"},
   tells : {"done", "maybe", "nothing"}, content : Codes \cup Contents]

Answers ==
  [status : {"accepted"}]
  \cup [status : {"rejected"}, code : Codes]
  \cup [status : {"completed"}, outcome : Outcomes]

ASSUME ToolAssumption ==
  /\ Kinds \subseteq {"bash", "read", "edit", "write"}
  /\ None \notin Outcomes \cup Answers
  /\ MaxAttempts \in Nat /\ MaxDeliveries \in Nat
  /\ MaxGenerations \in Nat \ {0}
  /\ MaxFaults \in Nat

VARIABLES
  op,          \* the operation: its tool, and what its input is like
  bound,       \* host_execution_runtime: the pinned generation, 0 when unset
  discovery,   \* the shared preparing promise: None, Asked, or the reply's generation
  attempts,    \* slot -> submission under way
  current,     \* the attempt the driver waits for, or None
  receipt,     \* what the driver committed: none, accepted, completed, rejected
  admitted,    \* outcome in the session's inbox, or None
  blocked,     \* commits keep failing: processing is blocked
  machine,     \* at the gateway: generation, online, deleted, authorized, routed (and if it ever was not)
  row,         \* the request in the daemon's journal
  effect,      \* what the native operation really did
  deliveries,  \* slot -> delivery under way
  image,       \* the image is in the store
  faults       \* faults so far

vars == <<op, bound, discovery, attempts, current, receipt, admitted, blocked, machine, row,
          effect, deliveries, image, faults>>

session == <<bound, discovery, attempts, current, receipt, admitted, blocked>>
Asked   == 0

Attempts   == 1 .. MaxAttempts
Deliveries == 1 .. MaxDeliveries

-----------------------------------------------------------------------------
(* Results of the native operation and what the workers make of them.      *)

\* Errors after which the daemon cannot tell whether there were effects.
UncertainCodes ==
  {"io", "unavailable", "resource_limit", "cancelled", "RESULT_TOO_LARGE", "DAEMON_RESTARTED"}

NativeError(code) == [status |-> "error", code |-> code, uncertain |-> code \in UncertainCodes]
NativeOk(result)  == [status |-> "ok", result |-> result]

PatchReceipt(status, exact, changes) ==
  [status |-> status, exact |-> exact, changes |-> changes]

\* How a run of the tool may end: its result, and what it really did: all of it, none of
\* it, or some (and possibly all) of it.  The effect of a file tool is that on its file:
\* directories made on the way to a write that fails do not count.

\* Errors: the codes that the daemon calls certain come from checks that are made before
\* the command starts, or from a write that left its file as it was.
ErrorResults(kind) ==
  {<<NativeError(code), done>> : code \in NativeCodes \cap UncertainCodes,
                                 done \in IF kind = "read" THEN {"none"} ELSE {"none", "some"}}
  \cup {<<NativeError(code), "none">> : code \in NativeCodes \ UncertainCodes}

\* The end of the child, unless it never started or the runtime lost control of it.
BashResults ==
  {<<NativeOk(reason), "all">> : reason \in {"exited", "timed_out", "terminated"}}
  \cup {<<NativeOk("start_failed"), "none">>, <<NativeOk("lost"), "none">>, <<NativeOk("lost"), "some">>}

ReadResults ==
  {<<NativeOk(content), "all">> : content \in {"text", "too_large", "image", "bad_image", "bad_bmp"}}

\* A patch of one file: it is planned, checked against the file and committed; only a
\* commit that fails for another reason than a changed file leaves it in doubt.
EditResults ==
  {<<NativeOk(PatchReceipt("applied", TRUE, 1)), "all">>,
   <<NativeOk(PatchReceipt("rejected", TRUE, 0)), "none">>}
  \cup {<<NativeOk(PatchReceipt("partial", FALSE, 0)), done>> : done \in {"none", "some"}}

WriteResults ==
  {<<NativeOk(disposition), "all">> : disposition \in {"applied", "already_applied"}}

Ends(kind) ==
  ErrorResults(kind) \cup CASE kind = "bash"  -> BashResults
                         [] kind = "read"  -> ReadResults
                         [] kind = "edit"  -> EditResults
                         [] kind = "write" -> WriteResults

\* The outcome of an execution.
Outcome(status, tells, content) ==
  [status |-> status, origin |-> "execution", tells |-> tells, content |-> content]

Rejection(code) ==
  [status |-> "failed", origin |-> "submission", tells |-> "nothing", content |-> code]

FailedOutcome(error) ==
  Outcome("failed", IF error.uncertain THEN "maybe" ELSE "nothing", error.code)

BashOutcome(native) ==
  IF native.status = "error" THEN FailedOutcome(native)
  ELSE IF native.result = "lost" THEN Outcome("failed", "maybe", "lost")
  ELSE Outcome("succeeded", IF native.result = "start_failed" THEN "nothing" ELSE "done",
               native.result)

FileCodes == {"not_found", "io", "invalid_argument", "resource_limit", "conflict"}

\* A read reports its file errors even when they are marked uncertain.  An image that is
\* fine becomes a result only once it is in the store (formatImage).
ReadOutcome(native) ==
  IF native.status = "error"
  THEN IF native.code \in FileCodes
       THEN Outcome("succeeded", "nothing", native.code)
       ELSE FailedOutcome(native)
  ELSE Outcome("succeeded", IF native.result \in {"text", "image"} THEN "done" ELSE "nothing",
               native.result)

\* Variant: an uncertain file error of a mutation is reported like that of a read.
EditOutcomeOfRead(native) ==
  IF native.status = "error" /\ native.code \in FileCodes
  THEN Outcome("succeeded", "nothing", native.code)
  ELSE IF native.status = "error" THEN FailedOutcome(native)
  ELSE Outcome("succeeded", "done", native.result.status)

\* Variant: a receipt that names no change is refused.
EditReceiptParsesExactly(r) == r.exact /\ r.status \in {"applied", "rejected"}

\* formatReceipt of the edit worker: what its consistency checks let through.
EditReceiptParses(r) ==
  /\ r.status \in {"applied", "rejected", "partial"} /\ r.changes \in 0 .. 1
  /\ r.status = "applied" => r.exact /\ r.changes = 1
  /\ r.status = "rejected" => r.exact /\ r.changes = 0
  /\ r.status = "partial" => ~(r.exact /\ r.changes = 0)

EditTells == [applied |-> "done", rejected |-> "nothing", partial |-> "maybe"]

EditOutcome(native) ==
  IF native.status = "error"
  THEN IF ~native.uncertain /\ native.code \in FileCodes
       THEN Outcome("succeeded", "nothing", native.code)
       ELSE FailedOutcome(native)
  ELSE IF EditReceiptParses(native.result)
       THEN Outcome("succeeded", EditTells[native.result.status], native.result.status)
       ELSE Thrown

WriteOutcome(native) ==
  IF native.status = "error"
  THEN IF ~native.uncertain /\ native.code \in FileCodes
       THEN Outcome("succeeded", "nothing", native.code)
       ELSE FailedOutcome(native)
  ELSE Outcome("succeeded", "done", native.result)

TerminalOutcome(kind, native) ==
  CASE kind = "bash"  -> BashOutcome(native)
    [] kind = "read"  -> ReadOutcome(native)
    [] kind = "edit"  -> EditOutcome(native)
    [] kind = "write" -> WriteOutcome(native)

-----------------------------------------------------------------------------
(* Submission.                                                             *)

NoAttempt  == [stage |-> "free", gen |-> 0, answer |-> None]
NoDelivery == [stage |-> "free", outcome |-> None]

Accepted == [status |-> "accepted"]
Rejected(code) == [status |-> "rejected", code |-> code]
Completed(outcome) == [status |-> "completed", outcome |-> outcome]

\* A worker's submit before it sends anything: what it answers by itself, or None.
BashSubmit(input) ==
  CASE input = "invalid" -> Rejected("INVALID_BASH_REQUEST")
    [] input = "huge"    -> Rejected("BASH_REQUEST_TOO_LARGE")
    [] OTHER             -> None

ReadSubmit(input) ==
  CASE input = "invalid" -> Rejected("INVALID_READ_REQUEST")
    [] input = "huge"    -> Rejected("READ_REQUEST_TOO_LARGE")
    [] OTHER             -> None

\* Parameters over the tool's own limit complete the operation without the gateway.
EditSubmit(input) ==
  CASE input = "invalid" -> Rejected("INVALID_EDIT_REQUEST")
    [] input = "huge"    -> Completed(Outcome("succeeded", "nothing", "EDIT_REQUEST_TOO_LARGE"))
    [] OTHER             -> None

WriteSubmit(input) ==
  CASE input = "invalid" -> Rejected("INVALID_WRITE_REQUEST")
    [] input = "huge"    -> Completed(Outcome("succeeded", "nothing", "WRITE_FILE_TOO_LARGE"))
    [] OTHER             -> None

LocalAnswer(kind, input) ==
  CASE kind = "bash"  -> BashSubmit(input)
    [] kind = "read"  -> ReadSubmit(input)
    [] kind = "edit"  -> EditSubmit(input)
    [] kind = "write" -> WriteSubmit(input)

GatewayError(status, code, retryable, uncertain) ==
  [status |-> status, code |-> code, retryable |-> retryable, uncertain |-> uncertain]

\* Variant: runtime fences and conflicts reject too.
RejectsConflicts(e) == ~e.retryable /\ ~e.uncertain /\ e.status \notin {401, 403}

\* Which failures of the gateway a worker reports as a rejection of the operation.
Rejects(e) == ~e.retryable /\ ~e.uncertain /\ e.status \notin {401, 403, 409}

Answer(e) == IF Rejects(e) THEN Rejected(e.code) ELSE Thrown

\* The gateway's checks before it dispatches a request for a generation, in order; the
\* machine's state may change at every await between them, so any check may be the one
\* that fails.  None: the request is dispatched.
Refusals(gen) ==
  (IF machine.deleted THEN {GatewayError(410, "MACHINE_DELETED", FALSE, FALSE)} ELSE {})
  \cup (IF ~machine.authorized /\ ~machine.deleted
        THEN {GatewayError(401, "INVALID_SECRET", FALSE, FALSE)} ELSE {})
  \cup (IF ~machine.routed /\ machine.authorized /\ ~machine.deleted
        THEN {GatewayError(503, "CALLBACK_CONFIGURATION", FALSE, FALSE)} ELSE {})
  \cup (IF ~machine.online /\ machine.routed /\ machine.authorized /\ ~machine.deleted
        THEN {GatewayError(503, "MACHINE_OFFLINE", TRUE, FALSE)} ELSE {})
  \cup (IF machine.online /\ machine.routed /\ machine.authorized /\ machine.gen # gen
        THEN {GatewayError(409, "RUNTIME_GENERATION_MISMATCH", FALSE, FALSE)} ELSE {})
  \cup (IF machine.online /\ machine.routed /\ machine.authorized /\ machine.gen = gen
           /\ op.input = "unsupported"
        THEN {GatewayError(400, "INVALID_REQUEST", FALSE, FALSE)} ELSE {})

\* Slots are alike: the first free one is taken.
FirstFree(slots) ==
  LET free == {i \in DOMAIN slots : slots[i].stage = "free"}
  IN  IF free = {} THEN None ELSE CHOOSE i \in free : \A j \in free : i <= j

Faulty == faults < MaxFaults /\ faults' = faults + 1

Init ==
  /\ op \in [kind : Kinds, input : {"plain", "invalid", "huge", "unsupported"}]
  /\ bound = 0
  /\ discovery = None
  /\ attempts = [a \in Attempts |-> NoAttempt]
  /\ current = None
  /\ receipt = None
  /\ admitted = None
  /\ blocked = FALSE
  /\ machine = [gen |-> 1, online |-> TRUE, deleted |-> FALSE, authorized |-> TRUE,
                 routed |-> TRUE, unrouted |-> FALSE]
  /\ row = [state |-> "absent", gen |-> 0, native |-> None]
  /\ effect = "none"
  /\ deliveries = [d \in Deliveries |-> NoDelivery]
  /\ image = FALSE
  /\ faults = 0

\* The driver submits (again); without a pinned runtime the host first asks the gateway
\* for one, and an attempt that finds the question asked waits for the same answer.
Attempt(a) ==
  /\ receipt = None /\ ~blocked /\ current = None
  /\ a = FirstFree(attempts)
  /\ current' = a
  /\ attempts' = [attempts EXCEPT ![a] = [stage |-> IF bound = 0 THEN "discover" ELSE "call",
                                          gen |-> bound, answer |-> None]]
  /\ discovery' = IF bound = 0 /\ discovery = None THEN Asked ELSE discovery
  /\ UNCHANGED <<op, bound, receipt, admitted, blocked, machine, row, effect, deliveries, image, faults>>

Waiting == {a \in Attempts : attempts[a].stage = "discover"}

\* The gateway answers the discovery: a machine that is not ready, or not ours, fails
\* every attempt that waits.
Discovered ==
  /\ discovery = Asked
  /\ IF machine.online /\ machine.authorized
     THEN discovery' = machine.gen /\ UNCHANGED <<attempts, current>>
     ELSE /\ discovery' = None
          /\ attempts' = [a \in Attempts |-> IF a \in Waiting THEN NoAttempt ELSE attempts[a]]
          /\ current' = IF current \in Waiting THEN None ELSE current
  /\ UNCHANGED <<op, bound, receipt, admitted, blocked, machine, row, effect, deliveries, image, faults>>

\* The generation is persisted before anything is dispatched.
Prepare ==
  /\ discovery \in 1 .. MaxGenerations
  /\ bound' = IF bound = 0 THEN discovery ELSE bound
  /\ attempts' = [a \in Attempts |-> IF a \in Waiting
                                     THEN [attempts[a] EXCEPT !.stage = "call", !.gen = bound']
                                     ELSE attempts[a]]
  /\ discovery' = None
  /\ UNCHANGED <<op, current, receipt, admitted, blocked, machine, row, effect, deliveries, image, faults>>

Answered(a, answer) == attempts' = [attempts EXCEPT ![a].stage = "replied", ![a].answer = answer]

\* The worker's submit: it answers by itself or sends the request to the gateway.
Submit(a) ==
  /\ attempts[a].stage = "call"
  /\ LET answer == LocalAnswer(op.kind, op.input)
     IN  IF answer = None
         THEN attempts' = [attempts EXCEPT ![a].stage = "sent"]
         ELSE Answered(a, answer)
  /\ UNCHANGED <<op, bound, discovery, current, receipt, admitted, blocked, machine, row, effect,
                 deliveries, image, faults>>

\* The gateway refuses the request, or sends it on to the daemon.
Dispatch(a) ==
  /\ attempts[a].stage = "sent"
  /\ \/ \E e \in Refusals(attempts[a].gen) : Answered(a, Answer(e))
     \/ /\ Refusals(attempts[a].gen) = {}
        /\ attempts' = [attempts EXCEPT ![a].stage = "dispatched"]
  /\ UNCHANGED <<op, bound, discovery, current, receipt, admitted, blocked, machine, row, effect,
                 deliveries, image, faults>>

\* The daemon admits the request: once; a repetition has its result sent again, one that
\* was delivered or put in quarantine too.  A frame that does not reach the daemon's
\* current run leaves the outcome uncertain.
Accept(a) ==
  /\ attempts[a].stage = "dispatched"
  /\ IF machine.online /\ machine.gen = attempts[a].gen
     THEN /\ Answered(a, Accepted)
          /\ row' = CASE row.state = "absent" -> [state |-> "active", gen |-> attempts[a].gen, native |-> None]
                      [] row.state \in {"delivered", "quarantined"} -> [row EXCEPT !.state = "pending"]
                      [] OTHER -> row
     ELSE /\ Answered(a, Thrown)
          /\ UNCHANGED row
  /\ UNCHANGED <<op, bound, discovery, current, receipt, admitted, blocked, machine, effect,
                 deliveries, image, faults>>

\* queueCompletion: the same content again is a duplicate, other content a conflict that
\* fails the commit, as every repetition of it will.
Queue(outcome) ==
  IF admitted \in {None, outcome}
  THEN admitted' = outcome /\ UNCHANGED blocked
  ELSE blocked' = TRUE /\ UNCHANGED admitted

\* The driver has the answer it waits for and commits it; answers to attempts it gave up
\* are dropped.
Commit(a) ==
  /\ attempts[a].stage = "replied"
  /\ attempts' = [attempts EXCEPT ![a] = NoAttempt]
  /\ current' = IF current = a THEN None ELSE current
  /\ LET answer == attempts[a].answer
     IN  IF current # a \/ answer = Thrown
         THEN UNCHANGED <<receipt, admitted, blocked>>
         ELSE /\ CASE answer.status = "accepted"  -> UNCHANGED <<admitted, blocked>>
                   [] answer.status = "completed" -> Queue(answer.outcome)
                   [] answer.status = "rejected"  -> Queue(Rejection(answer.code))
              /\ receipt' = IF blocked' THEN receipt ELSE answer.status
  /\ UNCHANGED <<op, bound, discovery, machine, row, effect, deliveries, image, faults>>

\* A deadline of the driver, the worker or the gateway passes: the attempt goes on.
GiveUp ==
  /\ current # None
  /\ Faulty
  /\ current' = None
  /\ UNCHANGED <<op, bound, discovery, attempts, receipt, admitted, blocked, machine, row, effect,
                 deliveries, image>>

\* A call, request, frame or answer is lost, or the gateway or the daemon has no capacity.
Lose(a) ==
  /\ attempts[a].stage \in {"call", "sent", "dispatched", "replied"}
  /\ Faulty
  /\ attempts' = [attempts EXCEPT ![a] = NoAttempt]
  /\ current' = IF current = a THEN None ELSE current
  /\ UNCHANGED <<op, bound, discovery, receipt, admitted, blocked, machine, row, effect,
                 deliveries, image>>

\* Variant: the runtime is pinned in memory only.
ActivationLossUnpins ==
  /\ current # None \/ discovery # None
  /\ Faulty
  /\ current' = None
  /\ discovery' = None
  /\ bound' = 0
  /\ attempts' = [a \in Attempts |-> IF a \in Waiting THEN NoAttempt ELSE attempts[a]]
  /\ UNCHANGED <<op, receipt, admitted, blocked, machine, row, effect, deliveries, image>>

\* The session object is evicted: what it held in memory is gone.
ActivationLoss ==
  /\ current # None \/ discovery # None
  /\ Faulty
  /\ current' = None
  /\ discovery' = None
  /\ attempts' = [a \in Attempts |-> IF a \in Waiting THEN NoAttempt ELSE attempts[a]]
  /\ UNCHANGED <<op, bound, receipt, admitted, blocked, machine, row, effect, deliveries, image>>

-----------------------------------------------------------------------------
(* The machine.                                                            *)

Finish ==
  /\ row.state = "active"
  /\ \E end \in Ends(op.kind) :
       /\ row' = [row EXCEPT !.state = "pending", !.native = end[1]]
       /\ effect' = end[2]
  /\ UNCHANGED <<session, op, machine, deliveries, image, faults>>

\* The daemon starts again: a new generation, and what was running ends as uncertain.
Restart ==
  /\ machine.gen < MaxGenerations
  /\ machine' = [machine EXCEPT !.gen = @ + 1, !.online = FALSE]
  /\ IF row.state = "active"
     THEN /\ row' = [row EXCEPT !.state = "pending", !.native = NativeError("DAEMON_RESTARTED")]
          /\ effect' \in {"none", "some"}
     ELSE UNCHANGED <<row, effect>>
  /\ UNCHANGED <<session, op, deliveries, image, faults>>

Connect ==
  /\ ~machine.online /\ ~machine.deleted
  /\ machine' = [machine EXCEPT !.online = TRUE]
  /\ UNCHANGED <<session, op, row, effect, deliveries, image, faults>>

Disconnect ==
  /\ machine.online
  /\ Faulty
  /\ machine' = [machine EXCEPT !.online = FALSE]
  /\ UNCHANGED <<session, op, row, effect, deliveries, image>>

\* The application deletes the machine, rotates its execution secret (a session keeps the
\* secret it was created with), or deploys the gateway without its callback routes.
Manage ==
  /\ Faulty
  /\ ~machine.deleted
  /\ \/ machine' = [machine EXCEPT !.deleted = TRUE, !.online = FALSE]
     \/ machine.authorized /\ machine' = [machine EXCEPT !.authorized = FALSE]
     \/ machine.routed /\ machine' = [machine EXCEPT !.routed = FALSE, !.unrouted = TRUE]
  /\ UNCHANGED <<session, op, row, effect, deliveries, image>>

RestoreRoutes ==
  /\ ~machine.routed
  /\ machine' = [machine EXCEPT !.routed = TRUE]
  /\ UNCHANGED <<session, op, row, effect, deliveries, image, faults>>

-----------------------------------------------------------------------------
(* Delivery of the result.                                                 *)

Delivery(d, stage, outcome) ==
  deliveries' = [deliveries EXCEPT ![d] = [stage |-> stage, outcome |-> outcome]]

IsImage == op.kind = "read" /\ row.native \in {NativeOk("image"), NativeOk("bad_image")}

\* The gateway finds the worker's route and calls its acceptExecutionResult, which formats
\* the outcome; an image has to be in the store first.
AcceptExecutionResult(d) ==
  /\ row.state = "pending"
  /\ machine.online /\ machine.routed
  /\ d = FirstFree(deliveries)
  /\ LET outcome == TerminalOutcome(op.kind, row.native)
     IN  IF IsImage THEN Delivery(d, "lookup", None)
         ELSE outcome # Thrown /\ Delivery(d, "formatted", outcome)
  /\ UNCHANGED <<session, op, machine, row, effect, image, faults>>

\* Without callback routes the gateway answers that delivering the result again is no use
\* (CALLBACK_CONFIGURATION is not retryable): the daemon keeps it, but sends it no more.
Quarantine ==
  /\ row.state = "pending"
  /\ machine.online /\ ~machine.routed
  /\ row' = [row EXCEPT !.state = "quarantined"]
  /\ UNCHANGED <<session, op, machine, effect, deliveries, image, faults>>

\* Nor does it send a result that could not be delivered for the delivery horizon.
ExceedHorizon ==
  /\ row.state = "pending"
  /\ Faulty
  /\ row' = [row EXCEPT !.state = "quarantined"]
  /\ UNCHANGED <<session, op, machine, effect, deliveries, image>>

\* The operator of the machine has a result sent again.
Retry ==
  /\ row.state = "quarantined"
  /\ row' = [row EXCEPT !.state = "pending"]
  /\ UNCHANGED <<session, op, machine, effect, deliveries, image, faults>>

\* upload: what is stored is used; otherwise the image is sent.
Lookup(d) ==
  /\ deliveries[d].stage = "lookup"
  /\ IF image THEN Delivery(d, "formatted", ReadOutcome(row.native))
              ELSE Delivery(d, "upload", None)
  /\ UNCHANGED <<session, op, machine, row, effect, image, faults>>

\* The store takes a good image once, and its reply may be lost; it refuses one that is
\* bad or already there.
Upload(d) ==
  /\ deliveries[d].stage = "upload"
  /\ IF row.native = NativeOk("image") /\ ~image
     THEN /\ image' = TRUE
          /\ \/ Delivery(d, "formatted", ReadOutcome(row.native)) /\ UNCHANGED faults
             \/ Delivery(d, "recover", None) /\ Faulty
     ELSE Delivery(d, "recover", None) /\ UNCHANGED <<image, faults>>
  /\ UNCHANGED <<session, op, machine, row, effect>>

\* After a failed upload the worker looks again; an image that is not there was rejected.
Recover(d) ==
  /\ deliveries[d].stage = "recover"
  /\ Delivery(d, "formatted", IF image THEN ReadOutcome(row.native)
                              ELSE Outcome("succeeded", "nothing", "bad_image"))
  /\ UNCHANGED <<session, op, machine, row, effect, image, faults>>

\* The session admits a completion of its runtime: for the accepted job, or early for the
\* input still to be committed.  Anything else is refused, and delivered again later.
Admits(outcome) ==
  /\ bound # 0 /\ row.gen = bound
  /\ \/ admitted = outcome
     \/ admitted = None /\ receipt \in {None, "accepted"}

Admit(d) ==
  /\ deliveries[d].stage = "formatted"
  /\ IF Admits(deliveries[d].outcome)
     THEN Delivery(d, "confirmed", None) /\ admitted' = deliveries[d].outcome
     ELSE Delivery(d, "free", None) /\ UNCHANGED admitted
  /\ UNCHANGED <<bound, discovery, attempts, current, receipt, blocked, op, machine, row, effect, image, faults>>

\* The worker's receipt reaches the daemon, which takes it in quarantine too.
Acknowledge(d) ==
  /\ deliveries[d].stage = "confirmed"
  /\ Delivery(d, "free", None)
  /\ row' = IF machine.online THEN [row EXCEPT !.state = "delivered"] ELSE row
  /\ UNCHANGED <<session, op, machine, effect, image, faults>>

\* A deadline passes, or the worker, the store or the session is not available.
LoseDelivery(d) ==
  /\ deliveries[d].stage # "free"
  /\ Faulty
  /\ Delivery(d, "free", None)
  /\ UNCHANGED <<session, op, machine, row, effect, image>>

-----------------------------------------------------------------------------
Proceeds(a) == Submit(a) \/ Dispatch(a) \/ Accept(a) \/ Commit(a)
Submitting == \E a \in Attempts : Attempt(a) \/ Proceeds(a)
Binding == Discovered \/ Prepare
Delivers(d) ==
  AcceptExecutionResult(d) \/ Lookup(d) \/ Upload(d) \/ Recover(d) \/ Admit(d) \/ Acknowledge(d)
Delivering == \E d \in Deliveries : Delivers(d)

Next ==
  \/ Submitting \/ Binding \/ Delivering
  \/ GiveUp \/ ActivationLoss \/ \E a \in Attempts : Lose(a)
  \/ Finish \/ Restart \/ Connect \/ Disconnect \/ Manage \/ RestoreRoutes
  \/ Quarantine \/ ExceedHorizon \/ Retry
  \/ \E d \in Deliveries : LoseDelivery(d)

Spec == Init /\ [][Next]_vars

\* Calls, requests and frames that are not lost arrive; native operations end and the
\* daemon reconnects; the driver's alarm and the daemon's retries come again and again.
Fairness ==
  /\ \A a \in Attempts : WF_vars(Proceeds(a))
  /\ WF_vars(\E a \in Attempts : Attempt(a))
  /\ WF_vars(Binding)
  /\ WF_vars(Finish) /\ WF_vars(Connect) /\ WF_vars(RestoreRoutes)
  /\ \A d \in Deliveries : WF_vars(Delivers(d))

FairSpec == Spec /\ Fairness

-----------------------------------------------------------------------------
(* Properties.                                                             *)

\* What the model is told of the effect is true: an outcome that says the work was done
\* means that it was, one that says nothing happened means that nothing did, and anything
\* in doubt is told as doubt, whatever is lost, repeated or restarted on the way.
ToldTheTruth ==
  admitted # None /\ admitted.origin = "execution" =>
    /\ admitted.tells = "done" => effect = "all"
    /\ admitted.tells = "nothing" /\ op.kind # "read" => effect = "none"

\* The application took the machine, or the gateway its callback routes, away.
Managed == machine.deleted \/ machine.unrouted

\* An operation that was rejected has not run and never will, also through an attempt
\* that the driver no longer waits for, and a rejection never meets an outcome that the
\* session has already admitted: unless management came between two attempts.
RejectionsAreSafe ==
  ~Managed => /\ ~blocked
              /\ admitted # None /\ admitted.origin = "submission" => row.state = "absent"

\* The daemon lets go of a result only when the session holds exactly that result, and no
\* delivery under way carries another outcome than the one that the session holds: a
\* redelivery, a replay and a second upload of the same image all agree.
AcknowledgedIsAdmitted ==
  /\ row.state = "delivered" => admitted # None /\ admitted.origin = "execution"
  /\ \A d \in Deliveries :
       deliveries[d].stage = "formatted" /\ admitted # None /\ ~Managed =>
         deliveries[d].outcome = admitted

\* Work runs only in the generation that the session pinned, however the discovery and
\* the restarts of the daemon interleave with attempts that were given up.
OnlyInBoundGeneration == row.state # "absent" => row.gen = bound

\* The execution behind an outcome is the one of the pinned generation, and it is let go
\* of only when the session has it.
AdmittedWhereBound == AcknowledgedIsAdmitted /\ OnlyInBoundGeneration

\* The full contract of a provider: the operation it rejects was never accepted, under
\* any change of the deployment.  The code does not keep it.
RejectedWasNeverAccepted ==
  admitted # None /\ admitted.origin = "submission" => row.state = "absent"

Settled ==
  \/ receipt # None /\ admitted # None
  \/ machine.deleted \/ ~machine.authorized \/ blocked
  \/ receipt = None /\ bound # 0 /\ machine.gen # bound
  \/ row.state = "quarantined"

\* Every submitted operation gets a receipt and an outcome, unless its machine is gone,
\* its secret revoked, processing is blocked, the daemon restarted before the receipt, or
\* the result rests in quarantine: while the gateway had no callback routes, or past the
\* delivery horizon, the daemon gave its delivery up, and only its operator has it sent
\* again.
Settles == <>[]Settled
=============================================================================
