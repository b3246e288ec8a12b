--------------------------- MODULE SessionRuntime ---------------------------
(***************************************************************************)
(* One session of the platform: the SessionRuntime (durable inbox, harness *)
(* transitions, accepted-job table) together with the SessionDriver that   *)
(* schedules it inside a Durable Object, the alarm of the Durable Object   *)
(* and the operation providers it submits to.                              *)
(*                                                                         *)
(* Inputs and job completions are admitted to an ordered inbox.  The head  *)
(* of the inbox is prepared (the harness plans changes and operations),    *)
(* its operations are submitted to providers outside every lock, and the   *)
(* plan is committed in one transaction once every submission has an       *)
(* answer.  The activation may be lost between any two steps; the alarm    *)
(* brings it back.                                                         *)
(*                                                                         *)
(* A step that the driver takes under its #locked queue is one action      *)
(* guarded by LockFree; an admission, which awaits the alarm in the middle *)
(* of its locked section, is two.                                          *)
(***************************************************************************)
EXTENDS Integers, Sequences, FiniteSets

CONSTANTS
  InputIds,            \* event IDs that callers of appendInput use
  Bodies,              \* contents an input may carry
  InvalidBodies,       \* contents the harness's parseInput refuses
  Keys,                \* keys of the operations the harness has declared
  JobIds,              \* job identities providers hand out
  Outcomes,            \* terminal outcomes of an accepted job
  Plan(_, _),          \* harness.handle: the keys planned for an event, given
                       \* the events applied before it
  MaxHandlerFailures,  \* policy.maxHandlerFailures
  MaxSteps,            \* policy.maxSteps
  SubmissionConcurrency, \* policy.submissionConcurrency
  MaxFaults            \* bound on crashes, timeouts and thrown errors

ASSUME BoundsAssumption ==
  /\ MaxHandlerFailures \in Nat \ {0}
  /\ MaxSteps \in Nat \ {0}
  /\ SubmissionConcurrency \in Nat \ {0}
  /\ MaxFaults \in Nat

ASSUME HarnessAssumption ==
  /\ IsFiniteSet(Keys)
  /\ "rejected" \notin Outcomes
  /\ "none" \notin JobIds

VARIABLES
  session,    \* runtime_session has its row
  inbox,      \* runtime_inbox: a row's position is its sequence number
  applied,    \* harness tables, as the events applied to them in order
  pending,    \* runtime_pending_operations: operation -> job ID
  alarm,      \* an alarm is stored for this object
  prepared,   \* SessionRuntime.#prepared
  receipts,   \* SessionDriver.#receipts: operation -> answer
  receiptInput, \* SessionDriver.#receiptInput, as the input's sequence
  admission,  \* the admission that holds the #locked queue, if any
  pc,         \* where the running #drain is ("idle": #running is undefined)
  requested,  \* SessionDriver.#requested
  work,       \* #drain's local work: the plan and the progress it read
  step,       \* #drain's local step
  todo,       \* #submit: operations not yet sent
  flight,     \* #submit: operations sent and not answered
  failed,     \* #submit: errors is not empty
  firing,     \* alarm() was invoked and has not yet armed recovery
  jobs,       \* providers' durable view: operation -> job
  faults      \* faults so far, bounded by MaxFaults

durable    == <<session, inbox, applied, pending>>
submission == <<receipts, receiptInput, work, todo, flight, failed>>
memory     == <<prepared, submission, step>>
scheduler  == <<admission, pc, requested>>
world      == <<firing, jobs, faults>>
vars       == <<durable, alarm, memory, scheduler, world>>

-----------------------------------------------------------------------------
(* Values *)

\* The derived operation identity: source sequence and key.
Op == (Nat \ {0}) \X Keys

\* runtime.operation.completed carries the job and its outcome; a rejected
\* submission completes with origin "submission" and no job.
CompletionBodies ==
  [job : JobIds, outcome : Outcomes] \cup [job : {"none"}, outcome : {"rejected"}]

Events ==
  [kind : {"input"}, id : InputIds, body : Bodies]
    \cup [kind : {"completed"}, id : Op, body : CompletionBodies]

NoEvent == [kind |-> "none"]

\* handlerFailures is a history field: the failures of the row, since it was
\* last reset, that the driver reported as handler failures.
Rows ==
  [event : Events, consumed : BOOLEAN, failures : Nat, blocked : BOOLEAN,
   waiting : BOOLEAN, handlerFailures : Nat]

\* What a provider answers to a submission.
Answers ==
  [status : {"accepted"}, job : JobIds, outcome : {"none"}]
    \cup [status : {"completed"}, job : JobIds, outcome : Outcomes]
    \cup [status : {"rejected"}, job : {"none"}, outcome : {"rejected"}]

\* What a provider holds: "sent" is a submission that has not reached it yet.
Jobs ==
  [status : {"sent"}, job : {"none"}, outcome : {"none"}]
    \cup [status : {"accepted"}, job : JobIds, outcome : {"none"}]
    \cup [status : {"finished"}, job : JobIds, outcome : Outcomes]
    \cup [status : {"rejected"}, job : {"none"}, outcome : {"rejected"}]

\* A prepared transition: its operation IDs derive from its own sequence.
Transitions ==
  {t \in [seq : Nat, ops : SUBSET Op] : t.ops \subseteq {t.seq} \X Keys}

NoTransition == [seq |-> 0, ops |-> {}]

NoAdmission == [call |-> "free", event |-> NoEvent]

Idle == [plan |-> NoTransition, failures |-> 0]

Put(f, x, v) == [y \in DOMAIN f \cup {x} |-> IF y = x THEN v ELSE f[y]]

NewRow(event) ==
  [event |-> event, consumed |-> FALSE, failures |-> 0, blocked |-> FALSE,
   waiting |-> FALSE, handlerFailures |-> 0]

Completion(op, job, outcome) ==
  [kind |-> "completed", id |-> op, body |-> [job |-> job, outcome |-> outcome]]

-----------------------------------------------------------------------------
(* Reading the inbox *)

Unconsumed == {i \in DOMAIN inbox : ~inbox[i].consumed}

\* nextInput and processingStatus: the oldest unconsumed row, 0 when none.
NextInput ==
  IF Unconsumed = {} THEN 0
  ELSE CHOOSE i \in Unconsumed : \A j \in Unconsumed : i <= j

\* findInput: the rows that carry this event ID.
FindInput(kind, id) ==
  {i \in DOMAIN inbox : inbox[i].event.kind = kind /\ inbox[i].event.id = id}

\* A completion of an accepted job must match the committed acceptance.
CompletionConflict(event) ==
  /\ event.kind = "completed"
  /\ event.body.outcome # "rejected"
  /\ ~(event.id \in DOMAIN pending /\ pending[event.id] = event.body.job)

\* The plan the harness computes for the head, with derived operation IDs.
HeadTransition ==
  IF NextInput = 0 THEN NoTransition
  ELSE [seq |-> NextInput, ops |-> {NextInput} \X Plan(applied, inbox[NextInput].event)]

\* #prepare: the plan in memory if there is one, else the recomputed one.
Prepare == IF prepared # NoTransition THEN prepared ELSE HeadTransition

\* #prepare throws on a mismatched completion and on an undeclared operation.
PrepareThrows ==
  /\ prepared = NoTransition
  /\ NextInput # 0
  /\ \/ CompletionConflict(inbox[NextInput].event)
     \/ ~(Plan(applied, inbox[NextInput].event) \subseteq Keys)

LockFree == admission = NoAdmission

-----------------------------------------------------------------------------
(* Scheduling a drain *)

\* #start(true): enter the loop unless a drain is already running.
Start ==
  IF pc = "idle"
  THEN pc' = "loop" /\ step' = 0
  ELSE UNCHANGED <<step, pc>>

\* #kick: like #start, but a running drain is asked to start over.
Kick ==
  /\ Start
  /\ requested' = (requested \/ pc # "idle")

\* The end of a locked admission: success kicks, a thrown error does not.
Admitted ==
  /\ admission' = NoAdmission
  /\ Kick

Refused ==
  /\ admission' = NoAdmission
  /\ UNCHANGED <<step, pc, requested>>

-----------------------------------------------------------------------------
(* Admission *)

\* runtime.initialize under the lock; a second call changes nothing.
Initialize ==
  /\ LockFree
  /\ ~session
  /\ session' = TRUE
  /\ UNCHANGED <<inbox, applied, pending, alarm, memory, scheduler, world>>

\* Variant: admission trusts that an alarm is already there.
ArmNothing(call, event) ==
  /\ LockFree
  /\ admission' = [call |-> call, event |-> event]
  /\ UNCHANGED <<durable, alarm, pc, requested, world>>

\* The first half of a locked admission: #arm has returned.
Arm(call, event) ==
  /\ LockFree
  /\ admission' = [call |-> call, event |-> event]
  /\ alarm' = TRUE
  /\ UNCHANGED <<durable, pc, requested, world>>

AppendArm(id, body) ==
  /\ Arm("append", [kind |-> "input", id |-> id, body |-> body])
  /\ UNCHANGED memory

\* Variant: the insert does not look for the event ID first.
AppendUnchecked ==
  /\ admission.call = "append"
  /\ session
  /\ inbox' = Append(inbox, NewRow(admission.event))
  /\ Admitted
  /\ UNCHANGED <<session, applied, pending, alarm, prepared, submission, world>>

\* prepareInput's closure finds no row for the event ID and inserts one.
AppendNew ==
  /\ admission.call = "append"
  /\ session
  /\ FindInput("input", admission.event.id) = {}
  /\ admission.event.body \notin InvalidBodies
  /\ inbox' = Append(inbox, NewRow(admission.event))
  /\ Admitted
  /\ UNCHANGED <<session, applied, pending, alarm, prepared, submission, world>>

\* The same event ID with the same hash: the stored receipt is returned.
AppendDuplicate ==
  /\ admission.call = "append"
  /\ session
  /\ \E i \in FindInput("input", admission.event.id) :
       inbox[i].event = admission.event
  /\ Admitted
  /\ UNCHANGED <<durable, alarm, prepared, submission, world>>

\* No session, INPUT_CONFLICT or INVALID_INPUT: the closure throws.
AppendRefused ==
  /\ admission.call = "append"
  /\ \/ ~session
     \/ \E i \in FindInput("input", admission.event.id) :
          inbox[i].event # admission.event
     \/ /\ FindInput("input", admission.event.id) = {}
        /\ admission.event.body \in InvalidBodies
  /\ Refused
  /\ UNCHANGED <<durable, alarm, prepared, submission, world>>

-----------------------------------------------------------------------------
(* acceptCompletion: check, #arm and commit under one lock *)

\* What the provider of a finished job reports.
Callback(op) == Completion(op, jobs[op].job, jobs[op].outcome)

\* prepareCompletion's check: a matching row, the committed acceptance, or an
\* operation of the head's plan.
MatchesRow(event) ==
  \E i \in FindInput("completed", event.id) : inbox[i].event = event

MatchesPending(event) ==
  /\ FindInput("completed", event.id) = {}
  /\ event.id \in DOMAIN pending
  /\ pending[event.id] = event.body.job

MatchesPlan(event) ==
  /\ FindInput("completed", event.id) = {}
  /\ event.id \notin DOMAIN pending
  /\ ~PrepareThrows
  /\ Prepare.seq = event.id[1]
  /\ event.id \in Prepare.ops

Admissible(event) ==
  MatchesRow(event) \/ MatchesPending(event) \/ MatchesPlan(event)

\* The check plans the head when it finds neither a row nor an acceptance,
\* whether or not the plan then contains the operation.
CheckPrepares(op) ==
  IF FindInput("completed", op) = {} /\ op \notin DOMAIN pending /\ ~PrepareThrows
  THEN prepared' = Prepare
  ELSE UNCHANGED prepared

CompletionArm(op) ==
  /\ session
  /\ op \in DOMAIN jobs
  /\ jobs[op].status = "finished"
  /\ Admissible(Callback(op))
  /\ \A i \in FindInput("completed", op) : ~inbox[i].consumed
  /\ Arm("completion", Callback(op))
  /\ CheckPrepares(op)
  /\ UNCHANGED <<submission, step>>

\* OPERATION_NOT_FOUND: a callback for an operation this session does not know.
CompletionRefused(op) ==
  /\ LockFree
  /\ session
  /\ op \notin DOMAIN jobs
  /\ FindInput("completed", op) = {}
  /\ op \notin DOMAIN pending
  /\ ~PrepareThrows
  /\ op \notin Prepare.ops
  /\ CheckPrepares(op)
  /\ UNCHANGED <<durable, alarm, submission, step, scheduler, world>>

CompletionCommit ==
  /\ admission.call = "completion"
  /\ inbox' = IF FindInput("completed", admission.event.id) = {}
              THEN Append(inbox, NewRow(admission.event))
              ELSE inbox
  /\ Admitted
  /\ UNCHANGED <<session, applied, pending, alarm, prepared, submission, world>>

-----------------------------------------------------------------------------
(* resumeProcessing *)

ResumeArm ==
  /\ Arm("resume", NoEvent)
  /\ UNCHANGED memory

\* resetProcessing on the head, when it has failed or is blocked.
ResetHead ==
  IF NextInput # 0 /\ (inbox[NextInput].failures # 0 \/ inbox[NextInput].blocked)
  THEN [inbox EXCEPT ![NextInput].failures = 0, ![NextInput].blocked = FALSE,
                     ![NextInput].waiting = FALSE, ![NextInput].handlerFailures = 0]
  ELSE inbox

ResumeCommit ==
  /\ admission.call = "resume"
  /\ session
  /\ inbox' = ResetHead
  /\ Admitted
  /\ UNCHANGED <<session, applied, pending, alarm, prepared, submission, world>>

ResumeRefused ==
  /\ admission.call = "resume"
  /\ ~session
  /\ Refused
  /\ UNCHANGED <<durable, alarm, prepared, submission, world>>

-----------------------------------------------------------------------------
(* The alarm and explicit runs *)

\* The platform removes the stored alarm when it invokes alarm().
AlarmFire ==
  /\ alarm
  /\ ~firing
  /\ alarm' = FALSE
  /\ firing' = TRUE
  /\ UNCHANGED <<durable, memory, scheduler, jobs, faults>>

\* alarm(): arm recovery under the lock, then start.
AlarmArm ==
  /\ firing
  /\ LockFree
  /\ alarm' = TRUE
  /\ firing' = FALSE
  /\ Start
  /\ UNCHANGED <<durable, prepared, submission, admission, requested, jobs,
                 faults>>

\* run(): a drain that still has to arm recovery.
Run ==
  /\ pc = "idle"
  /\ pc' = "arm"
  /\ UNCHANGED <<durable, alarm, memory, admission, requested, world>>

DrainArm ==
  /\ pc = "arm"
  /\ LockFree
  /\ alarm' = TRUE
  /\ pc' = "loop"
  /\ step' = 0
  /\ UNCHANGED <<durable, prepared, submission, admission, requested, world>>

-----------------------------------------------------------------------------
(* #drain: one iteration of the loop *)

\* Variant: the loop does not look at the blocked flag.
RunnableIfBlocked == session /\ NextInput # 0 /\ ~inbox[NextInput].waiting

Runnable ==
  session /\ NextInput # 0 /\ ~inbox[NextInput].blocked /\ ~inbox[NextInput].waiting

\* failProcessing on the row of the progress that #drain read: the count is
\* the stored one plus one, the verdict is taken from the progress.
Fail(seq, failures, handlerFailure) ==
  LET blocks == handlerFailure /\ failures + 1 >= MaxHandlerFailures
  IN  IF seq \in Unconsumed
      THEN [inbox EXCEPT
             ![seq].failures = @ + 1, ![seq].blocked = blocks,
             ![seq].waiting = ~blocks,
             ![seq].handlerFailures = IF handlerFailure THEN @ + 1 ELSE @]
      ELSE inbox

Fault ==
  /\ faults < MaxFaults
  /\ faults' = faults + 1

\* The slice is used up: maxSteps were taken, or maxSliceMs passed after one.
SliceEnd ==
  /\ pc = "loop"
  /\ step > 0
  /\ pc' = "final"
  /\ UNCHANGED <<durable, alarm, memory, admission, requested, world>>

LoopStop ==
  /\ pc = "loop"
  /\ LockFree
  /\ step < MaxSteps
  /\ ~Runnable
  /\ pc' = "final"
  /\ UNCHANGED <<durable, alarm, memory, admission, requested, world>>

\* Variant: the bound of the loop is off by one.
LoopOnceMore ==
  /\ pc = "loop"
  /\ LockFree
  /\ step <= MaxSteps
  /\ Runnable
  /\ ~PrepareThrows
  /\ prepared' = Prepare
  /\ work' = [plan |-> Prepare, failures |-> inbox[NextInput].failures]
  /\ receiptInput' = Prepare.seq
  /\ receipts' = IF receiptInput = Prepare.seq THEN receipts ELSE <<>>
  /\ todo' = Prepare.ops \ DOMAIN receipts'
  /\ flight' = {}
  /\ failed' = FALSE
  /\ pc' = "submit"
  /\ UNCHANGED <<durable, alarm, step, admission, requested, world>>

\* prepareNext, then #submit starts: receipts of another input are dropped and
\* only operations without a receipt are sent.
LoopPrepare ==
  /\ pc = "loop"
  /\ LockFree
  /\ step < MaxSteps
  /\ Runnable
  /\ ~PrepareThrows
  /\ prepared' = Prepare
  /\ work' = [plan |-> Prepare, failures |-> inbox[NextInput].failures]
  /\ receiptInput' = Prepare.seq
  /\ receipts' = IF receiptInput = Prepare.seq THEN receipts ELSE <<>>
  /\ todo' = Prepare.ops \ DOMAIN receipts'
  /\ flight' = {}
  /\ failed' = FALSE
  /\ pc' = "submit"
  /\ UNCHANGED <<durable, alarm, step, admission, requested, world>>

\* handle throws, or its plan is refused.
LoopPrepareFails ==
  /\ pc = "loop"
  /\ LockFree
  /\ step < MaxSteps
  /\ Runnable
  /\ prepared = NoTransition
  /\ IF PrepareThrows THEN UNCHANGED faults ELSE Fault
  /\ inbox' = Fail(NextInput, inbox[NextInput].failures, TRUE)
  /\ pc' = "final"
  /\ UNCHANGED <<session, applied, pending, alarm, memory, admission, requested,
                 firing, jobs>>

-----------------------------------------------------------------------------
(* #submit: concurrent submissions, outside the lock *)

SubmitSend(op) ==
  /\ pc = "submit"
  /\ op \in todo
  /\ Cardinality(flight) < SubmissionConcurrency
  /\ todo' = todo \ {op}
  /\ flight' = flight \cup {op}
  /\ jobs' = IF op \in DOMAIN jobs THEN jobs
             ELSE Put(jobs, op, [status |-> "sent", job |-> "none", outcome |-> "none"])
  /\ UNCHANGED <<durable, alarm, prepared, receipts, receiptInput, work, failed,
                 step, scheduler, firing, faults>>

\* The answers a provider may give: a finished job is reported as accepted by
\* an answer that was on its way, or as completed.
AnswersFor(job) ==
  CASE job.status = "sent" -> {}
    [] job.status = "rejected" -> {job}
    [] job.status = "accepted" -> {job}
    [] job.status = "finished" ->
         {[job EXCEPT !.status = "completed"],
          [job EXCEPT !.status = "accepted", !.outcome = "none"]}

SubmitAnswer(op) ==
  /\ pc = "submit"
  /\ op \in flight
  /\ op \in DOMAIN jobs
  /\ \E answer \in AnswersFor(jobs[op]) : receipts' = Put(receipts, op, answer)
  /\ flight' = flight \ {op}
  /\ UNCHANGED <<durable, alarm, prepared, receiptInput, work, todo, failed,
                 step, scheduler, world>>

\* Variant: a timeout is taken for a rejection.
TimeoutRejects(op) ==
  /\ pc = "submit"
  /\ op \in flight
  /\ flight' = flight \ {op}
  /\ receipts' = Put(receipts, op,
                     [status |-> "rejected", job |-> "none", outcome |-> "rejected"])
  /\ Fault
  /\ UNCHANGED <<durable, alarm, prepared, receiptInput, work, todo, failed, step,
                 scheduler, firing, jobs>>

\* A timeout or a transient error: whether the provider accepted is unknown.
SubmitError(op) ==
  /\ pc = "submit"
  /\ op \in flight
  /\ flight' = flight \ {op}
  /\ failed' = TRUE
  /\ Fault
  /\ UNCHANGED <<durable, alarm, prepared, receipts, receiptInput, work, todo,
                 step, scheduler, firing, jobs>>

SubmitDone ==
  /\ pc = "submit"
  /\ todo = {}
  /\ flight = {}
  /\ pc' = IF failed THEN "failed" ELSE "commit"
  /\ UNCHANGED <<durable, alarm, memory, admission, requested, world>>

\* #failed(progress, false): the input stays and is retried.
SubmitFails ==
  /\ pc = "failed"
  /\ LockFree
  /\ inbox' = Fail(work.plan.seq, work.failures, FALSE)
  /\ pc' = "final"
  /\ UNCHANGED <<session, applied, pending, alarm, memory, admission, requested,
                 world>>

-----------------------------------------------------------------------------
(* commit *)

Accepted(ops) == {op \in ops : receipts[op].status # "rejected"}

\* The completions that commit queues: rejected and already completed jobs.
QueuedCompletions(ops) ==
  {Completion(op, receipts[op].job, receipts[op].outcome) :
     op \in {o \in ops : receipts[o].status # "accepted"}}

QueueConflict(ops) ==
  \E event \in QueuedCompletions(ops) :
    FindInput("completed", event.id) # {} /\ ~MatchesRow(event)

\* Every order in which a set of events may be queued.
Orders(events) ==
  {q \in [1 .. Cardinality(events) -> events] :
     /\ \A i, j \in DOMAIN q : q[i] = q[j] => i = j
     /\ \A event \in events : \E i \in DOMAIN q : q[i] = event}

Consume(rows, seq) ==
  [rows EXCEPT ![seq].consumed = TRUE, ![seq].failures = 0, ![seq].blocked = FALSE,
               ![seq].waiting = FALSE, ![seq].handlerFailures = 0]

\* The accepted jobs are recorded, the job whose completion this was is not
\* pending any more.
CommittedPending(ops, event) ==
  LET kept == (DOMAIN pending \cup Accepted(ops))
                \ (IF event.kind = "completed" THEN {event.id} ELSE {})
  IN  [op \in kept |-> IF op \in Accepted(ops) THEN receipts[op].job ELSE pending[op]]

CommitAllowed ==
  /\ work.plan = prepared
  /\ prepared.ops \subseteq DOMAIN receipts
  /\ NextInput # 0
  /\ NextInput = prepared.seq
  /\ ~QueueConflict(prepared.ops)

Commit ==
  /\ pc = "commit"
  /\ LockFree
  /\ CommitAllowed
  /\ LET event == inbox[NextInput].event
         fresh == {e \in QueuedCompletions(prepared.ops) :
                     FindInput("completed", e.id) = {}}
     IN  /\ \E q \in Orders(fresh) :
              inbox' = Consume(inbox, NextInput) \o [i \in DOMAIN q |-> NewRow(q[i])]
         /\ applied' = Append(applied, event)
         /\ pending' = CommittedPending(prepared.ops, event)
  /\ prepared' = NoTransition
  /\ receipts' = <<>>
  /\ receiptInput' = 0
  /\ work' = Idle
  /\ pc' = "loop"
  /\ step' = step + 1
  /\ UNCHANGED <<session, alarm, todo, flight, failed, admission, requested,
                 world>>

\* Variant: a failed transaction keeps what apply wrote.
CommitFailsHalfway ==
  /\ pc = "commit"
  /\ LockFree
  /\ Fault
  /\ inbox' = Fail(work.plan.seq, work.failures, TRUE)
  /\ applied' = Append(applied, inbox[work.plan.seq].event)
  /\ pc' = "final"
  /\ UNCHANGED <<session, pending, alarm, memory, admission, requested, firing, jobs>>

\* apply throws or a queued completion conflicts: the transaction rolls back.
CommitFails ==
  /\ pc = "commit"
  /\ LockFree
  /\ IF CommitAllowed THEN Fault ELSE UNCHANGED faults
  /\ inbox' = Fail(work.plan.seq, work.failures, TRUE)
  /\ pc' = "final"
  /\ UNCHANGED <<session, applied, pending, alarm, memory, admission, requested,
                 firing, jobs>>

-----------------------------------------------------------------------------
(* The end of a drain *)

\* The last locked section decides the alarm from the head alone.
Final ==
  /\ pc = "final"
  /\ LockFree
  /\ alarm' = (NextInput # 0 /\ ~inbox[NextInput].blocked)
  /\ pc' = "ending"
  /\ UNCHANGED <<durable, memory, admission, requested, world>>

\* A storage or alarm operation throws out of #drain.
DrainThrows ==
  /\ pc \in {"arm", "loop", "failed", "commit", "final"}
  /\ LockFree
  /\ Fault
  /\ pc' = "ending"
  /\ UNCHANGED <<durable, alarm, memory, admission, requested, firing, jobs>>

\* finally: #running is cleared, and a requested drain starts at once.
Ending ==
  /\ pc = "ending"
  /\ pc' = IF requested THEN "loop" ELSE "idle"
  /\ step' = 0
  /\ work' = Idle
  /\ requested' = FALSE
  /\ UNCHANGED <<durable, alarm, prepared, receipts, receiptInput, todo, flight,
                 failed, admission, world>>

-----------------------------------------------------------------------------
(* The platform and the providers *)

\* The activation is lost.  An alarm whose handler did not finish is retried.
Crash ==
  /\ Fault
  /\ alarm' = (alarm \/ firing)
  /\ firing' = FALSE
  /\ prepared' = NoTransition
  /\ receipts' = <<>>
  /\ receiptInput' = 0
  /\ admission' = NoAdmission
  /\ pc' = "idle"
  /\ requested' = FALSE
  /\ work' = Idle
  /\ step' = 0
  /\ todo' = {}
  /\ flight' = {}
  /\ failed' = FALSE
  /\ UNCHANGED <<durable, jobs>>

\* The retry deadline of the head passes.
RetryDue ==
  /\ NextInput # 0
  /\ inbox[NextInput].waiting
  /\ inbox' = [inbox EXCEPT ![NextInput].waiting = FALSE]
  /\ UNCHANGED <<session, applied, pending, alarm, memory, scheduler, world>>

\* A submission reaches its provider, however late; equal IDs get one answer.
ProviderDecides(op) ==
  /\ op \in DOMAIN jobs
  /\ jobs[op].status = "sent"
  /\ \/ \E j \in JobIds :
          jobs' = [jobs EXCEPT ![op] = [status |-> "accepted", job |-> j, outcome |-> "none"]]
     \/ jobs' = [jobs EXCEPT ![op] =
                   [status |-> "rejected", job |-> "none", outcome |-> "rejected"]]
  /\ UNCHANGED <<durable, alarm, memory, scheduler, firing, faults>>

JobFinishes(op) ==
  /\ op \in DOMAIN jobs
  /\ jobs[op].status = "accepted"
  /\ \E outcome \in Outcomes :
       jobs' = [jobs EXCEPT ![op].status = "finished", ![op].outcome = outcome]
  /\ UNCHANGED <<durable, alarm, memory, scheduler, firing, faults>>

-----------------------------------------------------------------------------
Init ==
  /\ session = FALSE
  /\ inbox = <<>>
  /\ applied = <<>>
  /\ pending = <<>>
  /\ alarm = FALSE
  /\ prepared = NoTransition
  /\ receipts = <<>>
  /\ receiptInput = 0
  /\ admission = NoAdmission
  /\ pc = "idle"
  /\ requested = FALSE
  /\ work = Idle
  /\ step = 0
  /\ todo = {}
  /\ flight = {}
  /\ failed = FALSE
  /\ firing = FALSE
  /\ jobs = <<>>
  /\ faults = 0

Admission ==
  \/ Initialize
  \/ \E id \in InputIds, body \in Bodies : AppendArm(id, body)
  \/ AppendNew
  \/ AppendDuplicate
  \/ AppendRefused
  \/ \E op \in DOMAIN jobs : CompletionArm(op)
  \/ \E op \in (1 .. Len(inbox)) \X Keys : CompletionRefused(op)
  \/ CompletionCommit
  \/ ResumeArm
  \/ ResumeCommit
  \/ ResumeRefused

Drain ==
  \/ DrainArm
  \/ SliceEnd
  \/ LoopStop
  \/ LoopPrepare
  \/ LoopPrepareFails
  \/ \E op \in todo : SubmitSend(op)
  \/ \E op \in flight : SubmitAnswer(op)
  \/ \E op \in flight : SubmitError(op)
  \/ SubmitDone
  \/ SubmitFails
  \/ Commit
  \/ CommitFails
  \/ Final
  \/ DrainThrows
  \/ Ending

Environment ==
  \/ AlarmFire
  \/ AlarmArm
  \/ Run
  \/ Crash
  \/ RetryDue
  \/ \E op \in DOMAIN jobs : ProviderDecides(op)
  \/ \E op \in DOMAIN jobs : JobFinishes(op)

Next == Admission \/ Drain \/ Environment

Spec == Init /\ [][Next]_vars

-----------------------------------------------------------------------------
(* Properties *)

DurableTypes ==
  /\ session \in BOOLEAN
  /\ inbox \in Seq(Rows)
  /\ applied \in Seq(Events)
  /\ DOMAIN pending \subseteq Op
  /\ \A op \in DOMAIN pending : pending[op] \in JobIds

MemoryTypes ==
  /\ prepared \in Transitions
  /\ DOMAIN receipts \subseteq Op
  /\ \A op \in DOMAIN receipts : receipts[op] \in Answers
  /\ receiptInput \in Nat
  /\ work \in [plan : Transitions, failures : Nat]
  /\ step \in 0 .. MaxSteps
  /\ todo \subseteq Op
  /\ flight \subseteq Op
  /\ failed \in BOOLEAN

SchedulerTypes ==
  /\ admission \in [call : {"append", "completion"}, event : Events]
                     \cup [call : {"free", "resume"}, event : {NoEvent}]
  /\ pc \in {"idle", "arm", "loop", "submit", "failed", "commit", "final", "ending"}
  /\ requested \in BOOLEAN

WorldTypes ==
  /\ alarm \in BOOLEAN
  /\ firing \in BOOLEAN
  /\ DOMAIN jobs \subseteq Op
  /\ \A op \in DOMAIN jobs : jobs[op] \in Jobs
  /\ faults \in 0 .. MaxFaults

\* Every table, cache and local of the driver holds what its declaration says: in
\* particular the loop's step never passes maxSteps.
TypeOK == DurableTypes /\ MemoryTypes /\ SchedulerTypes /\ WorldTypes

\* Whenever the head of the inbox may be processed, the platform holds an alarm
\* for this object or is invoking it: a crash after any admission, however it
\* interleaves with the alarm decision of a drain, cannot strand the session.
Protected ==
  NextInput # 0 /\ ~inbox[NextInput].blocked => alarm \/ firing

\* Events reach the harness exactly once and in inbox order: its tables are the
\* fold of the consumed rows, and those rows are a prefix of the inbox.
InOrderExactlyOnce ==
  /\ Len(applied) <= Len(inbox)
  /\ \A i \in DOMAIN inbox :
       /\ inbox[i].consumed <=> i <= Len(applied)
       /\ inbox[i].consumed => applied[i] = inbox[i].event

\* An operation that was ever sent to a provider still has an owner in durable
\* storage: the unconsumed head plans it again, or its acceptance is recorded,
\* or its completion is in the inbox.
NoOrphanJob ==
  \A op \in DOMAIN jobs :
    \/ op[1] = NextInput /\ op[2] \in Plan(applied, inbox[NextInput].event)
    \/ op \in DOMAIN pending
    \/ FindInput("completed", op) # {}

\* The provider of a finished job can always deliver its result: no interleaving
\* of crash, replay, early callback and commit makes acceptCompletion refuse it.
CallbackAdmissible ==
  \A op \in DOMAIN jobs :
    jobs[op].status = "finished" => Admissible(Callback(op))

\* runtime_pending_operations holds exactly the accepted operations of consumed
\* inputs whose completion has not been consumed, under the job that runs them.
PendingIsOpenJobs ==
  \A op \in DOMAIN jobs \cup DOMAIN pending :
    op \in DOMAIN pending <=>
      /\ op \in DOMAIN jobs
      /\ jobs[op].status \in {"accepted", "finished"}
      /\ op[1] <= Len(applied)
      /\ \A i \in FindInput("completed", op) : ~inbox[i].consumed
      /\ op \in DOMAIN pending => pending[op] = jobs[op].job

\* Every operation sent to a provider is accounted for, from the first submission
\* through crashes and replays until its completion is consumed.
JobsAccounted == NoOrphanJob /\ PendingIsOpenJobs

\* Completions queue behind the input that started the operation and report what
\* the provider decided, so a head completion never conflicts with its acceptance
\* and a commit never conflicts with a callback that overtook it.
NoSpuriousConflict ==
  /\ \A i \in DOMAIN inbox :
       inbox[i].event.kind = "completed" => inbox[i].event.id[1] < i
  /\ NextInput # 0 => ~CompletionConflict(inbox[NextInput].event)
  /\ pc = "commit" => CommitAllowed

\* Callbacks may arrive at any moment: none is refused, and none stands in the way
\* of a commit or of the head.
CallbacksSafe == CallbackAdmissible /\ NoSpuriousConflict

\* A blocked head stays blocked, and nothing overtakes it, until resumeProcessing.
BlockedUntilResumed ==
  [][NextInput # 0 /\ inbox[NextInput].blocked =>
       /\ applied' = applied
       /\ inbox'[NextInput].blocked \/ admission.call = "resume"]_vars

\* A replay never submits anything but what the first attempt of the same input
\* planned: everything sent for the head is in the plan in memory.
ReplaySamePlan ==
  /\ prepared # NoTransition => prepared = HeadTransition
  /\ \A op \in DOMAIN jobs : op[1] = NextInput => op \in HeadTransition.ops

\* Through losses of the activation, replays, timeouts and callbacks that overtake
\* their commit, what was sent to a provider, what is recorded of it and what the head
\* plans agree, and no result is refused.
WorkAccounted == JobsAccounted /\ CallbacksSafe /\ ReplaySamePlan

\* README: "Transport ambiguity keeps retrying the same head", and only
\* "repeated preparation/apply failures block the head": a blocked row has seen
\* maxHandlerFailures failures of its handler since it was last resumed.
BlocksOnHandlerFailures ==
  \A i \in DOMAIN inbox :
    inbox[i].blocked => inbox[i].handlerFailures >= MaxHandlerFailures

-----------------------------------------------------------------------------
(* Refinement: the durable tables, read through this mapping, are a SessionLog. *)

Contract == INSTANCE SessionLog WITH
  log  <- [i \in DOMAIN inbox |-> inbox[i].event],
  done <- Len(applied),
  open <- DOMAIN pending

\* Every step of the driver, the providers and the platform is one admission, one
\* transition of the head, or invisible: crashes and retries never show.
RefinesSessionLog == Contract!Spec

-----------------------------------------------------------------------------
(* Liveness *)

\* The holder of the #locked queue finishes: its commit is synchronous.
AdmissionEnds ==
  AppendNew \/ AppendDuplicate \/ AppendRefused \/ CompletionCommit
    \/ ResumeCommit \/ ResumeRefused

\* What a running drain does when nothing throws.
DrainProgress ==
  \/ DrainArm \/ SliceEnd \/ LoopStop \/ LoopPrepare
  \/ PrepareThrows /\ LoopPrepareFails
  \/ \E op \in todo : SubmitSend(op)
  \/ \E op \in flight : SubmitAnswer(op)
  \/ SubmitDone \/ SubmitFails \/ Commit
  \/ ~CommitAllowed /\ CommitFails
  \/ Final \/ Ending

\* The provider redelivers a result until the session has it.
Delivery ==
  \E op \in DOMAIN jobs : FindInput("completed", op) = {} /\ CompletionArm(op)

\* Steps that wait for the promise queue are strongly fair because the queue is
\* first-in first-out; the platform delivers alarms and time passes.
Fairness ==
  /\ WF_vars(AdmissionEnds)
  /\ SF_vars(DrainProgress)
  /\ SF_vars(AlarmArm)
  /\ WF_vars(AlarmFire)
  /\ WF_vars(RetryDue)
  /\ WF_vars(\E op \in DOMAIN jobs : ProviderDecides(op))
  /\ WF_vars(\E op \in DOMAIN jobs : JobFinishes(op))
  /\ SF_vars(Delivery)

FairSpec == Spec /\ Fairness

Settled == NextInput = 0 /\ DOMAIN pending = {}

HeadBlocked == NextInput # 0 /\ inbox[NextInput].blocked

\* Unless an operator keeps resetting the head, all admitted work is processed
\* and every accepted job's result too, or the head ends up blocked: no lost
\* wake-up between admission, the end of a drain and the alarm.
EventuallySettles ==
  <>[][admission.call # "resume"]_inbox => []<>(Settled \/ HeadBlocked)
=============================================================================
