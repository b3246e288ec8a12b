------------------------------ MODULE LlmWorker ------------------------------
(***************************************************************************)
(* One LLM operation of a session: the stateless worker in front of the    *)
(* LLM gateway (service.ts, gateway.ts) and the webhook through which the  *)
(* gateway reports the end of a job (webhook.ts).                          *)
(*                                                                         *)
(* The gateway keeps the job under an idempotency key, so a repeated       *)
(* submission finds the same job, ended or not.  The outcome of a job thus *)
(* reaches the session along two paths: inline in a signed webhook, or     *)
(* read from the job's detail when a submission finds the job ended.  Both *)
(* must make the same outcome of it, at every size.  The gateway repeats a *)
(* webhook a bounded number of times; nobody else asks for the outcome.    *)
(*                                                                         *)
(* Sizes are counted in units of the outcome limit.  Whether the gateway   *)
(* takes a request is settled once per operation; it may in fact change    *)
(* between two attempts, when an account is disabled or enabled, as long   *)
(* as a job that exists is found under its key before the account is       *)
(* looked at.                                                              *)
(***************************************************************************)
EXTENDS Integers

CONSTANTS
  InputLimit,      \* MAX_OPERATION_INPUT_BYTES
  OutcomeLimit,    \* MAX_OPERATION_OUTCOME_BYTES
  TransportLimit,  \* the most that is read of a detail or a webhook
  PayloadSizes,    \* sizes of requests and responses
  MaxAttempts,     \* bound on submissions under way at the same time
  MaxWebhooks,     \* the gateway's bound on deliveries of one event
  MaxFaults,       \* bound on losses and timeouts
  None             \* no value

\* What a request may be, an outcome within its limit and the envelope fit the transport:
\* a detail is too large only if its response is.
LlmAssumption ==
  /\ {InputLimit, OutcomeLimit, TransportLimit, MaxAttempts, MaxWebhooks, MaxFaults} \subseteq Nat
  /\ PayloadSizes \subseteq Nat
  /\ InputLimit + OutcomeLimit <= TransportLimit

VARIABLES
  request,    \* the size of the request and whether the gateway takes it
  attempts,   \* slot -> submission under way
  current,    \* the attempt the driver waits for, or None
  receipt,    \* what the driver committed
  admitted,   \* outcome in the session's inbox, or None
  blocked,    \* a commit met another outcome
  job,        \* the gateway's job: its status and the size of its response
  webhooks,   \* slot -> delivery of the job's event under way
  sent,       \* deliveries of the event so far
  confirmed,  \* a delivery was answered 204
  keys,       \* webhook secrets the worker accepts
  signer,     \* the secret the gateway signs with
  faults      \* faults so far

llmVars == <<request, attempts, current, receipt, admitted, blocked, job, webhooks, sent,
             confirmed, keys, signer, faults>>

Attempts == 1 .. MaxAttempts
Webhooks == 1 .. MaxWebhooks

NoAttempt == [stage |-> "free", answer |-> None]
NoWebhook == [stage |-> "none", key |-> 0, outcome |-> None]

terminal == {"succeeded", "failed", "cancelled"}

TooLarge == [status |-> "failed", content |-> "LLM_RESULT_TOO_LARGE"]

Accepted == [status |-> "accepted"]
Rejected == [status |-> "rejected"]
Completed(outcome) == [status |-> "completed", outcome |-> outcome]
Rejection == [status |-> "failed", content |-> "submission"]

\* The normalization both paths share.
TerminalOutcome(status, size) ==
  CASE status = "cancelled" -> [status |-> "cancelled", content |-> "none"]
    [] status = "failed"    -> [status |-> "failed", content |-> "error"]
    [] status = "succeeded" -> IF size > OutcomeLimit THEN TooLarge
                               ELSE [status |-> "succeeded", content |-> "response"]

\* The detail of a job repeats its request; over the transport limit it counts as too large.
DetailOutcome ==
  IF request.size + job.size > TransportLimit THEN TooLarge
  ELSE TerminalOutcome(job.status, job.size)

Faulty == faults < MaxFaults /\ faults' = faults + 1

LlmInit ==
  /\ request \in [size : {n \in PayloadSizes : n <= InputLimit}, valid : {"yes", "worker", "gateway"}]
  /\ attempts = [a \in Attempts |-> NoAttempt]
  /\ current = None
  /\ receipt = None
  /\ admitted = None
  /\ blocked = FALSE
  /\ job = [status |-> "none", size |-> 0]
  /\ webhooks = [w \in Webhooks |-> NoWebhook]
  /\ sent = 0
  /\ confirmed = FALSE
  /\ keys = {1}
  /\ signer = 1
  /\ faults = 0

-----------------------------------------------------------------------------
(* Submission.                                                             *)

ReplyWith(a, answer) == attempts' = [attempts EXCEPT ![a] = [stage |-> "replied", answer |-> answer]]

\* The driver submits (again), under the same key.
Attempt(a) ==
  /\ receipt = None /\ ~blocked /\ current = None
  /\ attempts[a].stage = "free"
  /\ \A b \in Attempts : attempts[b].stage = "free" => a <= b
  /\ current' = a
  /\ attempts' = [attempts EXCEPT ![a].stage = "call"]
  /\ UNCHANGED <<request, receipt, admitted, blocked, job, webhooks, sent, confirmed, keys, signer, faults>>

\* The worker validates the request, and the gateway creates the job or finds it; errors
\* that precede its acceptance reject the operation.
Submit(a) ==
  /\ attempts[a].stage = "call"
  /\ IF request.valid # "yes"
     THEN ReplyWith(a, Rejected) /\ UNCHANGED job
     ELSE /\ job' = IF job.status = "none" THEN [job EXCEPT !.status = "queued"] ELSE job
          /\ IF job.status \in terminal
             THEN attempts' = [attempts EXCEPT ![a].stage = "detail"]
             ELSE ReplyWith(a, Accepted)
  /\ UNCHANGED <<request, current, receipt, admitted, blocked, webhooks, sent, confirmed, keys, signer, faults>>

\* The job had ended: the worker reads its outcome.
Detail(a) ==
  /\ attempts[a].stage = "detail"
  /\ ReplyWith(a, Completed(DetailOutcome))
  /\ UNCHANGED <<request, current, receipt, admitted, blocked, job, webhooks, sent, confirmed, keys, signer, faults>>

Queue(outcome) ==
  IF admitted \in {None, outcome}
  THEN admitted' = outcome /\ UNCHANGED blocked
  ELSE blocked' = TRUE /\ UNCHANGED admitted

\* The driver commits the answer it waits for; others are dropped.
Commit(a) ==
  /\ attempts[a].stage = "replied"
  /\ attempts' = [attempts EXCEPT ![a] = NoAttempt]
  /\ current' = IF current = a THEN None ELSE current
  /\ IF current # a
     THEN UNCHANGED <<receipt, admitted, blocked>>
     ELSE /\ CASE attempts[a].answer.status = "accepted"  -> UNCHANGED <<admitted, blocked>>
               [] attempts[a].answer.status = "completed" -> Queue(attempts[a].answer.outcome)
               [] attempts[a].answer.status = "rejected"  -> Queue(Rejection)
          /\ receipt' = IF blocked' THEN receipt ELSE attempts[a].answer.status
  /\ UNCHANGED <<request, job, webhooks, sent, confirmed, keys, signer, faults>>

\* A deadline passes or the session's activation ends: the attempt goes on.
GiveUp ==
  /\ current # None
  /\ Faulty
  /\ current' = None
  /\ UNCHANGED <<request, attempts, receipt, admitted, blocked, job, webhooks, sent, confirmed, keys, signer>>

\* A request or its reply is lost, or the gateway fails without saying what it did.
Lose(a) ==
  /\ attempts[a].stage # "free"
  /\ Faulty
  /\ attempts' = [attempts EXCEPT ![a] = NoAttempt]
  /\ current' = IF current = a THEN None ELSE current
  /\ UNCHANGED <<request, receipt, admitted, blocked, job, webhooks, sent, confirmed, keys, signer>>

-----------------------------------------------------------------------------
(* The gateway and its webhooks.                                           *)

EndJob ==
  /\ job.status = "queued"
  /\ \E status \in terminal, size \in PayloadSizes :
       /\ status # "succeeded" => size = 0
       /\ job' = [status |-> status, size |-> size]
  /\ UNCHANGED <<request, attempts, current, receipt, admitted, blocked, webhooks, sent, confirmed, keys, signer, faults>>

\* The gateway signs and sends the event (again): not before an earlier delivery was
\* answered, lost, or its time was up.
SendWebhook ==
  /\ job.status \in terminal /\ ~confirmed
  /\ sent < MaxWebhooks
  /\ \A w \in Webhooks : webhooks[w].stage \notin {"sent", "admitting"}
  /\ sent' = sent + 1
  /\ webhooks' = [webhooks EXCEPT ![sent + 1] = [stage |-> "sent", key |-> signer, outcome |-> None]]
  /\ UNCHANGED <<request, attempts, current, receipt, admitted, blocked, job, confirmed, keys, signer, faults>>

Verifies(key) == key \in keys

\* receive: the body is bounded (413) and its signature verified (401) before it is parsed.
Receive(w) ==
  /\ webhooks[w].stage = "sent"
  /\ webhooks' = [webhooks EXCEPT ![w] =
       IF job.size <= TransportLimit /\ Verifies(@.key)
       THEN [@ EXCEPT !.stage = "admitting", !.outcome = TerminalOutcome(job.status, job.size)]
       ELSE [@ EXCEPT !.stage = "refused"]]
  /\ UNCHANGED <<request, attempts, current, receipt, admitted, blocked, job, sent, confirmed, keys, signer, faults>>

Admits(outcome) == admitted = outcome \/ (admitted = None /\ receipt \in {None, "accepted"})

\* Variant: the event is confirmed before the session has it.
DeliverUnconfirmed(w) ==
  /\ webhooks[w].stage \in {"admitting", "late"}
  /\ confirmed' = TRUE
  /\ webhooks' = [webhooks EXCEPT ![w].stage = "refused"]
  /\ UNCHANGED <<request, attempts, current, receipt, admitted, blocked, job, sent, keys, signer, faults>>

\* deliver: 204 only when the session has admitted the outcome.  A call whose time is up
\* cannot be aborted and may still admit it.
Deliver(w) ==
  /\ webhooks[w].stage \in {"admitting", "late"}
  /\ IF Admits(webhooks[w].outcome)
     THEN /\ admitted' = webhooks[w].outcome
          /\ confirmed' = (confirmed \/ webhooks[w].stage = "admitting")
     ELSE UNCHANGED <<admitted, confirmed>>
  /\ webhooks' = [webhooks EXCEPT ![w].stage = "refused"]
  /\ UNCHANGED <<request, attempts, current, receipt, blocked, job, sent, keys, signer, faults>>

\* The delivery is lost, or its deadline passes while the session is called.
LoseWebhook(w) ==
  /\ webhooks[w].stage \in {"sent", "admitting"}
  /\ Faulty
  /\ webhooks' = [webhooks EXCEPT ![w].stage = IF @ = "sent" THEN "refused" ELSE "late"]
  /\ UNCHANGED <<request, attempts, current, receipt, admitted, blocked, job, sent, confirmed, keys, signer>>

\* Rotation of the webhook secret: the worker accepts old and new, the gateway changes
\* over, the worker drops the old one.
Rotate ==
  /\ \/ keys = {1} /\ keys' = {1, 2} /\ UNCHANGED signer
     \/ keys = {1, 2} /\ signer = 1 /\ signer' = 2 /\ UNCHANGED keys
     \/ keys = {1, 2} /\ signer = 2 /\ keys' = {2} /\ UNCHANGED signer
          /\ \A w \in Webhooks : webhooks[w].stage = "sent" => webhooks[w].key = 2
  /\ UNCHANGED <<request, attempts, current, receipt, admitted, blocked, job, webhooks, sent, confirmed, faults>>

-----------------------------------------------------------------------------
LlmNext ==
  \/ \E a \in Attempts : Attempt(a) \/ Submit(a) \/ Detail(a) \/ Commit(a) \/ Lose(a)
  \/ GiveUp \/ EndJob \/ SendWebhook \/ Rotate
  \/ \E w \in Webhooks : Receive(w) \/ Deliver(w) \/ LoseWebhook(w)

LlmSpec == LlmInit /\ [][LlmNext]_llmVars

\* Calls that are not lost are answered, jobs end, the driver and the gateway retry.
LlmFairness ==
  /\ \A a \in Attempts : WF_llmVars(Submit(a) \/ Detail(a) \/ Commit(a))
  /\ WF_llmVars(\E a \in Attempts : Attempt(a))
  /\ WF_llmVars(EndJob) /\ WF_llmVars(SendWebhook)
  /\ \A w \in Webhooks : WF_llmVars(Receive(w) \/ Deliver(w))

LlmFairSpec == LlmSpec /\ LlmFairness

-----------------------------------------------------------------------------
\* The two paths of an outcome agree: whatever is read from a detail, delivered late or
\* delivered twice is what the session holds already, so that no commit meets a conflict
\* (gateway.ts, shared normalization of callbacks and terminal replay).
LlmOutcomesAgree ==
  /\ ~blocked
  /\ admitted # None =>
       /\ \A w \in Webhooks : webhooks[w].stage = "admitting" => webhooks[w].outcome = admitted
       /\ \A a \in Attempts : attempts[a].stage = "replied" /\ attempts[a].answer.status = "completed"
                                => attempts[a].answer.outcome = admitted

\* The gateway stops only when the session holds the outcome of the job it reports
\* (service.ts: no acknowledgement before durable admission).
ConfirmedIsAdmitted == confirmed => admitted = TerminalOutcome(job.status, job.size)

\* The two paths of an outcome agree, and neither reports an arrival too early.
LlmOutcomesHold == LlmOutcomesAgree /\ ConfirmedIsAdmitted

\* The operation gets its receipt and its outcome, through losses, the rotation of the
\* webhook's secret and late answers (fewer of them than the gateway has deliveries),
\* unless its event does not fit in a webhook.
LlmSettled == (receipt # None /\ admitted # None) \/ job.size > TransportLimit

LlmSettles == <>[]LlmSettled
=============================================================================
