--------------------------- MODULE ModelTurnProofs ---------------------------
(***************************************************************************)
(* Proofs about the turns of a model: the outcome of one model call, which *)
(* reaches the session along two paths, and the minimal-bash harness that  *)
(* makes the calls.  The paths agree at every size; every call of the      *)
(* transcript has its true result, a run waits for one operation and for   *)
(* no other, every message is held once, and a client that pages is shown  *)
(* all of them.                                                            *)
(***************************************************************************)
EXTENDS LlmWorker, MinimalBashHarness, SequenceTheorems, NaturalsInduction, WellFoundedInduction, TLAPS

-----------------------------------------------------------------------------
(* The outcome of a model call.                                            *)
(*                                                                         *)
(* A job that has ended does not change, and both paths make the same      *)
(* outcome of it: the detail counts as too large only when its response    *)
(* alone is over the limit of an outcome, because a request and an outcome *)
(* within their limits fit the transport together.  A call has a job or is *)
(* rejected, never both, so that what is queued is always one and the same *)
(* outcome.                                                                *)

Outcomes ==
  [status : {"succeeded", "failed", "cancelled"},
   content : {"none", "error", "response", "submission", "LLM_RESULT_TOO_LARGE"}]

Answers ==
  [status : {"accepted", "rejected"}] \cup [status : {"completed"}, outcome : Outcomes]

AttemptRecords ==
  [stage : {"free", "call", "detail", "replied"}, answer : Answers \cup {None}]

WebhookRecords ==
  [stage : {"none", "sent", "admitting", "late", "refused"}, key : Nat,
   outcome : Outcomes \cup {None}]

LlmTypes ==
  /\ request \in [size : Nat, valid : {"yes", "worker", "gateway"}]
  /\ request.size <= InputLimit
  /\ attempts \in [Attempts -> AttemptRecords]
  /\ admitted \in Outcomes \cup {None}
  /\ job \in [status : {"none", "queued"} \cup terminal, size : Nat]
  /\ webhooks \in [Webhooks -> WebhookRecords]
  /\ signer \in Nat

\* The outcome of a job that has ended.
Final(j) == TerminalOutcome(j.status, j.size)

\* Only a valid request has a job, and only a response has a size.
JobFits ==
  /\ job.status # "none" => request.valid = "yes"
  /\ job.status # "succeeded" => job.size = 0

\* An attempt that reads or has read a detail has the outcome of the job, and a rejected
\* one has no job.
AttemptFits(t, j, r) ==
  /\ t.stage = "detail" => j.status \in terminal
  /\ t.stage = "replied" =>
       /\ t.answer \in Answers
       /\ t.answer.status = "completed" => j.status \in terminal /\ t.answer.outcome = Final(j)
       /\ t.answer.status = "rejected" => r.valid # "yes"

AttemptsFit == \A a \in Attempts : AttemptFits(attempts[a], job, request)

\* A webhook reports a job that has ended, and carries its outcome once it is parsed.
WebhookFits(t, j) ==
  /\ t.stage \in {"sent", "admitting", "late"} => j.status \in terminal
  /\ t.stage \in {"admitting", "late"} => t.outcome = Final(j)

WebhooksFit == \A w \in Webhooks : WebhookFits(webhooks[w], job)

\* The session holds the rejection of a request that is not valid, or the job's outcome.
AdmittedFits ==
  /\ ~blocked
  /\ admitted # None =>
       \/ request.valid # "yes" /\ admitted = Rejection
       \/ job.status \in terminal /\ admitted = Final(job)
  /\ confirmed => job.status \in terminal /\ admitted = Final(job)

LlmInv == LlmTypes /\ JobFits /\ AttemptsFit /\ WebhooksFit /\ AdmittedFits

-----------------------------------------------------------------------------
(* The outcome of a job *)

\* terminalOutcome yields an outcome.
LEMMA FinalIsOutcome ==
  ASSUME LlmTypes, NEW end \in terminal, NEW size \in Nat
  PROVE  TerminalOutcome(end, size) \in Outcomes
BY DEF TerminalOutcome, terminal, TooLarge, Outcomes

\* The shared normalization: what is read from the detail of a job is what its webhook
\* carries, also where the detail is over the limit of the transport.
LEMMA PathsAgree ==
  ASSUME LlmAssumption, LlmTypes, JobFits, job.status \in terminal
  PROVE  DetailOutcome = Final(job)
<1>0. /\ InputLimit \in Nat /\ OutcomeLimit \in Nat /\ TransportLimit \in Nat
      /\ InputLimit + OutcomeLimit <= TransportLimit
  BY DEF LlmAssumption
<1>1. request.size \in Nat /\ request.size <= InputLimit /\ job.size \in Nat
  BY DEF LlmTypes
<1>2. CASE request.size + job.size > TransportLimit
  <2>1. job.size > OutcomeLimit
    BY <1>0, <1>1, <1>2
  <2>2. job.status = "succeeded"
    BY <1>0, <2>1 DEF JobFits
  <2>3. Final(job) = TooLarge
    BY <2>1, <2>2 DEF Final, TerminalOutcome
  <2> QED BY <1>2, <2>3 DEF DetailOutcome
<1>3. CASE ~(request.size + job.size > TransportLimit)
  BY <1>3 DEF DetailOutcome, Final
<1> QED BY <1>2, <1>3

\* What submit returns is one of the answers the driver knows.
LEMMA AnswerFields ==
  /\ Accepted \in Answers /\ Accepted.status = "accepted"
  /\ Rejected \in Answers /\ Rejected.status = "rejected"
  /\ \A outcome \in Outcomes :
       /\ Completed(outcome) \in Answers
       /\ Completed(outcome).status = "completed" /\ Completed(outcome).outcome = outcome
BY DEF Accepted, Rejected, Completed, Answers

-----------------------------------------------------------------------------
(* What a step has to show, by the state it touches *)

\* A job that has ended stays as it is: the attempts and the webhooks that a step leaves
\* alone still fit.
LEMMA OthersFit ==
  ASSUME UNCHANGED request, job' = job \/ job.status \notin terminal
  PROVE  /\ \A t : AttemptFits(t, job, request) => AttemptFits(t, job', request)
         /\ \A t : WebhookFits(t, job) => WebhookFits(t, job')
BY DEF AttemptFits, WebhookFits

\* A step of one attempt, which may create the job.
LEMMA AttemptOnly ==
  ASSUME LlmInv, NEW a \in Attempts, NEW t \in AttemptRecords,
         attempts' = [attempts EXCEPT ![a] = t], AttemptFits(t, job', request),
         job' = job \/ (job.status = "none" /\ job' = [job EXCEPT !.status = "queued"]
                        /\ request.valid = "yes"),
         UNCHANGED <<request, admitted, blocked, webhooks, confirmed, signer>>
  PROVE  LlmInv'
<1>0. LlmTypes /\ JobFits /\ AttemptsFit /\ WebhooksFit /\ AdmittedFits
  BY DEF LlmInv
<1>1. /\ attempts' \in [Attempts -> AttemptRecords] /\ attempts'[a] = t
      /\ \A b \in Attempts : b # a => attempts'[b] = attempts[b]
  BY <1>0 DEF LlmTypes
<1>2. /\ job' \in [status : {"none", "queued"} \cup terminal, size : Nat]
      /\ job' = job \/ job.status \notin terminal
      /\ JobFits'
  BY <1>0 DEF LlmTypes, JobFits, terminal
<1>3. LlmTypes'
  BY <1>0, <1>1, <1>2 DEF LlmTypes
<1>4. AttemptsFit'
  BY <1>0, <1>1, <1>2, OthersFit DEF AttemptsFit
<1>5. WebhooksFit'
  BY <1>0, <1>2, OthersFit DEF WebhooksFit
<1>6. AdmittedFits'
  BY <1>0, <1>2 DEF AdmittedFits
<1> QED BY <1>2, <1>3, <1>4, <1>5, <1>6 DEF LlmInv

\* A step of one webhook, which may take its outcome to the session.
LEMMA WebhookOnly ==
  ASSUME LlmInv, NEW w \in Webhooks, NEW t \in WebhookRecords,
         webhooks' = [webhooks EXCEPT ![w] = t], WebhookFits(t, job),
         \/ UNCHANGED <<admitted, confirmed>>
         \/ /\ job.status \in terminal /\ admitted \in {None, Final(job)}
            /\ admitted' = Final(job),
         UNCHANGED <<request, attempts, job, blocked, signer>>
  PROVE  LlmInv'
<1>0. LlmTypes /\ JobFits /\ AttemptsFit /\ WebhooksFit /\ AdmittedFits
  BY DEF LlmInv
<1>1. /\ webhooks' \in [Webhooks -> WebhookRecords] /\ webhooks'[w] = t
      /\ \A v \in Webhooks : v # w => webhooks'[v] = webhooks[v]
  BY <1>0 DEF LlmTypes
<1>2. admitted' \in Outcomes \cup {None}
  <2>1. job.status \in terminal => Final(job) \in Outcomes
    BY <1>0, FinalIsOutcome DEF LlmTypes, Final
  <2> QED BY <1>0, <2>1 DEF LlmTypes
<1>3. LlmTypes' /\ JobFits' /\ AttemptsFit' /\ WebhooksFit'
  BY <1>0, <1>1, <1>2 DEF LlmTypes, JobFits, AttemptsFit, WebhooksFit
<1>4. AdmittedFits'
  BY <1>0 DEF AdmittedFits
<1> QED BY <1>3, <1>4 DEF LlmInv

-----------------------------------------------------------------------------
(* The steps *)

\* A slot without an attempt fits every job and request.
LEMMA FreeAttempt ==
  NoAttempt \in AttemptRecords /\ AttemptFits(NoAttempt, job, request)
BY DEF NoAttempt, AttemptRecords, AttemptFits

\* The driver's attempts, the worker's submit and its reading of the detail.
LEMMA SubmitStep ==
  ASSUME LlmAssumption, LlmInv, NEW a \in Attempts, Attempt(a) \/ Submit(a) \/ Detail(a) \/ Lose(a)
  PROVE  LlmInv'
<1>0. /\ LlmTypes /\ JobFits /\ attempts \in [Attempts -> AttemptRecords]
      /\ attempts[a] \in AttemptRecords /\ AttemptFits(attempts[a], job, request)
      /\ job \in [status : {"none", "queued"} \cup terminal, size : Nat]
      /\ UNCHANGED <<request, admitted, blocked, webhooks, confirmed, signer>>
  BY DEF LlmInv, LlmTypes, AttemptsFit, Attempt, Submit, Detail, Lose
<1>1. ASSUME NEW stage \in {"call", "detail"}, attempts' = [attempts EXCEPT ![a].stage = stage],
             stage = "detail" => job.status \in terminal, UNCHANGED job
      PROVE  LlmInv'
  <2> DEFINE t == [attempts[a] EXCEPT !.stage = stage]
  <2>1. /\ attempts' = [attempts EXCEPT ![a] = t] /\ t \in AttemptRecords /\ t.stage = stage
    BY <1>0, <1>1 DEF AttemptRecords
  <2> HIDE DEF t
  <2>2. AttemptFits(t, job', request)
    BY <1>1, <2>1 DEF AttemptFits
  <2> QED BY <1>0, <1>1, <2>1, <2>2, AttemptOnly
<1>2. ASSUME NEW x \in Answers, ReplyWith(a, x),
             x.status = "completed" => job'.status \in terminal /\ x.outcome = Final(job'),
             x.status = "rejected" => request.valid # "yes",
             job' = job \/ (job.status = "none" /\ job' = [job EXCEPT !.status = "queued"]
                            /\ request.valid = "yes")
      PROVE  LlmInv'
  <2> DEFINE t == [stage |-> "replied", answer |-> x]
  <2>1. /\ attempts' = [attempts EXCEPT ![a] = t] /\ t \in AttemptRecords
        /\ t.stage = "replied" /\ t.answer = x
    BY <1>2 DEF ReplyWith, AttemptRecords
  <2> HIDE DEF t
  <2>2. AttemptFits(t, job', request)
    BY <1>2, <2>1 DEF AttemptFits
  <2> QED BY <1>0, <1>2, <2>1, <2>2, AttemptOnly
<1>3. CASE Attempt(a)
  BY <1>1, <1>3 DEF Attempt
<1>4. CASE Submit(a)
  <2>1. CASE request.valid # "yes"
    BY <1>2, <1>4, <2>1, AnswerFields DEF Submit
  <2>2. CASE request.valid = "yes" /\ job.status \in terminal
    <3>1. job.status # "none"
      BY <2>2 DEF terminal
    <3> QED BY <1>1, <1>4, <2>2, <3>1 DEF Submit
  <2>3. CASE request.valid = "yes" /\ job.status \notin terminal
    <3>1. /\ ReplyWith(a, Accepted)
          /\ job' = IF job.status = "none" THEN [job EXCEPT !.status = "queued"] ELSE job
      BY <1>4, <2>3 DEF Submit
    <3> QED BY <1>2, <2>3, <3>1, AnswerFields
  <2> QED BY <2>1, <2>2, <2>3
<1>5. CASE Detail(a)
  <2>1. job.status \in terminal /\ job' = job /\ ReplyWith(a, Completed(DetailOutcome))
    BY <1>0, <1>5 DEF Detail, AttemptFits
  <2>2. DetailOutcome = Final(job)
    BY <1>0, <2>1, PathsAgree
  <2>3. Final(job) \in Outcomes
    BY <1>0, <2>1, FinalIsOutcome DEF LlmTypes, Final
  <2> QED BY <1>2, <2>1, <2>2, <2>3, AnswerFields
<1>6. CASE Lose(a)
  BY <1>0, <1>6, FreeAttempt, AttemptOnly DEF Lose
<1> QED BY <1>3, <1>4, <1>5, <1>6

\* The driver's commit never meets another outcome.
LEMMA CommitStep ==
  ASSUME LlmInv, NEW a \in Attempts, Commit(a)
  PROVE  LlmInv'
<1> DEFINE x == attempts[a].answer
<1>0. /\ LlmTypes /\ JobFits /\ AttemptsFit /\ WebhooksFit /\ AdmittedFits
      /\ AttemptFits(attempts[a], job, request) /\ attempts[a].stage = "replied"
      /\ attempts' = [attempts EXCEPT ![a] = NoAttempt]
      /\ UNCHANGED <<request, job, webhooks, confirmed, signer>>
  BY DEF LlmInv, AttemptsFit, Commit
<1>1. /\ x \in Answers
      /\ x.status = "completed" => job.status \in terminal /\ x.outcome = Final(job)
      /\ x.status = "rejected" => request.valid # "yes"
  BY <1>0 DEF AttemptFits
<1>2. CASE UNCHANGED <<admitted, blocked>>
  BY <1>0, <1>2, FreeAttempt, AttemptOnly
<1>3. ASSUME NEW outcome \in Outcomes, Queue(outcome),
             \/ request.valid # "yes" /\ outcome = Rejection
             \/ job.status \in terminal /\ outcome = Final(job)
      PROVE  LlmInv'
  <2>1. job.status \in terminal => request.valid = "yes"
    BY <1>0 DEF JobFits, terminal
  <2>2. admitted \in {None, outcome}
    BY <1>0, <1>3, <2>1 DEF AdmittedFits
  <2>3. admitted' = outcome /\ blocked' = blocked
    BY <1>3, <2>2 DEF Queue
  <2>4. AdmittedFits'
    BY <1>0, <1>3, <2>1, <2>2, <2>3 DEF AdmittedFits
  <2>5. /\ attempts' \in [Attempts -> AttemptRecords]
        /\ \A b \in Attempts : attempts'[b] \in {attempts[b], NoAttempt}
    BY <1>0, FreeAttempt DEF LlmTypes
  <2>6. LlmTypes' /\ JobFits' /\ WebhooksFit'
    BY <1>0, <1>3, <2>3, <2>5 DEF LlmTypes, JobFits, WebhooksFit
  <2>7. AttemptsFit'
    BY <1>0, <2>5, FreeAttempt DEF AttemptsFit
  <2> QED BY <2>4, <2>6, <2>7 DEF LlmInv
<1>4. CASE current # a
  BY <1>2, <1>4 DEF Commit
<1>5. CASE current = a
  <2>1. CASE x.status = "accepted"
    BY <1>2, <1>5, <2>1 DEF Commit
  <2>2. CASE x.status = "completed"
    <3>1. Queue(x.outcome)
      BY <1>5, <2>2 DEF Commit
    <3>2. x.outcome \in Outcomes
      BY <1>1, <2>2 DEF Answers
    <3> QED BY <1>1, <1>3, <2>2, <3>1, <3>2
  <2>3. CASE x.status = "rejected"
    <3>1. Queue(Rejection)
      BY <1>5, <2>3 DEF Commit
    <3>2. Rejection \in Outcomes
      BY DEF Rejection, Outcomes
    <3> QED BY <1>1, <1>3, <2>3, <3>1, <3>2
  <2> QED BY <1>1, <2>1, <2>2, <2>3 DEF Answers
<1> QED BY <1>4, <1>5

\* receive, deliver and the loss of a webhook: each carries the outcome of the job.
LEMMA WebhookStep ==
  ASSUME LlmInv, NEW w \in Webhooks, Receive(w) \/ Deliver(w) \/ LoseWebhook(w)
  PROVE  LlmInv'
<1>0. /\ LlmTypes /\ webhooks \in [Webhooks -> WebhookRecords]
      /\ webhooks[w] \in WebhookRecords /\ WebhookFits(webhooks[w], job)
      /\ job \in [status : {"none", "queued"} \cup terminal, size : Nat]
      /\ UNCHANGED <<request, attempts, job, blocked, signer>>
  BY DEF LlmInv, LlmTypes, WebhooksFit, Receive, Deliver, LoseWebhook
<1>1. job.status \in terminal => Final(job) \in Outcomes
  BY <1>0, FinalIsOutcome DEF Final
<1>2. job.status \in terminal
  BY <1>0 DEF Receive, Deliver, LoseWebhook, WebhookFits
<1>3. ASSUME NEW stage \in {"refused", "late"}, stage = "late" => webhooks[w].stage = "admitting",
             webhooks' = [webhooks EXCEPT ![w].stage = stage],
             \/ UNCHANGED <<admitted, confirmed>>
             \/ admitted \in {None, Final(job)} /\ admitted' = Final(job)
      PROVE  LlmInv'
  <2> DEFINE t == [webhooks[w] EXCEPT !.stage = stage]
  <2>1. /\ webhooks' = [webhooks EXCEPT ![w] = t] /\ t \in WebhookRecords
        /\ t.stage = stage /\ t.outcome = webhooks[w].outcome
    BY <1>0, <1>3 DEF WebhookRecords
  <2> HIDE DEF t
  <2>2. WebhookFits(t, job)
    BY <1>0, <1>3, <2>1 DEF WebhookFits
  <2> QED BY <1>0, <1>2, <1>3, <2>1, <2>2, WebhookOnly
<1>4. CASE Receive(w)
  <2> DEFINE t == [webhooks[w] EXCEPT !.stage = "admitting", !.outcome = Final(job)]
             r == [webhooks[w] EXCEPT !.stage = "refused"]
  <2>1. webhooks' = [webhooks EXCEPT ![w] = t] \/ webhooks' = [webhooks EXCEPT ![w] = r]
    BY <1>0, <1>4 DEF Receive, Final
  <2>2. /\ t \in WebhookRecords /\ t.stage = "admitting" /\ t.outcome = Final(job)
        /\ r \in WebhookRecords /\ r.stage = "refused"
    BY <1>0, <1>1, <1>2 DEF WebhookRecords
  <2>3. UNCHANGED <<admitted, confirmed>>
    BY <1>4 DEF Receive
  <2> HIDE DEF t, r
  <2>4. WebhookFits(t, job) /\ WebhookFits(r, job)
    BY <1>2, <2>2 DEF WebhookFits
  <2> QED BY <1>0, <2>1, <2>2, <2>3, <2>4, WebhookOnly
<1>5. CASE Deliver(w)
  <2>1. webhooks[w].outcome = Final(job)
    BY <1>0, <1>5 DEF Deliver, WebhookFits
  <2>2. \/ UNCHANGED <<admitted, confirmed>>
        \/ admitted \in {None, Final(job)} /\ admitted' = Final(job)
    BY <1>5, <2>1 DEF Deliver, Admits
  <2> QED BY <1>3, <1>5, <2>2 DEF Deliver
<1>6. CASE LoseWebhook(w)
  <2> DEFINE stage == IF webhooks[w].stage = "sent" THEN "refused" ELSE "late"
  <2>1. /\ webhooks' = [webhooks EXCEPT ![w].stage = stage] /\ UNCHANGED <<admitted, confirmed>>
        /\ webhooks[w].stage \in {"sent", "admitting"}
    BY <1>6 DEF LoseWebhook
  <2>2. stage \in {"refused", "late"} /\ (stage = "late" => webhooks[w].stage = "admitting")
    BY <2>1
  <2> HIDE DEF stage
  <2> QED BY <1>3, <2>1, <2>2
<1> QED BY <1>4, <1>5, <1>6

\* The end of the job, the gateway's deliveries, the rotation of the secret and the
\* deadline of the driver.
LEMMA GatewayStep ==
  ASSUME LlmAssumption, LlmInv, EndJob \/ SendWebhook \/ Rotate \/ GiveUp
  PROVE  LlmInv'
<1>0. /\ LlmTypes /\ JobFits /\ AttemptsFit /\ WebhooksFit /\ AdmittedFits
      /\ UNCHANGED <<request, attempts, admitted, blocked, confirmed>>
  BY DEF LlmInv, EndJob, SendWebhook, Rotate, GiveUp
<1>1. CASE EndJob
  <2>1. /\ job.status = "queued" /\ UNCHANGED <<webhooks, signer>>
        /\ job' \in [status : terminal, size : Nat]
        /\ job'.status # "succeeded" => job'.size = 0
    <3>1. PICK end \in terminal, size \in PayloadSizes :
            /\ end # "succeeded" => size = 0
            /\ job' = [status |-> end, size |-> size]
      BY <1>1 DEF EndJob
    <3>2. size \in Nat
      BY DEF LlmAssumption
    <3>3. job' \in [status : terminal, size : Nat] /\ job'.status = end /\ job'.size = size
      BY <3>1, <3>2
    <3> QED BY <1>1, <3>1, <3>3 DEF EndJob
  <2>2. job.status \notin terminal
    BY <2>1 DEF terminal
  <2>3. LlmTypes' /\ JobFits'
    BY <1>0, <2>1 DEF LlmTypes, JobFits
  <2>4. AttemptsFit' /\ WebhooksFit'
    BY <1>0, <2>1, <2>2, OthersFit DEF AttemptsFit, WebhooksFit
  <2>5. AdmittedFits'
    BY <1>0, <2>1, <2>2 DEF AdmittedFits
  <2> QED BY <2>3, <2>4, <2>5 DEF LlmInv
<1>2. CASE SendWebhook
  <2> DEFINE t == [stage |-> "sent", key |-> signer, outcome |-> None]
  <2>1. /\ webhooks' = [webhooks EXCEPT ![sent + 1] = t] /\ UNCHANGED <<job, signer>>
        /\ job.status \in terminal
    BY <1>2 DEF SendWebhook
  <2>2. t \in WebhookRecords /\ t.stage = "sent"
    BY <1>0 DEF WebhookRecords, LlmTypes
  <2> HIDE DEF t
  <2>3. /\ webhooks' \in [Webhooks -> WebhookRecords]
        /\ \A w \in Webhooks : webhooks'[w] \in {webhooks[w], t}
    BY <1>0, <2>1, <2>2 DEF LlmTypes
  <2>4. WebhookFits(t, job)
    BY <2>1, <2>2 DEF WebhookFits
  <2>5. WebhooksFit'
    BY <1>0, <2>1, <2>3, <2>4 DEF WebhooksFit
  <2>6. LlmTypes' /\ JobFits' /\ AttemptsFit' /\ AdmittedFits'
    BY <1>0, <2>1, <2>3 DEF LlmTypes, JobFits, AttemptsFit, AdmittedFits
  <2> QED BY <2>5, <2>6 DEF LlmInv
<1>3. CASE Rotate \/ GiveUp
  <2>1. UNCHANGED <<job, webhooks>> /\ signer' \in Nat
    BY <1>0, <1>3 DEF Rotate, GiveUp, LlmTypes
  <2> QED BY <1>0, <2>1 DEF LlmInv, LlmTypes, JobFits, AttemptsFit, WebhooksFit, AdmittedFits
<1> QED BY <1>1, <1>2, <1>3

-----------------------------------------------------------------------------
(* The theorem *)

\* Nothing has been submitted, sent or admitted at first.
LEMMA LlmInvInit ==
  ASSUME LlmAssumption, LlmInit
  PROVE  LlmInv
<1>1. request \in [size : Nat, valid : {"yes", "worker", "gateway"}] /\ request.size <= InputLimit
  BY DEF LlmInit, LlmAssumption
<1>2. attempts \in [Attempts -> AttemptRecords] /\ AttemptsFit
  BY FreeAttempt DEF LlmInit, AttemptsFit
<1>3. NoWebhook \in WebhookRecords /\ NoWebhook.stage = "none"
  BY DEF NoWebhook, WebhookRecords
<1>4. webhooks \in [Webhooks -> WebhookRecords] /\ WebhooksFit
  BY <1>3 DEF LlmInit, WebhooksFit, WebhookFits
<1> QED BY <1>1, <1>2, <1>4 DEF LlmInit, LlmInv, LlmTypes, JobFits, AdmittedFits

\* Every step of the worker, the webhook, the gateway and the session keeps the invariant.
LEMMA LlmInvStep ==
  ASSUME LlmAssumption, LlmInv, [LlmNext]_llmVars
  PROVE  LlmInv'
<1>1. CASE UNCHANGED llmVars
  BY <1>1 DEF llmVars, LlmInv, LlmTypes, JobFits, AttemptsFit, WebhooksFit, AdmittedFits
<1> QED BY <1>1, SubmitStep, CommitStep, WebhookStep, GatewayStep DEF LlmNext

\* Whatever is read from a job's detail, delivered late or delivered twice is what the
\* session holds already, no commit meets a conflict, and the gateway is told that an
\* event has arrived only when the session holds its outcome, at every size within the
\* limits (gateway.ts, service.ts and webhook.ts of the LLM worker).
THEOREM LlmOutcomesAlwaysHold ==
  ASSUME LlmAssumption PROVE LlmSpec => []LlmOutcomesHold
<1>1. LlmInit => LlmInv
  BY LlmInvInit
<1>2. LlmInv /\ [LlmNext]_llmVars => LlmInv'
  BY LlmInvStep
<1>3. LlmInv => LlmOutcomesHold
  <2> SUFFICES ASSUME LlmInv PROVE LlmOutcomesHold
    OBVIOUS
  <2>0. JobFits /\ AttemptsFit /\ WebhooksFit /\ AdmittedFits
    BY DEF LlmInv
  <2>1. job.status \in terminal => request.valid = "yes"
    BY <2>0 DEF JobFits, terminal
  <2>2. LlmOutcomesAgree
    BY <2>0, <2>1 DEF LlmOutcomesAgree, AttemptsFit, AttemptFits, WebhooksFit, WebhookFits, AdmittedFits
  <2>3. ConfirmedIsAdmitted
    BY <2>0 DEF ConfirmedIsAdmitted, AdmittedFits, Final
  <2> QED BY <2>2, <2>3 DEF LlmOutcomesHold
<1> QED BY <1>1, <1>2, <1>3, PTL DEF LlmSpec


-----------------------------------------------------------------------------
(* The turns of the harness: the invariant.  It is stated of the values    *)
(* that a context holds, and each operator on contexts has a lemma.        *)

Operations == Nat \X Nat

HarnessStates ==
  [phase : {"idle", "llm", "bash", "cancelled", "failed"}, run_id : Nat,
   active_operation_id : Operations, active_assistant_sequence : Nat, next_tool_index : Nat,
   cancel_requested : BOOLEAN, failed : BOOLEAN]

MessageRows ==
  [role : {"user"}, event : Nat, size : Nat, in_context : {TRUE}]
    \cup [role : {"assistant"}, calls : Seq(BOOLEAN), size : Nat, in_context : BOOLEAN]
    \cup [role : {"tool_result"}, index : Nat, result : {"ran", "unknown", "not_executed"},
          size : Nat, in_context : {TRUE}]

WaitingRows == [event : Nat, size : Nat]

HostStatuses == {"idle", "running", "cancelling", "cancelled", "failed"}

Contexts ==
  [s : HarnessStates, messages : Seq(MessageRows), pending : Seq(WaitingRows),
   operations : SUBSET Operations, status : HostStatuses, sequence : Nat]

\* Operations that were launched are for calls of stored responses, no two for the same
\* call, and those of one response follow each other.
LaunchesFit(L, m, out) ==
  /\ L \in [DOMAIN L -> Operations]
  /\ \A op \in DOMAIN L : op[2] # 0 /\ L[op][1] \in DOMAIN m /\ L[op][2] = op[2]
  /\ \A p, q \in DOMAIN L : L[p] = L[q] => p = q
  /\ \A p, q \in DOMAIN L :
       L[p][1] = L[q][1] /\ L[p][2] < L[q][2] => p[1] < q[1] /\ p \notin out

\* What is known of operations was planned by an earlier input.
Past(out, ab, L, seq) ==
  \A op \in out \cup ab \cup DOMAIN L : op \in Operations /\ op[1] <= seq

\* A result says that a call was not executed exactly if no operation ran it.
Told(m, L) ==
  \A i \in DOMAIN m : m[i].role = "tool_result" =>
    (m[i].result = "not_executed")
      <=> \A op \in DOMAIN L : L[op] # <<i - m[i].index, m[i].index>>

\* The calls of the response at a that have their results in the log.
Replied(m, a) ==
  {k \in DOMAIN m[a].calls :
     a + k \in DOMAIN m /\ m[a + k].role = "tool_result" /\ m[a + k].index = k}

\* The responses whose turn was ended while an operation was out.
Dropped(L, ab) == {L[op][1] : op \in ab \cap DOMAIN L}

\* Every response has its results, but for the one at a, whose calls are being served,
\* and every result has its response.
Paired(m, a, L, ab) ==
  /\ \A i \in DOMAIN m : m[i].role = "assistant" /\ i # a =>
       \E n \in 0 .. Len(m[i].calls) :
         Replied(m, i) = 1 .. n /\ (n = Len(m[i].calls) \/ i \in Dropped(L, ab))
  /\ \A i \in DOMAIN m : m[i].role = "tool_result" =>
       /\ i - m[i].index \in DOMAIN m /\ m[i - m[i].index].role = "assistant"
       /\ m[i].index \in DOMAIN m[i - m[i].index].calls

\* A response is the last but for the results of its first n calls.
Served(m, a, n) ==
  /\ a \in DOMAIN m /\ m[a].role = "assistant" /\ n \in 0 .. Len(m[a].calls) /\ Len(m) = a + n
  /\ \A k \in 1 .. n : m[a + k].role = "tool_result" /\ m[a + k].index = k

\* What the phase says of the response at work and of the operations that are out.
PhaseFits(st, m, out, L, ab) ==
  LET a  == st.active_assistant_sequence
      n  == st.next_tool_index
      op == st.active_operation_id
  IN  /\ st.phase = "bash" =>
           /\ Served(m, a, n) /\ op \in DOMAIN L /\ L[op] = <<a, n + 1>> /\ n < Len(m[a].calls)
           /\ \A o \in DOMAIN L : L[o][1] = a => o = op \/ (o[2] <= n /\ o \notin out)
      /\ st.phase # "bash" => a = 0
      /\ st.phase = "llm" => op[2] = 0
      /\ st.phase \in {"llm", "bash"} <=> op # NoOperation
      /\ out \ ab = {op} \ {NoOperation}
      /\ NoOperation \notin out
      /\ a \notin Dropped(L, ab)

StatusFits(st, stat) ==
  stat = IF st.phase \in {"llm", "bash"}
         THEN IF st.cancel_requested THEN "cancelling" ELSE "running"
         ELSE st.phase

Users(m) == {i \in DOMAIN m : m[i].role = "user"}

\* Every user message is kept, those that wait in order, and none is later than the
\* last input.
Steered(m, p, rec, seq) ==
  /\ {m[i].event : i \in Users(m)} \cup {p[j].event : j \in DOMAIN p} = rec
  /\ \A i, j \in DOMAIN p : i < j => p[i].event < p[j].event
  /\ rec \subseteq 1 .. seq

\* Messages stand in the order of their admission, and so once.
Ordered(m, p) ==
  /\ \A i, j \in Users(m) : i < j => m[i].event < m[j].event
  /\ \A i \in Users(m), j \in DOMAIN p : m[i].event < p[j].event

\* A message waits that may not enter.
Large(p) == \E i \in DOMAIN p : ~MayEnter(p[i].size)

Holds(st, m, p, stat, seq, out, rec, L, ab) ==
  /\ st \in HarnessStates /\ m \in Seq(MessageRows) /\ p \in Seq(WaitingRows)
  /\ stat \in HostStatuses /\ seq \in Nat
  /\ LaunchesFit(L, m, out) /\ Past(out, ab, L, seq)
  /\ Told(m, L)
  /\ Paired(m, st.active_assistant_sequence, L, ab)
  /\ PhaseFits(st, m, out, L, ab)
  /\ StatusFits(st, stat)
  /\ Steered(m, p, rec, seq)
  /\ ~(st.phase = "failed" /\ Large(p)) => Ordered(m, p)
  /\ st.phase = "idle" => p = <<>>

TurnInv == Holds(s, messages, pending, status, sequence, open, received, launched, abandoned)

\* What the client has not been shown is ahead of its cursor, or will be: a message that
\* waited behind the cursor has been shown or is in the transcript.
ReaderInv ==
  /\ reader \in [scan : {"none", "pending", "messages", "done"}, after : Nat, missing : SUBSET Nat]
  /\ reader.scan = "pending" =>
       /\ reader.missing \subseteq received
       /\ \A e \in reader.missing : e <= reader.after => \E i \in Users(messages) : messages[i].event = e
  /\ reader.scan = "messages" =>
       \A e \in reader.missing : \E i \in Users(messages) : i > reader.after /\ messages[i].event = e
  /\ reader.scan = "none" => reader.after = 0
  /\ reader.scan = "done" => reader.missing = {}

MinimalInv == TurnInv /\ ReaderInv

-----------------------------------------------------------------------------
(* Logs *)

\* Two sequences one after the other, by their indices.
LEMMA Joined ==
  ASSUME NEW S, NEW m \in Seq(S), NEW rest \in Seq(S)
  PROVE  /\ m \o rest \in Seq(S)
         /\ Len(m) \in Nat /\ Len(rest) \in Nat /\ Len(m \o rest) = Len(m) + Len(rest)
         /\ DOMAIN m = 1 .. Len(m) /\ DOMAIN rest = 1 .. Len(rest)
         /\ DOMAIN (m \o rest) = 1 .. Len(m) + Len(rest)
         /\ \A i \in DOMAIN m : i \in DOMAIN (m \o rest) /\ (m \o rest)[i] = m[i]
         /\ \A j \in DOMAIN rest : /\ Len(m) + j \in DOMAIN (m \o rest)
                                   /\ (m \o rest)[Len(m) + j] = rest[j]
         /\ \A i \in DOMAIN (m \o rest) :
              i \in DOMAIN m \/ \E j \in DOMAIN rest : i = Len(m) + j
<1> DEFINE both == m \o rest
<1>1. /\ both \in Seq(S) /\ Len(both) = Len(m) + Len(rest)
      /\ \A i \in 1 .. Len(m) + Len(rest) : both[i] = IF i <= Len(m) THEN m[i]
                                                                    ELSE rest[i - Len(m)]
  BY ConcatProperties
<1>2. /\ Len(m) \in Nat /\ DOMAIN m = 1 .. Len(m)
      /\ Len(rest) \in Nat /\ DOMAIN rest = 1 .. Len(rest)
      /\ DOMAIN both = 1 .. Len(m) + Len(rest)
  BY <1>1, LenProperties
<1> HIDE DEF both
<1>3. \A i \in DOMAIN m : i \in DOMAIN both /\ both[i] = m[i]
  BY <1>1, <1>2
<1>4. \A j \in DOMAIN rest : Len(m) + j \in DOMAIN both /\ both[Len(m) + j] = rest[j]
  <2> SUFFICES ASSUME NEW j \in DOMAIN rest
               PROVE  Len(m) + j \in DOMAIN both /\ both[Len(m) + j] = rest[j]
    OBVIOUS
  <2>1. Len(m) + j \in 1 .. Len(m) + Len(rest) /\ ~(Len(m) + j <= Len(m)) /\ Len(m) + j - Len(m) = j
    BY <1>2
  <2> QED BY <1>1, <1>2, <2>1
<1>5. \A i \in DOMAIN both : i \in DOMAIN m \/ \E j \in DOMAIN rest : i = Len(m) + j
  <2> SUFFICES ASSUME NEW i \in DOMAIN both, i \notin DOMAIN m
               PROVE  \E j \in DOMAIN rest : i = Len(m) + j
    OBVIOUS
  <2>1. i - Len(m) \in DOMAIN rest /\ i = Len(m) + (i - Len(m))
    BY <1>2
  <2> QED BY <2>1
<1> QED
  BY <1>1, <1>2, <1>3, <1>4, <1>5 DEF both

\* A function on 1 .. n is a sequence of length n.
LEMMA FunctionIsSeq ==
  ASSUME NEW S, NEW n \in Nat, NEW f \in [1 .. n -> S]
  PROVE  f \in Seq(S) /\ Len(f) = n /\ DOMAIN f = 1 .. n
<1>1. f \in Seq(S)
  BY SeqDef
<1> QED
  BY <1>1, LenProperties

\* A set of naturals has a least element.
LEMMA LeastNatural ==
  ASSUME NEW T, T \subseteq Nat, T # {}
  PROVE  \E x \in T : \A y \in T : x <= y
<1> DEFINE R == OpToRel(<, Nat)
<1>1. IsWellFoundedOn(R, Nat)
  BY NatLessThanWellFounded
<1> HIDE DEF R
<1>2. PICK x \in T : \A y \in T : <<y, x>> \notin R
  BY <1>1, WFMin
<1>3. ASSUME NEW y \in T PROVE x <= y
  <2>1. x \in Nat /\ y \in Nat /\ <<y, x>> \notin R
    BY <1>2
  <2>2. ~(y < x)
    BY <2>1 DEF R, OpToRel
  <2> QED BY <2>1, <2>2
<1> QED
  BY <1>3

\* The log longer begins with the log m.
Longer(m, longer) == \A i \in DOMAIN m : i \in DOMAIN longer /\ longer[i] = m[i]

\* The rows of rest, appended to m, are results of calls of the response at a, and tell
\* whether the call was launched.
ResultsOf(rest, m, a, L) ==
  /\ a \in DOMAIN m /\ m[a].role = "assistant"
  /\ \A j \in DOMAIN rest :
       /\ rest[j].role = "tool_result" /\ Len(m) + j = a + rest[j].index
       /\ rest[j].index \in DOMAIN m[a].calls
       /\ (rest[j].result = "not_executed") <=> \A op \in DOMAIN L : L[op] # <<a, rest[j].index>>

\* The log both is the log m followed by the rows of rest.
Extended(m, rest, both) ==
  /\ both \in Seq(MessageRows) /\ Len(both) = Len(m) + Len(rest)
  /\ Len(m) \in Nat /\ DOMAIN m = 1 .. Len(m)
  /\ \A i \in DOMAIN m : i \in DOMAIN both /\ both[i] = m[i]
  /\ \A j \in DOMAIN rest : Len(m) + j \in DOMAIN both /\ both[Len(m) + j] = rest[j]
  /\ \A i \in DOMAIN both :
       i \in DOMAIN m \/ \E j \in DOMAIN rest : i = Len(m) + j /\ both[i] = rest[j]

\* Concatenation, index by index.
LEMMA ConcatExtends ==
  ASSUME NEW m \in Seq(MessageRows), NEW rest \in Seq(MessageRows)
  PROVE  Extended(m, rest, m \o rest)
BY Joined DEF Extended

\* Results of the response at a leave the results of other responses alone.
LEMMA ResultsJoined ==
  ASSUME NEW m \in Seq(MessageRows), NEW rest \in Seq(MessageRows), NEW both, Extended(m, rest, both),
         NEW a, NEW L, NEW ab, Paired(m, a, L, ab), Told(m, L), ResultsOf(rest, m, a, L)
  PROVE  Paired(both, a, L, ab) /\ Told(both, L)
<1>1. /\ \A i \in DOMAIN m : i \in DOMAIN both /\ both[i] = m[i]
      /\ \A j \in DOMAIN rest : Len(m) + j \in DOMAIN both /\ both[Len(m) + j] = rest[j]
      /\ \A i \in DOMAIN both :
           i \in DOMAIN m \/ \E j \in DOMAIN rest : i = Len(m) + j /\ both[i] = rest[j]
      /\ Len(m) \in Nat /\ DOMAIN m = 1 .. Len(m)
  BY DEF Extended
<1>2. \A j \in DOMAIN rest : j \in Nat
  BY LenProperties
<1>3. /\ a \in DOMAIN m /\ m[a].role = "assistant"
      /\ \A j \in DOMAIN rest : /\ rest[j].role = "tool_result" /\ rest[j].index \in DOMAIN m[a].calls
                               /\ Len(m) + j = a + rest[j].index
  BY DEF ResultsOf
<1>4. \A i \in DOMAIN m : m[i].role = "assistant" => DOMAIN m[i].calls \subseteq Nat
  <2> SUFFICES ASSUME NEW i \in DOMAIN m, m[i].role = "assistant" PROVE DOMAIN m[i].calls \subseteq Nat
    OBVIOUS
  <2>1. m[i] \in MessageRows
    BY ElementOfSeq, <1>1
  <2>2. m[i].calls \in Seq(BOOLEAN)
    BY <2>1 DEF MessageRows
  <2> QED BY <2>2, LenProperties
<1>5. ASSUME NEW i \in DOMAIN m, m[i].role = "assistant", i # a
      PROVE  Replied(both, i) = Replied(m, i)
  <2>1. both[i].calls = m[i].calls /\ DOMAIN m[i].calls \subseteq Nat
    BY <1>1, <1>4, <1>5
  <2>2. ASSUME NEW k \in DOMAIN m[i].calls, i + k \in DOMAIN both, i + k \notin DOMAIN m,
               both[i + k].index = k
        PROVE  FALSE
    <3>1. PICK j \in DOMAIN rest : i + k = Len(m) + j /\ both[i + k] = rest[j]
      BY <1>1, <2>2
    <3>2. i + k = a + k
      BY <1>3, <2>2, <3>1
    <3> QED BY <1>1, <1>3, <1>5, <2>1, <2>2, <3>2
  <2> QED BY <1>1, <2>1, <2>2 DEF Replied
<1>6. Paired(both, a, L, ab)
  <2>1. ASSUME NEW i \in DOMAIN both, both[i].role = "assistant", i # a
        PROVE  \E n \in 0 .. Len(both[i].calls) :
                 Replied(both, i) = 1 .. n /\ (n = Len(both[i].calls) \/ i \in Dropped(L, ab))
    <3>1. i \in DOMAIN m /\ both[i] = m[i]
      BY <1>1, <1>3, <2>1
    <3> QED BY <1>5, <2>1, <3>1 DEF Paired
  <2>2. ASSUME NEW i \in DOMAIN both, both[i].role = "tool_result"
        PROVE  /\ i - both[i].index \in DOMAIN both /\ both[i - both[i].index].role = "assistant"
               /\ both[i].index \in DOMAIN both[i - both[i].index].calls
    <3>1. CASE i \in DOMAIN m
      BY <1>1, <2>2, <3>1 DEF Paired
    <3>2. CASE i \notin DOMAIN m
      <4>1. PICK j \in DOMAIN rest : i = Len(m) + j /\ both[i] = rest[j]
        BY <1>1, <3>2
      <4>2. i = a + both[i].index /\ both[i].index \in DOMAIN m[a].calls
        BY <1>3, <4>1
      <4>3. i - both[i].index = a
        BY <1>1, <1>3, <1>4, <4>2
      <4> QED BY <1>1, <1>3, <4>2, <4>3
    <3> QED BY <3>1, <3>2
  <2> QED BY <2>1, <2>2 DEF Paired
<1>7. Told(both, L)
  <2> SUFFICES ASSUME NEW i \in DOMAIN both, both[i].role = "tool_result"
               PROVE  (both[i].result = "not_executed")
                        <=> \A op \in DOMAIN L : L[op] # <<i - both[i].index, both[i].index>>
    BY DEF Told
  <2>1. CASE i \in DOMAIN m
    BY <1>1, <2>1 DEF Told
  <2>2. CASE i \notin DOMAIN m
    <3>1. PICK j \in DOMAIN rest : i = Len(m) + j /\ both[i] = rest[j]
      BY <1>1, <2>2
    <3>2. i = a + both[i].index /\ both[i].index \in DOMAIN m[a].calls
      BY <1>3, <3>1
    <3>3. i - both[i].index = a
      BY <1>1, <1>3, <1>4, <3>2
    <3> QED BY <3>1, <3>3 DEF ResultsOf
  <2> QED BY <2>1, <2>2
<1> QED
  BY <1>6, <1>7

\* Rows that are not results keep results and responses together; a response among them
\* begins a group of its own.
LEMMA PlainJoined ==
  ASSUME NEW m \in Seq(MessageRows), NEW rest \in Seq(MessageRows), NEW both, Extended(m, rest, both),
         NEW L, NEW ab, Paired(m, 0, L, ab), Told(m, L), NEW a \in Nat,
         \A j \in DOMAIN rest : rest[j].role # "tool_result",
         \A j \in DOMAIN rest : rest[j].role = "assistant" => Len(m) + j = a
  PROVE  Paired(both, a, L, ab) /\ Told(both, L)
<1>1. /\ \A i \in DOMAIN m : i \in DOMAIN both /\ both[i] = m[i]
      /\ \A i \in DOMAIN both :
           i \in DOMAIN m \/ \E j \in DOMAIN rest : i = Len(m) + j /\ both[i] = rest[j]
      /\ Len(m) \in Nat /\ DOMAIN m = 1 .. Len(m)
  BY DEF Extended
<1>2. \A i \in DOMAIN both : both[i].role = "tool_result" => i \in DOMAIN m /\ both[i] = m[i]
  BY <1>1
<1>3. \A i \in DOMAIN m : Replied(both, i) = Replied(m, i)
  <2> SUFFICES ASSUME NEW i \in DOMAIN m PROVE Replied(both, i) = Replied(m, i)
    OBVIOUS
  <2>1. both[i] = m[i]
    BY <1>1
  <2> QED BY <1>1, <1>2, <2>1 DEF Replied
<1>4. Paired(both, a, L, ab)
  <2>1. ASSUME NEW i \in DOMAIN both, both[i].role = "assistant", i # a
        PROVE  \E n \in 0 .. Len(both[i].calls) :
                 Replied(both, i) = 1 .. n /\ (n = Len(both[i].calls) \/ i \in Dropped(L, ab))
    <3>1. i \in DOMAIN m /\ both[i] = m[i] /\ i # 0
      BY <1>1, <2>1
    <3> QED BY <1>3, <2>1, <3>1 DEF Paired
  <2>2. ASSUME NEW i \in DOMAIN both, both[i].role = "tool_result"
        PROVE  /\ i - both[i].index \in DOMAIN both /\ both[i - both[i].index].role = "assistant"
               /\ both[i].index \in DOMAIN both[i - both[i].index].calls
    <3>1. i \in DOMAIN m /\ both[i] = m[i]
      BY <1>2, <2>2
    <3>2. /\ i - m[i].index \in DOMAIN m /\ m[i - m[i].index].role = "assistant"
          /\ m[i].index \in DOMAIN m[i - m[i].index].calls
      BY <2>2, <3>1 DEF Paired
    <3> QED BY <1>1, <3>1, <3>2
  <2> QED BY <2>1, <2>2 DEF Paired
<1>5. Told(both, L)
  BY <1>2 DEF Told
<1> QED
  BY <1>4, <1>5

\* Rows that are not user messages leave the account of messages alone.
LEMMA SteeredJoined ==
  ASSUME NEW m \in Seq(MessageRows), NEW rest \in Seq(MessageRows), NEW both, Extended(m, rest, both),
         NEW p, NEW rec, NEW seq, Steered(m, p, rec, seq), Ordered(m, p),
         \A j \in DOMAIN rest : rest[j].role # "user"
  PROVE  Steered(both, p, rec, seq) /\ Ordered(both, p)
<1>1. /\ \A i \in DOMAIN m : i \in DOMAIN both /\ both[i] = m[i]
      /\ \A i \in DOMAIN both :
           i \in DOMAIN m \/ \E j \in DOMAIN rest : i = Len(m) + j /\ both[i] = rest[j]
  BY DEF Extended
<1>2. Users(both) = Users(m)
  BY <1>1 DEF Users
<1>3. \A i \in Users(m) : both[i].event = m[i].event
  BY <1>1 DEF Users
<1>4. {both[i].event : i \in Users(both)} = {m[i].event : i \in Users(m)}
  BY <1>2, <1>3
<1> QED
  BY <1>2, <1>3, <1>4 DEF Steered, Ordered

\* The first n of the messages that wait, as rows of the transcript.
Promoted(p, n) == [i \in 1 .. n |-> UserMessage(p[i])]

\* What is promoted are user messages.
LEMMA PromotedRows ==
  ASSUME NEW p \in Seq(WaitingRows), NEW n \in 0 .. Len(p)
  PROVE  /\ Promoted(p, n) \in Seq(MessageRows) /\ DOMAIN Promoted(p, n) = 1 .. n
         /\ Len(Promoted(p, n)) = n /\ 1 .. n \subseteq DOMAIN p
         /\ \A j \in 1 .. n : /\ Promoted(p, n)[j].role = "user"
                              /\ Promoted(p, n)[j].event = p[j].event
<1>1. Len(p) \in Nat /\ DOMAIN p = 1 .. Len(p) /\ \A j \in DOMAIN p : p[j] \in WaitingRows
  BY LenProperties, ElementOfSeq
<1>2. n \in Nat /\ 1 .. n \subseteq DOMAIN p
  BY <1>1
<1>3. \A j \in 1 .. n : /\ UserMessage(p[j]) \in MessageRows /\ UserMessage(p[j]).role = "user"
                        /\ UserMessage(p[j]).event = p[j].event
  <2> SUFFICES ASSUME NEW j \in 1 .. n
               PROVE  /\ UserMessage(p[j]) \in MessageRows /\ UserMessage(p[j]).role = "user"
                      /\ UserMessage(p[j]).event = p[j].event
    OBVIOUS
  <2>1. p[j] \in WaitingRows
    BY <1>1, <1>2
  <2>2. p[j].event \in Nat /\ p[j].size \in Nat
    BY <2>1 DEF WaitingRows
  <2> QED BY <2>2 DEF UserMessage, MessageRows
<1>4. Promoted(p, n) \in [1 .. n -> MessageRows]
  BY <1>3 DEF Promoted
<1>5. Promoted(p, n) \in Seq(MessageRows) /\ Len(Promoted(p, n)) = n /\ DOMAIN Promoted(p, n) = 1 .. n
  BY <1>2, <1>4, FunctionIsSeq
<1>6. \A j \in 1 .. n : Promoted(p, n)[j] = UserMessage(p[j])
  BY DEF Promoted
<1> QED
  BY <1>2, <1>3, <1>5, <1>6

\* Promotion keeps the account; when all that waits is promoted, in the order of admission.
LEMMA PromotionKeeps ==
  ASSUME NEW m \in Seq(MessageRows), NEW p \in Seq(WaitingRows), NEW n \in 0 .. Len(p),
         NEW both, Extended(m, Promoted(p, n), both),
         NEW rec, NEW seq, Steered(m, p, rec, seq)
  PROVE  /\ Steered(both, p, rec, seq)
         /\ n = Len(p) /\ Ordered(m, p) => Steered(both, <<>>, rec, seq) /\ Ordered(both, <<>>)
<1> DEFINE rest == Promoted(p, n)
<1>1. /\ Len(p) \in Nat /\ DOMAIN p = 1 .. Len(p) /\ n \in Nat
      /\ \A j \in DOMAIN p : p[j] \in WaitingRows
  BY LenProperties, ElementOfSeq
<1>2. /\ rest \in Seq(MessageRows) /\ DOMAIN rest = 1 .. n /\ 1 .. n \subseteq DOMAIN p
      /\ \A j \in 1 .. n : rest[j].role = "user" /\ rest[j].event = p[j].event
  BY PromotedRows
<1>3. Extended(m, rest, both)
  OBVIOUS
<1> HIDE DEF rest
<1>4. /\ \A i \in DOMAIN m : i \in DOMAIN both /\ both[i] = m[i]
      /\ \A j \in 1 .. n : Len(m) + j \in DOMAIN both /\ both[Len(m) + j] = rest[j]
      /\ \A i \in DOMAIN both :
           i \in DOMAIN m \/ \E j \in 1 .. n : i = Len(m) + j /\ both[i] = rest[j]
      /\ Len(m) \in Nat /\ DOMAIN m = 1 .. Len(m)
  BY <1>2, <1>3 DEF Extended
<1>5. \A i \in Users(both) : i \in Users(m) \/ \E j \in 1 .. n : i = Len(m) + j /\ both[i].event = p[j].event
  BY <1>2, <1>4 DEF Users
<1>6. /\ \A i \in Users(m) : i \in Users(both) /\ both[i].event = m[i].event /\ i \in 1 .. Len(m)
      /\ \A j \in 1 .. n : Len(m) + j \in Users(both) /\ both[Len(m) + j].event = p[j].event
  BY <1>2, <1>4 DEF Users
<1>7. /\ {m[i].event : i \in Users(m)} \cup {p[j].event : j \in DOMAIN p} = rec /\ rec \subseteq 1 .. seq
      /\ \A i, j \in DOMAIN p : i < j => p[i].event < p[j].event
  BY DEF Steered
<1>10. \A e \in rec : \/ \E i \in Users(m) : e = m[i].event
                      \/ \E j \in DOMAIN p : e = p[j].event
  <2> SUFFICES ASSUME NEW e \in rec
               PROVE  \/ \E i \in Users(m) : e = m[i].event
                      \/ \E j \in DOMAIN p : e = p[j].event
    OBVIOUS
  <2>1. e \in {m[i].event : i \in Users(m)} \/ e \in {p[j].event : j \in DOMAIN p}
    BY <1>7
  <2> QED BY <2>1
<1>11. /\ \A j \in DOMAIN p : p[j].event \in rec
       /\ \A i \in Users(both) : both[i].event \in rec
  <2>1. (\A j \in DOMAIN p : p[j].event \in rec) /\ (\A i \in Users(m) : m[i].event \in rec)
    BY <1>7
  <2> QED BY <1>2, <1>5, <1>6, <2>1
<1>8. Steered(both, p, rec, seq)
  <2>1. {both[i].event : i \in Users(both)} \cup {p[j].event : j \in DOMAIN p} = rec
    <3>1. {both[i].event : i \in Users(both)} \cup {p[j].event : j \in DOMAIN p} \subseteq rec
      BY <1>11
    <3>2. rec \subseteq {both[i].event : i \in Users(both)} \cup {p[j].event : j \in DOMAIN p}
      BY <1>6, <1>10
    <3> QED BY <3>1, <3>2
  <2> QED BY <1>7, <2>1 DEF Steered
<1>9. ASSUME n = Len(p), Ordered(m, p)
      PROVE  Steered(both, <<>>, rec, seq) /\ Ordered(both, <<>>)
  <2>1. DOMAIN <<>> = {}
    OBVIOUS
  <2>2. {both[i].event : i \in Users(both)} \cup {<<>>[j].event : j \in DOMAIN <<>>} = rec
    <3>1. {both[i].event : i \in Users(both)} \subseteq rec
      BY <1>11
    <3>2. rec \subseteq {both[i].event : i \in Users(both)}
      BY <1>1, <1>6, <1>9, <1>10
    <3>3. {<<>>[j].event : j \in DOMAIN <<>>} = {}
      OBVIOUS
    <3> QED BY <3>1, <3>2, <3>3
  <2>3. \A i, j \in Users(both) : i < j => both[i].event < both[j].event
    <3> SUFFICES ASSUME NEW i \in Users(both), NEW j \in Users(both), i < j
                 PROVE  both[i].event < both[j].event
      OBVIOUS
    <3>1. CASE i \in Users(m) /\ j \in Users(m)
      BY <1>6, <1>9, <3>1 DEF Ordered
    <3>2. CASE i \in Users(m) /\ \E k \in 1 .. n : j = Len(m) + k /\ both[j].event = p[k].event
      BY <1>2, <1>6, <1>9, <3>2 DEF Ordered
    <3>3. CASE /\ \E k \in 1 .. n : i = Len(m) + k /\ both[i].event = p[k].event
               /\ \E k \in 1 .. n : j = Len(m) + k /\ both[j].event = p[k].event
      <4>1. PICK k \in 1 .. n : i = Len(m) + k /\ both[i].event = p[k].event
        BY <3>3
      <4>2. PICK l \in 1 .. n : j = Len(m) + l /\ both[j].event = p[l].event
        BY <3>3
      <4>3. k < l
        BY <1>1, <1>4, <4>1, <4>2
      <4> QED BY <1>2, <1>7, <4>1, <4>2, <4>3
    <3>4. ~(j \in Users(m) /\ \E k \in 1 .. n : i = Len(m) + k /\ both[i].event = p[k].event)
      BY <1>1, <1>4, <1>6
    <3> QED BY <1>5, <3>1, <3>2, <3>3, <3>4
  <2> QED BY <1>7, <2>1, <2>2, <2>3 DEF Steered, Ordered
<1> QED
  BY <1>8, <1>9

\* The least element of a set of naturals.
LEMMA MinFits ==
  ASSUME NEW T, T \subseteq Nat, T # {}
  PROVE  Min(T) \in T /\ \A y \in T : Min(T) <= y
<1>1. \E x \in T : \A y \in T : x <= y
  BY LeastNatural
<1> QED
  BY <1>1 DEF Min

-----------------------------------------------------------------------------
(* Between two turns                                                       *)

\* The launched operations after a plan is committed.
LaunchedBy(ctx) ==
  [op \in DOMAIN launched \cup {o \in ctx.operations : o[2] # 0} |->
     IF op \in DOMAIN launched THEN launched[op]
     ELSE <<ctx.s.active_assistant_sequence, op[2]>>]

\* A plan that keeps the invariant when it is committed.
PlanHolds(ctx, out, rec, ab) ==
  /\ Holds(ctx.s, ctx.messages, ctx.pending, ctx.status, ctx.sequence,
           out \cup ctx.operations, rec, LaunchedBy(ctx), ab)
  /\ Longer(messages, ctx.messages)

\* A context in which no call is served and nothing is planned yet, while only dropped
\* operations are out.
Between(ctx, out, rec, ab) ==
  /\ ctx \in Contexts /\ ctx.operations = {} /\ sequence \in Nat /\ ctx.sequence = sequence + 1
  /\ LaunchesFit(launched, ctx.messages, out) /\ Past(out, ab, launched, sequence)
  /\ out \subseteq ab /\ NoOperation \notin out
  /\ Told(ctx.messages, launched) /\ Paired(ctx.messages, 0, launched, ab)
  /\ Steered(ctx.messages, ctx.pending, rec, ctx.sequence)
  /\ Large(ctx.pending) \/ Ordered(ctx.messages, ctx.pending)
  /\ Longer(messages, ctx.messages)

\* What a context holds has its type.
LEMMA ContextFields ==
  ASSUME NEW ctx \in Contexts
  PROVE  /\ ctx.s \in HarnessStates /\ ctx.messages \in Seq(MessageRows)
         /\ ctx.pending \in Seq(WaitingRows) /\ ctx.operations \subseteq Operations
         /\ ctx.status \in HostStatuses /\ ctx.sequence \in Nat
BY DEF Contexts

\* Without an operation of bash nothing is launched.
LEMMA NothingLaunched ==
  ASSUME NEW ctx, \A o \in ctx.operations : o[2] = 0, NEW m, NEW out, LaunchesFit(launched, m, out)
  PROVE  LaunchedBy(ctx) = launched
<1>1. {o \in ctx.operations : o[2] # 0} = {}
  OBVIOUS
<1>2. launched = [op \in DOMAIN launched |-> launched[op]]
  BY DEF LaunchesFit
<1> QED
  BY <1>1, <1>2 DEF LaunchedBy

\* No response has the sequence 0.
LEMMA NoneDropped ==
  ASSUME NEW m \in Seq(MessageRows), NEW L, NEW out, NEW ab, LaunchesFit(L, m, out)
  PROVE  0 \notin Dropped(L, ab)
<1>1. 0 \notin DOMAIN m
  BY LenProperties
<1> QED
  BY <1>1 DEF Dropped, LaunchesFit

\* Fail: the state it leaves.
LEMMA FailFields ==
  ASSUME NEW ctx \in Contexts
  PROVE  /\ Fail(ctx) \in Contexts
         /\ Fail(ctx).messages = ctx.messages /\ Fail(ctx).pending = ctx.pending
         /\ Fail(ctx).operations = ctx.operations /\ Fail(ctx).sequence = ctx.sequence
         /\ Fail(ctx).status = "failed" /\ Fail(ctx).s.phase = "failed"
         /\ Fail(ctx).s.active_operation_id = NoOperation
         /\ Fail(ctx).s.active_assistant_sequence = 0
<1> DEFINE st == [ctx.s EXCEPT !.phase = "failed", !.active_operation_id = NoOperation,
                               !.active_assistant_sequence = 0, !.next_tool_index = 0,
                               !.failed = TRUE, !.cancel_requested = FALSE]
<1>1. ctx.s \in HarnessStates /\ NoOperation \in Operations
  BY DEF Contexts, NoOperation, Operations
<1>2. /\ st \in HarnessStates /\ st.phase = "failed" /\ st.active_operation_id = NoOperation
      /\ st.active_assistant_sequence = 0
  BY <1>1 DEF HarnessStates
<1>3. Fail(ctx) = [ctx EXCEPT !.status = "failed", !.s = st]
  BY DEF Fail
<1>4. "failed" \in HostStatuses
  BY DEF HostStatuses
<1> HIDE DEF st
<1> QED
  BY <1>2, <1>3, <1>4 DEF Contexts

\* A plan at rest: its operations that are out have been dropped.
LEMMA RestHolds ==
  ASSUME NEW ctx, NEW out, NEW rec, NEW ab, Between(ctx, out, rec, ab),
         NEW f \in Contexts, f.messages = ctx.messages, f.pending = ctx.pending,
         f.operations = {}, f.sequence = ctx.sequence, f.status = f.s.phase,
         f.s.phase \in {"idle", "cancelled", "failed"},
         f.s.active_operation_id = NoOperation, f.s.active_assistant_sequence = 0,
         f.s.phase = "failed" \/ Ordered(ctx.messages, ctx.pending),
         f.s.phase = "idle" => ctx.pending = <<>>
  PROVE  PlanHolds(f, out, rec, ab)
<1>1. LaunchedBy(f) = launched
  BY NothingLaunched DEF Between
<1>2. 0 \notin Dropped(launched, ab)
  BY ContextFields, NoneDropped DEF Between
<1>3. out \cup f.operations = out
  OBVIOUS
<1>4. PhaseFits(f.s, f.messages, out, launched, ab) /\ StatusFits(f.s, f.status)
  BY <1>2 DEF PhaseFits, StatusFits, Between
<1>5. Past(out, ab, launched, f.sequence)
  <2>1. \A op \in Operations : op[1] <= sequence => op[1] <= sequence + 1
    BY DEF Operations, Between
  <2> QED BY <2>1 DEF Past, Between
<1>6. ~(f.s.phase = "failed" /\ Large(f.pending)) => Ordered(f.messages, f.pending)
  BY DEF Between
<1>7. /\ f.s \in HarnessStates /\ f.messages \in Seq(MessageRows) /\ f.pending \in Seq(WaitingRows)
      /\ f.status \in HostStatuses /\ f.sequence \in Nat
  BY ContextFields
<1>8. Holds(f.s, f.messages, f.pending, f.status, f.sequence, out, rec, launched, ab)
  BY <1>4, <1>5, <1>6, <1>7 DEF Holds, Between
<1> QED
  BY <1>1, <1>3, <1>8 DEF PlanHolds, Between

\* A failure between two turns.
LEMMA FailHolds ==
  ASSUME NEW ctx, NEW out, NEW rec, NEW ab, Between(ctx, out, rec, ab)
  PROVE  PlanHolds(Fail(ctx), out, rec, ab)
<1>1. ctx \in Contexts /\ ctx.operations = {}
  BY DEF Between
<1> DEFINE f == Fail(ctx)
<1>2. /\ f \in Contexts /\ f.messages = ctx.messages /\ f.pending = ctx.pending
      /\ f.operations = {} /\ f.sequence = ctx.sequence /\ f.status = f.s.phase
      /\ f.s.phase = "failed"
      /\ f.s.active_operation_id = NoOperation /\ f.s.active_assistant_sequence = 0
  BY <1>1, FailFields
<1> HIDE DEF f
<1>3. PlanHolds(f, out, rec, ab)
  BY <1>2, RestHolds
<1> QED
  BY <1>3 DEF f

\* What an earlier input planned is past for a later one.
LEMMA PastGoesOn ==
  ASSUME NEW out, NEW ab, NEW L, NEW seq \in Nat, Past(out, ab, L, seq)
  PROVE  Past(out, ab, L, seq + 1)
<1>1. \A op \in Operations : op[1] <= seq => op[1] <= seq + 1
  BY DEF Operations
<1> QED
  BY <1>1 DEF Past

\* RequestLlm: the request that is out is the one the state waits for, or the run failed.
LEMMA RequestHolds ==
  ASSUME NEW ctx, NEW out, NEW rec, NEW ab, Between(ctx, out, rec, ab),
         Ordered(ctx.messages, ctx.pending), ctx.status = "running", ~ctx.s.cancel_requested
  PROVE  PlanHolds(RequestLlm(ctx), out, rec, ab)
<1>0. ctx \in Contexts /\ ctx.sequence \in Nat /\ ctx.s \in HarnessStates
  BY ContextFields DEF Between
<1>1. CASE Len(Context(ctx.messages)) > MaxContext
  BY <1>1, FailHolds DEF RequestLlm
<1>2. CASE ~(Len(Context(ctx.messages)) > MaxContext)
  <2> DEFINE op == <<ctx.sequence, 0>>
             st == [ctx.s EXCEPT !.phase = "llm", !.active_operation_id = op,
                                 !.active_assistant_sequence = 0, !.next_tool_index = 0]
             r  == [ctx EXCEPT !.operations = @ \cup {op}, !.s = st]
  <2>1. RequestLlm(ctx) = r
    BY <1>2 DEF RequestLlm
  <2>2. sequence \in Nat /\ ctx.sequence = sequence + 1 /\ ctx.operations = {}
    BY DEF Between
  <2>3. /\ op \in Operations /\ op[1] = ctx.sequence /\ op[2] = 0 /\ op # NoOperation
        /\ \A o \in Operations : o[1] <= sequence => o # op /\ o[1] < op[1] /\ o[1] <= ctx.sequence
    BY <2>2 DEF Operations, NoOperation
  <2> HIDE DEF op
  <2>4. /\ st \in HarnessStates /\ st.phase = "llm" /\ st.active_operation_id = op
        /\ st.active_assistant_sequence = 0 /\ ~st.cancel_requested
    BY <1>0, <2>3 DEF HarnessStates
  <2> HIDE DEF st
  <2>5. /\ r \in Contexts /\ r.s = st /\ r.messages = ctx.messages /\ r.pending = ctx.pending
        /\ r.operations = {op} /\ r.sequence = ctx.sequence /\ r.status = "running"
    <3>1. {op} \in SUBSET Operations
      BY <2>3
    <3> QED BY <1>0, <2>2, <2>4, <3>1 DEF Contexts
  <2> HIDE DEF r
  <2>6. LaunchedBy(r) = launched
    BY <2>3, <2>5, NothingLaunched DEF Between
  <2>7. /\ Past(out, ab, launched, sequence) /\ LaunchesFit(launched, r.messages, out)
        /\ out \subseteq ab /\ NoOperation \notin out
    BY <2>5 DEF Between
  <2>8. op \notin ab /\ op \notin DOMAIN launched
    BY <2>3, <2>7 DEF Past
  <2>9. LaunchesFit(launched, r.messages, out \cup {op})
    BY <2>7, <2>8 DEF LaunchesFit
  <2>10. Past(out \cup {op}, ab, launched, r.sequence)
    <3>1. op[1] <= r.sequence
      BY <1>0, <2>3, <2>5
    <3> QED BY <2>3, <2>5, <2>7, <3>1 DEF Past
  <2>11. 0 \notin Dropped(launched, ab)
    BY <1>0, ContextFields, NoneDropped DEF Between
  <2>12. (out \cup {op}) \ ab = {op} \ {NoOperation}
    BY <2>3, <2>7, <2>8
  <2>13. PhaseFits(r.s, r.messages, out \cup {op}, launched, ab) /\ StatusFits(r.s, r.status)
    BY <2>3, <2>4, <2>5, <2>7, <2>11, <2>12 DEF PhaseFits, StatusFits
  <2>14. /\ r.s \in HarnessStates /\ r.messages \in Seq(MessageRows) /\ r.pending \in Seq(WaitingRows)
         /\ r.status \in HostStatuses /\ r.sequence \in Nat
    BY <2>5, ContextFields
  <2>15. Holds(r.s, r.messages, r.pending, r.status, r.sequence, out \cup {op}, rec, launched, ab)
    BY <2>4, <2>5, <2>9, <2>10, <2>13, <2>14 DEF Holds, Between
  <2>16. PlanHolds(r, out, rec, ab)
    BY <2>5, <2>6, <2>15 DEF PlanHolds, Between
  <2> QED BY <2>1, <2>16
<1> QED
  BY <1>1, <1>2

\* The first n messages that wait have entered, and wait on.
Grown(g, ctx, n, out, rec, ab) ==
  /\ g \in Contexts /\ g.s = ctx.s /\ g.status = ctx.status /\ g.pending = ctx.pending
  /\ g.operations = {} /\ g.sequence = ctx.sequence
  /\ LaunchesFit(launched, g.messages, out)
  /\ Told(g.messages, launched) /\ Paired(g.messages, 0, launched, ab)
  /\ Steered(g.messages, g.pending, rec, g.sequence)
  /\ Longer(messages, g.messages)
  /\ n = Len(ctx.pending) /\ Ordered(ctx.messages, ctx.pending) =>
       Steered(g.messages, <<>>, rec, g.sequence) /\ Ordered(g.messages, <<>>)

\* promoteSteering for the first n messages: they enter the transcript, and wait on.
LEMMA GrownBetween ==
  ASSUME NEW ctx, NEW out, NEW rec, NEW ab, Between(ctx, out, rec, ab),
         NEW n \in 0 .. Len(ctx.pending), NEW g,
         g = [ctx EXCEPT !.messages = @ \o Promoted(ctx.pending, n)]
  PROVE  Grown(g, ctx, n, out, rec, ab)
<1> DEFINE p == ctx.pending
           rest == Promoted(p, n)
           both == ctx.messages \o rest
<1>0. /\ ctx \in Contexts /\ ctx.messages \in Seq(MessageRows) /\ p \in Seq(WaitingRows)
      /\ ctx.operations = {}
  BY ContextFields DEF Between
<1>1. /\ rest \in Seq(MessageRows) /\ DOMAIN rest = 1 .. n
      /\ \A j \in 1 .. n : rest[j].role = "user"
  BY <1>0, PromotedRows
<1>2. Extended(ctx.messages, rest, both)
  BY <1>0, <1>1, ConcatExtends
<1>3. g = [ctx EXCEPT !.messages = both]
  OBVIOUS
<1>4. /\ Steered(both, p, rec, ctx.sequence)
      /\ n = Len(p) /\ Ordered(ctx.messages, p) =>
           Steered(both, <<>>, rec, ctx.sequence) /\ Ordered(both, <<>>)
  <2> HIDE DEF both
  <2> QED BY <1>0, <1>2, PromotionKeeps DEF Between
<1> HIDE DEF rest, both
<1>5. Paired(both, 0, launched, ab) /\ Told(both, launched)
  <2>1. /\ \A j \in DOMAIN rest : rest[j].role # "tool_result"
        /\ \A j \in DOMAIN rest : rest[j].role = "assistant" => Len(ctx.messages) + j = 0
    BY <1>1
  <2>2. Paired(ctx.messages, 0, launched, ab) /\ Told(ctx.messages, launched)
    BY DEF Between
  <2>3. 0 \in Nat
    OBVIOUS
  <2> QED BY <1>0, <1>1, <1>2, <2>1, <2>2, <2>3, PlainJoined
<1>6. /\ both \in Seq(MessageRows) /\ \A i \in DOMAIN ctx.messages : i \in DOMAIN both /\ both[i] = ctx.messages[i]
  BY <1>2 DEF Extended
<1>7. /\ g \in Contexts /\ g.messages = both /\ g.s = ctx.s /\ g.status = ctx.status
      /\ g.pending = p /\ g.operations = {} /\ g.sequence = ctx.sequence
  BY <1>0, <1>3, <1>6 DEF Contexts
<1>8. Longer(messages, both)
  BY <1>6 DEF Longer, Between
<1>9. LaunchesFit(launched, both, out)
  BY <1>6 DEF LaunchesFit, Between
<1> QED
  BY <1>4, <1>5, <1>7, <1>8, <1>9 DEF Grown

\* promoteSteering and the request: all that waits enters, or the run fails on the first
\* message that may not.
LEMMA SteeringHolds ==
  ASSUME NEW ctx, NEW out, NEW rec, NEW ab, Between(ctx, out, rec, ab),
         ctx.status = "running", ~ctx.s.cancel_requested
  PROVE  PlanHolds(RequestWithSteering(ctx), out, rec, ab)
<1> DEFINE p == ctx.pending
           large == {i \in DOMAIN p : ~MayEnter(p[i].size)}
           n == IF large = {} THEN Len(p) ELSE Min(large) - 1
           grown == [ctx EXCEPT !.messages = @ \o Promoted(p, n)]
           r == [grown EXCEPT !.pending = <<>>]
<1>0. p \in Seq(WaitingRows) /\ Len(p) \in Nat /\ DOMAIN p = 1 .. Len(p)
  BY ContextFields, LenProperties DEF Between
<1>1. n \in 0 .. Len(p)
  <2> HIDE DEF p
  <2>1. large \subseteq 1 .. Len(p) /\ large \subseteq Nat
    BY <1>0
  <2> HIDE DEF large
  <2>2. CASE large = {}
    BY <1>0, <2>2
  <2>3. CASE large # {}
    <3>1. Min(large) \in 1 .. Len(p)
      BY <2>1, <2>3, MinFits
    <3> QED BY <1>0, <2>3, <3>1
  <2> QED BY <2>2, <2>3
<1>2. RequestWithSteering(ctx) = IF large # {} THEN Fail(grown) ELSE RequestLlm(r)
  BY DEF RequestWithSteering, Promoted
<1>3. (large = {} <=> ~Large(p)) /\ (large = {} => n = Len(p))
  BY DEF Large
<1> HIDE DEF large, n
<1>7. Grown(grown, ctx, n, out, rec, ab)
  BY <1>1, GrownBetween
<1> HIDE DEF grown
<1>4. /\ grown \in Contexts /\ grown.s = ctx.s /\ grown.status = ctx.status /\ grown.pending = p
      /\ grown.operations = {} /\ grown.sequence = ctx.sequence
      /\ LaunchesFit(launched, grown.messages, out)
      /\ Told(grown.messages, launched) /\ Paired(grown.messages, 0, launched, ab)
      /\ Steered(grown.messages, p, rec, grown.sequence)
      /\ Longer(messages, grown.messages)
      /\ n = Len(p) /\ Ordered(ctx.messages, p) =>
           Steered(grown.messages, <<>>, rec, grown.sequence) /\ Ordered(grown.messages, <<>>)
  BY <1>7 DEF Grown
<1>5. CASE large # {}
  <2>1. Between(grown, out, rec, ab)
    BY <1>3, <1>4, <1>5 DEF Between
  <2> QED BY <1>2, <1>5, <2>1, FailHolds
<1>6. CASE large = {}
  <2>1. Ordered(ctx.messages, p)
    BY <1>3, <1>6 DEF Between
  <2>2. /\ r \in Contexts /\ r.s = ctx.s /\ r.status = ctx.status /\ r.pending = <<>>
        /\ r.messages = grown.messages /\ r.operations = {} /\ r.sequence = ctx.sequence
    BY <1>4, EmptySeq DEF Contexts
  <2> HIDE DEF r, p
  <2>3. Between(r, out, rec, ab) /\ Ordered(r.messages, r.pending)
    BY <1>3, <1>4, <1>6, <2>1, <2>2 DEF Between
  <2> QED BY <1>2, <1>6, <2>2, <2>3, RequestHolds
<1> QED
  BY <1>5, <1>6

\* What lies between two turns does not depend on the state.
LEMMA BetweenMoves ==
  ASSUME NEW ctx, NEW out, NEW rec, NEW ab, Between(ctx, out, rec, ab),
         NEW g \in Contexts, g.messages = ctx.messages, g.pending = ctx.pending,
         g.operations = {}, g.sequence = ctx.sequence
  PROVE  Between(g, out, rec, ab)
BY DEF Between

\* finishTurn: the session rests, is cancelled or goes on with what waits.
LEMMA FinishHolds ==
  ASSUME NEW ctx, NEW out, NEW rec, NEW ab, Between(ctx, out, rec, ab),
         Ordered(ctx.messages, ctx.pending),
         ctx.status = IF ctx.s.cancel_requested THEN "cancelling" ELSE "running",
         NEW hadTools \in BOOLEAN
  PROVE  PlanHolds(FinishTurn(ctx, hadTools), out, rec, ab)
<1> DEFINE st    == [ctx.s EXCEPT !.active_operation_id = NoOperation,
                                  !.active_assistant_sequence = 0, !.next_tool_index = 0]
           ended == [ctx EXCEPT !.s = st]
           stop  == [ended EXCEPT !.status = "cancelled", !.s.phase = "cancelled",
                                  !.s.cancel_requested = FALSE]
           rest  == [ended EXCEPT !.status = "idle", !.s.phase = "idle"]
<1>0. /\ ctx \in Contexts /\ ctx.s \in HarnessStates /\ ctx.operations = {}
      /\ NoOperation \in Operations /\ {"idle", "cancelled"} \subseteq HostStatuses
  BY ContextFields DEF Between, NoOperation, Operations, HostStatuses
<1>1. /\ st \in HarnessStates /\ st.active_operation_id = NoOperation
      /\ st.active_assistant_sequence = 0 /\ st.cancel_requested = ctx.s.cancel_requested
  BY <1>0 DEF HarnessStates
<1>2. FinishTurn(ctx, hadTools)
        = IF ctx.s.cancel_requested THEN stop
          ELSE IF hadTools \/ ctx.pending # <<>> THEN RequestWithSteering(ended) ELSE rest
  BY DEF FinishTurn
<1> HIDE DEF st
<1>3. /\ ended \in Contexts /\ ended.s = st /\ ended.messages = ctx.messages
      /\ ended.pending = ctx.pending /\ ended.operations = {} /\ ended.sequence = ctx.sequence
      /\ ended.status = ctx.status
  BY <1>0, <1>1 DEF Contexts
<1> HIDE DEF ended
<1>4. CASE ctx.s.cancel_requested
  <2>1. /\ stop \in Contexts /\ stop.messages = ctx.messages /\ stop.pending = ctx.pending
        /\ stop.operations = {} /\ stop.sequence = ctx.sequence /\ stop.status = "cancelled"
        /\ stop.s = [st EXCEPT !.phase = "cancelled", !.cancel_requested = FALSE]
    <3> DEFINE over == [st EXCEPT !.phase = "cancelled", !.cancel_requested = FALSE]
    <3>1. over \in HarnessStates
      BY <1>1 DEF HarnessStates
    <3>2. stop = [ended EXCEPT !.status = "cancelled", !.s = over]
      BY <1>3 DEF Contexts
    <3> HIDE DEF over, stop
    <3>3. /\ stop \in Contexts /\ stop.messages = ctx.messages /\ stop.pending = ctx.pending
          /\ stop.operations = {} /\ stop.sequence = ctx.sequence /\ stop.status = "cancelled"
          /\ stop.s = over
      BY <1>0, <1>3, <3>1, <3>2 DEF Contexts
    <3> QED BY <3>3 DEF over
  <2> HIDE DEF stop
  <2>2. /\ stop.s.phase = "cancelled" /\ stop.s.active_operation_id = NoOperation
        /\ stop.s.active_assistant_sequence = 0
    BY <1>1, <2>1 DEF HarnessStates
  <2>3. PlanHolds(stop, out, rec, ab)
    BY <2>1, <2>2, RestHolds
  <2> QED BY <1>2, <1>4, <2>3
<1>5. CASE ~ctx.s.cancel_requested /\ (hadTools \/ ctx.pending # <<>>)
  <2>1. Between(ended, out, rec, ab)
    BY <1>3, BetweenMoves
  <2>2. ended.status = "running" /\ ~ended.s.cancel_requested
    BY <1>1, <1>3, <1>5
  <2> QED BY <1>2, <1>5, <2>1, <2>2, SteeringHolds
<1>6. CASE ~ctx.s.cancel_requested /\ ~(hadTools \/ ctx.pending # <<>>)
  <2>1. /\ rest \in Contexts /\ rest.messages = ctx.messages /\ rest.pending = ctx.pending
        /\ rest.operations = {} /\ rest.sequence = ctx.sequence /\ rest.status = "idle"
        /\ rest.s = [st EXCEPT !.phase = "idle"]
    BY <1>0, <1>1, <1>3 DEF Contexts, HarnessStates
  <2>2. /\ rest.s.phase = "idle" /\ rest.s.active_operation_id = NoOperation
        /\ rest.s.active_assistant_sequence = 0
    BY <1>1, <2>1 DEF HarnessStates
  <2> HIDE DEF rest
  <2>3. PlanHolds(rest, out, rec, ab)
    BY <1>6, <2>1, <2>2, RestHolds
  <2> QED BY <1>2, <1>6, <2>3
<1> QED
  BY <1>4, <1>5, <1>6

-----------------------------------------------------------------------------
(* Serving the calls of a response                                         *)

\* Rows of results are rows of the transcript.
LEMMA RowsFit ==
  /\ \A index \in Nat, result \in {"ran", "unknown", "not_executed"} :
       /\ ToolResult(index, result) \in MessageRows /\ ToolResult(index, result).role = "tool_result"
       /\ ToolResult(index, result).index = index /\ ToolResult(index, result).result = result
  /\ \A calls \in Seq(BOOLEAN), in_context \in BOOLEAN :
       /\ AssistantMessage(calls, in_context) \in MessageRows
       /\ AssistantMessage(calls, in_context).role = "assistant"
       /\ AssistantMessage(calls, in_context).calls = calls
BY DEF ToolResult, AssistantMessage, MessageRows

\* The rows for k calls that are not executed, after the first n.
Refused(n, k) == [i \in 1 .. k |-> ToolResult(n + i, "not_executed")]

\* They are results, in the order of the calls.
LEMMA RefusedRows ==
  ASSUME NEW n \in Nat, NEW k \in Nat
  PROVE  /\ Refused(n, k) \in Seq(MessageRows) /\ Len(Refused(n, k)) = k
         /\ DOMAIN Refused(n, k) = 1 .. k
         /\ \A j \in 1 .. k : /\ Refused(n, k)[j].role = "tool_result"
                              /\ Refused(n, k)[j].index = n + j
                              /\ Refused(n, k)[j].result = "not_executed"
<1>1. \A j \in 1 .. k : n + j \in Nat
  OBVIOUS
<1>2. \A j \in 1 .. k : /\ ToolResult(n + j, "not_executed") \in MessageRows
                        /\ ToolResult(n + j, "not_executed").role = "tool_result"
                        /\ ToolResult(n + j, "not_executed").index = n + j
                        /\ ToolResult(n + j, "not_executed").result = "not_executed"
  BY <1>1, RowsFit
<1>3. \A j \in 1 .. k : Refused(n, k)[j] = ToolResult(n + j, "not_executed")
  BY DEF Refused
<1>4. Refused(n, k) \in [1 .. k -> MessageRows]
  BY <1>2 DEF Refused
<1> QED
  BY <1>2, <1>3, <1>4, FunctionIsSeq

\* The log of a response that is served: its results, and the messages.
Serving(m, p, a, n, L, rec, ab, seq) ==
  /\ m \in Seq(MessageRows) /\ Served(m, a, n)
  /\ Paired(m, a, L, ab) /\ Told(m, L)
  /\ Steered(m, p, rec, seq) /\ Ordered(m, p)

\* The next results are added.
LEMMA ServedGoesOn ==
  ASSUME NEW m, NEW p, NEW a, NEW n, NEW L, NEW rec, NEW ab, NEW seq,
         Serving(m, p, a, n, L, rec, ab, seq),
         NEW rest \in Seq(MessageRows), NEW both, Extended(m, rest, both),
         n + Len(rest) <= Len(m[a].calls),
         \A j \in DOMAIN rest :
           /\ rest[j].role = "tool_result" /\ rest[j].index = n + j
           /\ (rest[j].result = "not_executed") <=> \A op \in DOMAIN L : L[op] # <<a, n + j>>
  PROVE  Serving(both, p, a, n + Len(rest), L, rec, ab, seq) /\ both[a] = m[a]
<1>1. /\ m \in Seq(MessageRows) /\ a \in DOMAIN m /\ m[a].role = "assistant"
      /\ n \in 0 .. Len(m[a].calls) /\ Len(m) = a + n
      /\ \A k \in 1 .. n : m[a + k].role = "tool_result" /\ m[a + k].index = k
  BY DEF Serving, Served
<1>2. /\ both \in Seq(MessageRows) /\ Len(both) = Len(m) + Len(rest)
      /\ Len(m) \in Nat /\ DOMAIN m = 1 .. Len(m)
      /\ \A i \in DOMAIN m : i \in DOMAIN both /\ both[i] = m[i]
      /\ \A j \in DOMAIN rest : Len(m) + j \in DOMAIN both /\ both[Len(m) + j] = rest[j]
  BY DEF Extended
<1>3. Len(rest) \in Nat /\ DOMAIN rest = 1 .. Len(rest)
  BY LenProperties
<1>4. m[a].calls \in Seq(BOOLEAN)
  <2>1. m[a] \in MessageRows
    BY <1>1, ElementOfSeq
  <2> QED BY <1>1, <2>1 DEF MessageRows
<1>5. Len(m[a].calls) \in Nat /\ DOMAIN m[a].calls = 1 .. Len(m[a].calls) /\ n \in Nat
  BY <1>1, <1>4, LenProperties
<1>6. ResultsOf(rest, m, a, L)
  <2>1. \A j \in DOMAIN rest : n + j \in DOMAIN m[a].calls /\ Len(m) + j = a + (n + j)
    BY <1>1, <1>2, <1>3, <1>5
  <2> QED BY <1>1, <2>1 DEF ResultsOf
<1>7. Paired(both, a, L, ab) /\ Told(both, L)
  <2>1. Paired(m, a, L, ab) /\ Told(m, L)
    BY DEF Serving
  <2> QED BY <1>1, <1>6, <2>1, ResultsJoined
<1>8. Steered(both, p, rec, seq) /\ Ordered(both, p)
  <2>1. Steered(m, p, rec, seq) /\ Ordered(m, p) /\ \A j \in DOMAIN rest : rest[j].role # "user"
    BY DEF Serving
  <2> QED BY <1>1, <2>1, SteeredJoined
<1>9. Served(both, a, n + Len(rest))
  <2>1. a \in DOMAIN both /\ both[a] = m[a]
    BY <1>1, <1>2
  <2>2. n + Len(rest) \in 0 .. Len(both[a].calls) /\ Len(both) = a + (n + Len(rest))
    BY <1>1, <1>2, <1>3, <1>5, <2>1
  <2>3. ASSUME NEW k \in 1 .. n + Len(rest)
        PROVE  both[a + k].role = "tool_result" /\ both[a + k].index = k
    <3>1. CASE k <= n
      <4>1. k \in 1 .. n /\ a + k \in DOMAIN m
        BY <1>1, <1>2, <1>3, <1>5, <3>1
      <4> QED BY <1>1, <1>2, <4>1
    <3>2. CASE ~(k <= n)
      <4>1. k - n \in DOMAIN rest /\ a + k = Len(m) + (k - n) /\ n + (k - n) = k
        BY <1>1, <1>2, <1>3, <1>5, <3>2
      <4> QED BY <1>2, <4>1
    <3> QED BY <3>1, <3>2
  <2> QED BY <1>1, <2>1, <2>2, <2>3 DEF Served
<1> QED
  BY <1>1, <1>2, <1>7, <1>8, <1>9 DEF Serving

\* The results of a response that is served are those of its first calls.
LEMMA ServedReplies ==
  ASSUME NEW m \in Seq(MessageRows), NEW a, NEW n, Served(m, a, n)
  PROVE  Replied(m, a) = 1 .. n
<1>1. /\ a \in DOMAIN m /\ m[a].role = "assistant" /\ n \in 0 .. Len(m[a].calls) /\ Len(m) = a + n
      /\ \A k \in 1 .. n : m[a + k].role = "tool_result" /\ m[a + k].index = k
      /\ Len(m) \in Nat /\ DOMAIN m = 1 .. Len(m)
  BY LenProperties DEF Served
<1>2. m[a].calls \in Seq(BOOLEAN)
  <2>1. m[a] \in MessageRows
    BY <1>1, ElementOfSeq
  <2> QED BY <1>1, <2>1 DEF MessageRows
<1>3. Len(m[a].calls) \in Nat /\ DOMAIN m[a].calls = 1 .. Len(m[a].calls) /\ n \in Nat
  BY <1>1, <1>2, LenProperties
<1>4. \A k \in 1 .. n : k \in DOMAIN m[a].calls /\ a + k \in DOMAIN m
  BY <1>1, <1>3
<1>5. \A k \in DOMAIN m[a].calls : a + k \in DOMAIN m => k \in 1 .. n
  BY <1>1, <1>3
<1>6. 1 .. n \subseteq Replied(m, a)
  BY <1>1, <1>4 DEF Replied
<1>7. Replied(m, a) \subseteq 1 .. n
  BY <1>5 DEF Replied
<1> QED
  BY <1>6, <1>7

\* The response at work has its results when all its calls are served, or the rest is dropped.
LEMMA ServedCloses ==
  ASSUME NEW m \in Seq(MessageRows), NEW a, NEW n, NEW L, NEW ab, Served(m, a, n),
         Paired(m, a, L, ab), n = Len(m[a].calls) \/ a \in Dropped(L, ab)
  PROVE  Paired(m, 0, L, ab)
<1>1. /\ a \in DOMAIN m /\ m[a].role = "assistant" /\ n \in 0 .. Len(m[a].calls) /\ Len(m) = a + n
      /\ \A k \in 1 .. n : m[a + k].role = "tool_result" /\ m[a + k].index = k
      /\ Len(m) \in Nat /\ DOMAIN m = 1 .. Len(m)
  BY LenProperties DEF Served
<1>2. Replied(m, a) = 1 .. n
  BY ServedReplies
<1>3. \A i \in DOMAIN m : m[i].role = "assistant" =>
        \E k \in 0 .. Len(m[i].calls) :
          Replied(m, i) = 1 .. k /\ (k = Len(m[i].calls) \/ i \in Dropped(L, ab))
  <2> SUFFICES ASSUME NEW i \in DOMAIN m, m[i].role = "assistant"
               PROVE  \E k \in 0 .. Len(m[i].calls) :
                        Replied(m, i) = 1 .. k /\ (k = Len(m[i].calls) \/ i \in Dropped(L, ab))
    OBVIOUS
  <2>1. CASE i = a
    BY <1>1, <1>2, <2>1
  <2>2. CASE i # a
    BY <2>2 DEF Paired
  <2> QED BY <2>1, <2>2
<1> QED
  BY <1>3 DEF Paired

\* A context in which the response at a is served, the first n of its calls are done, and
\* nothing is planned yet.
Working(ctx, a, n, out, rec, ab) ==
  /\ ctx \in Contexts /\ ctx.operations = {} /\ sequence \in Nat /\ ctx.sequence = sequence + 1
  /\ ctx.s.active_assistant_sequence = a /\ ctx.s.next_tool_index = n
  /\ LaunchesFit(launched, ctx.messages, out) /\ Past(out, ab, launched, sequence)
  /\ out \subseteq ab /\ NoOperation \notin out
  /\ Serving(ctx.messages, ctx.pending, a, n, launched, rec, ab, ctx.sequence)
  /\ a \notin Dropped(launched, ab)
  /\ \A o \in DOMAIN launched : launched[o][1] = a => o[2] <= n /\ o \notin out
  /\ ctx.status = IF ctx.s.cancel_requested THEN "cancelling" ELSE "running"
  /\ Longer(messages, ctx.messages)

\* The response at work is stored, and so are its calls.
LEMMA WorkFields ==
  ASSUME NEW ctx, NEW a, NEW n, NEW out, NEW rec, NEW ab, Working(ctx, a, n, out, rec, ab)
  PROVE  /\ ctx.messages \in Seq(MessageRows) /\ Served(ctx.messages, a, n)
         /\ ctx.s \in HarnessStates /\ ctx.pending \in Seq(WaitingRows)
         /\ Len(ctx.messages) = a + n /\ DOMAIN ctx.messages = 1 .. a + n /\ a \in Nat /\ n \in Nat
         /\ a \in DOMAIN ctx.messages /\ ctx.messages[a].role = "assistant"
         /\ ctx.messages[a].calls \in Seq(BOOLEAN)
         /\ Len(ctx.messages[a].calls) \in Nat /\ n <= Len(ctx.messages[a].calls)
         /\ DOMAIN ctx.messages[a].calls = 1 .. Len(ctx.messages[a].calls)
<1>1. /\ ctx.messages \in Seq(MessageRows) /\ ctx.s \in HarnessStates
      /\ ctx.pending \in Seq(WaitingRows) /\ Served(ctx.messages, a, n)
  BY ContextFields DEF Working, Serving
<1>2. /\ Len(ctx.messages) = a + n /\ a \in DOMAIN ctx.messages
      /\ ctx.messages[a].role = "assistant" /\ n \in 0 .. Len(ctx.messages[a].calls)
  BY <1>1 DEF Served
<1>3. ctx.messages[a] \in MessageRows
  BY <1>1, <1>2, ElementOfSeq
<1>4. ctx.messages[a].calls \in Seq(BOOLEAN)
  BY <1>2, <1>3 DEF MessageRows
<1>5. /\ Len(ctx.messages) \in Nat /\ DOMAIN ctx.messages = 1 .. Len(ctx.messages)
      /\ Len(ctx.messages[a].calls) \in Nat
      /\ DOMAIN ctx.messages[a].calls = 1 .. Len(ctx.messages[a].calls)
  BY <1>1, <1>4, LenProperties
<1> QED
  BY <1>1, <1>2, <1>4, <1>5

\* All calls are served: the turn is finished.
LEMMA WorkFinished ==
  ASSUME NEW ctx, NEW a, NEW n, NEW out, NEW rec, NEW ab, Working(ctx, a, n, out, rec, ab),
         n = Len(ctx.messages[a].calls)
  PROVE  PlanHolds(FinishTurn(ctx, TRUE), out, rec, ab)
<1>1. /\ Served(ctx.messages, a, n) /\ Paired(ctx.messages, a, launched, ab)
      /\ ctx.messages \in Seq(MessageRows)
  BY DEF Working, Serving
<1>2. Paired(ctx.messages, 0, launched, ab)
  BY <1>1, ServedCloses
<1>3. Between(ctx, out, rec, ab) /\ Ordered(ctx.messages, ctx.pending)
  BY <1>2 DEF Between, Working, Serving
<1>4. ctx.status = IF ctx.s.cancel_requested THEN "cancelling" ELSE "running"
  BY DEF Working
<1> QED
  BY <1>3, <1>4, FinishHolds

\* Rows stay paired when more is dropped.
LEMMA PairedMore ==
  ASSUME NEW m, NEW a, NEW L, NEW ab, NEW M, NEW bb, Paired(m, a, L, ab),
         Dropped(L, ab) \subseteq Dropped(M, bb)
  PROVE  Paired(m, a, M, bb)
BY DEF Paired

\* The next call is launched.
LEMMA LaunchHolds ==
  ASSUME NEW ctx, NEW a, NEW n, NEW out, NEW rec, NEW ab, Working(ctx, a, n, out, rec, ab),
         n < Len(ctx.messages[a].calls)
  PROVE  PlanHolds([ctx EXCEPT !.operations = @ \cup {<<ctx.sequence, n + 1>>},
                               !.s.active_operation_id = <<ctx.sequence, n + 1>>,
                               !.s.phase = "bash"], out, rec, ab)
<1> DEFINE m  == ctx.messages
           op == <<ctx.sequence, n + 1>>
           st == [ctx.s EXCEPT !.active_operation_id = op, !.phase = "bash"]
           r  == [ctx EXCEPT !.operations = @ \cup {op}, !.s.active_operation_id = op,
                             !.s.phase = "bash"]
           L  == LaunchedBy(r)
<1>0. /\ m \in Seq(MessageRows) /\ Served(m, a, n) /\ ctx.s \in HarnessStates
      /\ ctx.pending \in Seq(WaitingRows) /\ Len(m) = a + n /\ DOMAIN m = 1 .. a + n
      /\ a \in Nat /\ n \in Nat /\ a \in DOMAIN m
  BY WorkFields
<1>1. /\ ctx \in Contexts /\ ctx.operations = {} /\ sequence \in Nat
      /\ ctx.sequence = sequence + 1
      /\ ctx.s.active_assistant_sequence = a /\ ctx.s.next_tool_index = n
      /\ LaunchesFit(launched, m, out) /\ Past(out, ab, launched, sequence)
      /\ out \subseteq ab /\ NoOperation \notin out
      /\ a \notin Dropped(launched, ab)
      /\ \A o \in DOMAIN launched : launched[o][1] = a => o[2] <= n /\ o \notin out
      /\ ctx.status = IF ctx.s.cancel_requested THEN "cancelling" ELSE "running"
      /\ Longer(messages, m)
  BY DEF Working
<1>2. /\ op \in Operations /\ op[1] = ctx.sequence /\ op[2] = n + 1 /\ op # NoOperation /\ op[2] # 0
      /\ \A o \in Operations : o[1] <= sequence => o # op /\ o[1] < op[1] /\ o[1] <= ctx.sequence
  BY <1>0, <1>1 DEF Operations, NoOperation
<1> HIDE DEF op
<1>3. /\ st \in HarnessStates /\ st.phase = "bash" /\ st.active_operation_id = op
      /\ st.active_assistant_sequence = a /\ st.next_tool_index = n
      /\ st.cancel_requested = ctx.s.cancel_requested
  BY <1>0, <1>1, <1>2 DEF HarnessStates
<1>4. r = [ctx EXCEPT !.operations = @ \cup {op}, !.s = st]
  BY <1>1 DEF Contexts, HarnessStates
<1> HIDE DEF st, r
<1>5. /\ r \in Contexts /\ r.s = st /\ r.messages = m /\ r.pending = ctx.pending
      /\ r.operations = {op} /\ r.sequence = ctx.sequence /\ r.status = ctx.status
  <2>1. {op} \in SUBSET Operations
    BY <1>2
  <2> QED BY <1>1, <1>3, <1>4, <2>1 DEF Contexts
<1>6. op \notin ab /\ op \notin DOMAIN launched /\ op \notin out
  BY <1>1, <1>2 DEF Past
<1>7. /\ L = [o \in DOMAIN L |-> L[o]] /\ DOMAIN L = DOMAIN launched \cup {op}
      /\ L[op] = <<a, n + 1>> /\ \A o \in DOMAIN launched : L[o] = launched[o]
  <2>1. {o \in r.operations : o[2] # 0} = {op} /\ r.s.active_assistant_sequence = a
    BY <1>2, <1>3, <1>5
  <2>2. L = [o \in DOMAIN launched \cup {op} |->
               IF o \in DOMAIN launched THEN launched[o] ELSE <<a, o[2]>>]
    BY <2>1 DEF LaunchedBy
  <2> HIDE DEF L
  <2> QED BY <1>2, <1>6, <2>2
<1> HIDE DEF L
<1>8. /\ L[op] \in Operations /\ L[op][1] = a /\ L[op][2] = n + 1
  <2>1. <<a, n + 1>> \in Operations
    BY <1>0 DEF Operations
  <2> QED BY <1>7, <2>1
<1>9. \A o \in DOMAIN launched : /\ o \in Operations /\ launched[o] \in Operations
                                 /\ o[1] \in Nat /\ o[2] \in Nat /\ o[1] <= sequence
                                 /\ o[2] # 0 /\ launched[o][1] \in DOMAIN m /\ launched[o][2] = o[2]
  <2>1. \A o \in DOMAIN launched : o \in Operations /\ o[1] <= sequence
    BY <1>1 DEF Past
  <2>2. \A o \in Operations : o[1] \in Nat /\ o[2] \in Nat
    BY DEF Operations
  <2> QED BY <1>1, <2>1, <2>2 DEF LaunchesFit
<1>10. \A o \in DOMAIN launched : launched[o][1] = a => launched[o][2] # n + 1 /\ ~(n + 1 < launched[o][2])
  <2> SUFFICES ASSUME NEW o \in DOMAIN launched, launched[o][1] = a
               PROVE  launched[o][2] # n + 1 /\ ~(n + 1 < launched[o][2])
    OBVIOUS
  <2>1. o[2] <= n /\ launched[o][2] = o[2] /\ o[2] \in Nat
    BY <1>1, <1>9
  <2> QED BY <1>0, <2>1
<1>11. LaunchesFit(L, m, out \cup {op})
  <2>1. L \in [DOMAIN L -> Operations]
    <3>1. \A o \in DOMAIN L : L[o] \in Operations
      BY <1>7, <1>8, <1>9
    <3> QED BY <1>7, <3>1
  <2>2. \A o \in DOMAIN L : o[2] # 0 /\ L[o][1] \in DOMAIN m /\ L[o][2] = o[2]
    BY <1>0, <1>2, <1>7, <1>8, <1>9
  <2>3. ASSUME NEW p \in DOMAIN L, NEW q \in DOMAIN L, L[p] = L[q] PROVE p = q
    <3>1. CASE p \in DOMAIN launched /\ q \in DOMAIN launched
      BY <1>1, <1>7, <2>3, <3>1 DEF LaunchesFit
    <3>2. CASE ~(p \in DOMAIN launched /\ q \in DOMAIN launched)
      BY <1>7, <1>8, <1>10, <2>3, <3>2
    <3> QED BY <3>1, <3>2
  <2>4. ASSUME NEW p \in DOMAIN L, NEW q \in DOMAIN L, L[p][1] = L[q][1], L[p][2] < L[q][2]
        PROVE  p[1] < q[1] /\ p \notin out \cup {op}
    <3>1. CASE p \in DOMAIN launched /\ q \in DOMAIN launched
      BY <1>1, <1>6, <1>7, <2>4, <3>1 DEF LaunchesFit
    <3>2. CASE p \in DOMAIN launched /\ q = op
      <4>1. launched[p][1] = a
        BY <1>7, <1>8, <2>4, <3>2
      <4> QED BY <1>1, <1>2, <1>6, <1>9, <3>2, <4>1
    <3>3. CASE p = op
      <4>1. L[p][1] = a /\ L[p][2] = n + 1
        BY <1>8, <3>3
      <4>2. CASE q = op
        BY <1>0, <1>8, <2>4, <4>1, <4>2
      <4>3. CASE q \in DOMAIN launched
        BY <1>7, <1>10, <2>4, <4>1, <4>3
      <4> QED BY <1>7, <4>2, <4>3
    <3> QED BY <1>7, <3>1, <3>2, <3>3
  <2> QED BY <2>1, <2>2, <2>3, <2>4 DEF LaunchesFit
<1>12. Past(out \cup {op}, ab, L, r.sequence)
  <2>1. op[1] <= r.sequence
    BY <1>1, <1>2, <1>5
  <2> QED BY <1>1, <1>2, <1>5, <1>7, <2>1 DEF Past
<1>13. Told(m, L)
  <2> SUFFICES ASSUME NEW i \in DOMAIN m, m[i].role = "tool_result"
               PROVE  (m[i].result = "not_executed")
                        <=> \A o \in DOMAIN L : L[o] # <<i - m[i].index, m[i].index>>
    BY DEF Told
  <2>1. (m[i].result = "not_executed")
          <=> \A o \in DOMAIN launched : launched[o] # <<i - m[i].index, m[i].index>>
    BY DEF Told, Working, Serving
  <2>2. m[i].index \in Nat
    <3>1. m[i] \in MessageRows
      BY <1>0, ElementOfSeq
    <3> QED BY <3>1 DEF MessageRows
  <2>3. L[op] # <<i - m[i].index, m[i].index>>
    <3> SUFFICES ASSUME L[op] = <<i - m[i].index, m[i].index>> PROVE FALSE
      OBVIOUS
    <3>1. i - m[i].index = a /\ m[i].index = n + 1
      BY <1>7
    <3> QED BY <1>0, <2>2, <3>1
  <2> QED BY <1>7, <2>1, <2>3
<1>14. Dropped(L, ab) = Dropped(launched, ab)
  BY <1>6, <1>7 DEF Dropped
<1>15. Paired(m, a, L, ab)
  <2>1. Paired(m, a, launched, ab)
    BY DEF Working, Serving
  <2> QED BY <1>14, <2>1, PairedMore
<1>16. PhaseFits(st, m, out \cup {op}, L, ab)
  <2>1. (out \cup {op}) \ ab = {op} \ {NoOperation}
    BY <1>1, <1>2, <1>6
  <2>2. \A o \in DOMAIN L : L[o][1] = a => o = op \/ (o[2] <= n /\ o \notin out \cup {op})
    BY <1>1, <1>6, <1>7
  <2>3. /\ Served(m, a, n) /\ op \in DOMAIN L /\ L[op] = <<a, n + 1>> /\ n < Len(m[a].calls)
        /\ NoOperation \notin out \cup {op} /\ a \notin Dropped(L, ab)
    BY <1>0, <1>1, <1>2, <1>7, <1>14
  <2> HIDE DEF m
  <2> QED BY <1>2, <1>3, <2>1, <2>2, <2>3 DEF PhaseFits
<1>17. StatusFits(r.s, r.status)
  BY <1>1, <1>3, <1>5 DEF StatusFits
<1>18. /\ r.s \in HarnessStates /\ r.messages \in Seq(MessageRows) /\ r.pending \in Seq(WaitingRows)
       /\ r.status \in HostStatuses /\ r.sequence \in Nat
  BY <1>5, ContextFields
<1>19. Steered(m, ctx.pending, rec, ctx.sequence) /\ Ordered(m, ctx.pending)
  BY DEF Working, Serving
<1>20. Holds(r.s, r.messages, r.pending, r.status, r.sequence, out \cup {op}, rec, L, ab)
  BY <1>3, <1>5, <1>11, <1>12, <1>13, <1>15, <1>16, <1>17, <1>18, <1>19 DEF Holds
<1>21. PlanHolds(r, out, rec, ab)
  BY <1>1, <1>5, <1>20 DEF PlanHolds, L
<1> QED
  BY <1>21 DEF r, op

\* advanceTools: calls that do not parse are refused, the next one is launched or the turn ends.
LEMMA AdvanceHolds ==
  ASSUME NEW ctx, NEW a, NEW n, NEW out, NEW rec, NEW ab, Working(ctx, a, n, out, rec, ab)
  PROVE  PlanHolds(AdvanceTools(ctx), out, rec, ab)
<1> DEFINE m       == ctx.messages
           calls   == m[a].calls
           valid   == {i \in DOMAIN calls : i > n /\ calls[i]}
           stop    == IF valid = {} THEN Len(calls) ELSE Min(valid) - 1
           both    == m \o Refused(n, stop - n)
           refused == [ctx EXCEPT !.messages = both, !.s.next_tool_index = stop]
<1>0. /\ m \in Seq(MessageRows) /\ ctx.s \in HarnessStates
      /\ ctx.pending \in Seq(WaitingRows) /\ Len(m) = a + n /\ DOMAIN m = 1 .. a + n
      /\ a \in Nat /\ n \in Nat /\ a \in DOMAIN m
      /\ Len(calls) \in Nat /\ n <= Len(calls) /\ DOMAIN calls = 1 .. Len(calls)
  BY WorkFields
<1>1. ctx.s.active_assistant_sequence = a /\ ctx.s.next_tool_index = n /\ ctx \in Contexts
  BY DEF Working
<1>2. AdvanceTools(ctx)
        = IF valid = {} THEN FinishTurn(refused, TRUE)
          ELSE [refused EXCEPT !.operations = @ \cup {<<ctx.sequence, stop + 1>>},
                               !.s.active_operation_id = <<ctx.sequence, stop + 1>>,
                               !.s.phase = "bash"]
  BY <1>1 DEF AdvanceTools, CurrentCalls, Refused
<1>3. stop \in n .. Len(calls) /\ (valid = {} <=> stop = Len(calls))
  <2> HIDE DEF calls
  <2>1. valid \subseteq Nat /\ \A i \in valid : i > n /\ i <= Len(calls)
    BY <1>0
  <2> HIDE DEF valid
  <2>2. CASE valid = {}
    BY <1>0, <2>2
  <2>3. CASE valid # {}
    <3> DEFINE v == Min(valid)
    <3>1. v \in valid
      BY <2>1, <2>3, MinFits
    <3>2. v \in Nat /\ v > n /\ v <= Len(calls) /\ stop = v - 1
      BY <2>1, <2>3, <3>1
    <3> HIDE DEF v, stop
    <3> QED BY <1>0, <2>3, <3>2
  <2> QED BY <2>2, <2>3
<1> HIDE DEF stop, valid
<1> DEFINE k == stop - n
           rest == Refused(n, k)
<1>4. k \in Nat /\ stop \in Nat /\ n + k = stop
  BY <1>0, <1>3
<1> HIDE DEF k
<1>5. /\ rest \in Seq(MessageRows) /\ Len(rest) = k /\ DOMAIN rest = 1 .. k
      /\ \A j \in 1 .. k : /\ rest[j].role = "tool_result" /\ rest[j].index = n + j
                            /\ rest[j].result = "not_executed"
  <2>1. n \in Nat /\ k \in Nat
    BY <1>0, <1>4
  <2> QED BY <2>1, RefusedRows
<1>6. Extended(m, rest, both)
  BY <1>0, <1>5, ConcatExtends DEF k
<1> HIDE DEF rest, both
<1>7. Serving(both, ctx.pending, a, stop, launched, rec, ab, ctx.sequence) /\ both[a] = m[a]
  <2>1. Serving(m, ctx.pending, a, n, launched, rec, ab, ctx.sequence)
    BY DEF Working
  <2>2. n + Len(rest) <= Len(m[a].calls) /\ n + Len(rest) = stop
    BY <1>3, <1>4, <1>5
  <2>3. ASSUME NEW j \in DOMAIN rest
        PROVE  \A op \in DOMAIN launched : launched[op] # <<a, n + j>>
    <3> SUFFICES ASSUME NEW op \in DOMAIN launched, launched[op] = <<a, n + j>> PROVE FALSE
      OBVIOUS
    <3>1. launched[op][1] = a /\ launched[op][2] = n + j
      OBVIOUS
    <3>2. op[2] <= n /\ launched[op][2] = op[2]
      BY <3>1 DEF Working, LaunchesFit
    <3> QED BY <1>0, <1>5, <3>1, <3>2
  <2>4. \A j \in DOMAIN rest :
           /\ rest[j].role = "tool_result" /\ rest[j].index = n + j
           /\ (rest[j].result = "not_executed") <=> \A op \in DOMAIN launched : launched[op] # <<a, n + j>>
    BY <1>5, <2>3
  <2>5. /\ Serving(both, ctx.pending, a, n + Len(rest), launched, rec, ab, ctx.sequence)
        /\ both[a] = m[a]
    BY <1>5, <1>6, <2>1, <2>2, <2>4, ServedGoesOn
  <2> QED BY <2>2, <2>5
<1>8. /\ both \in Seq(MessageRows)
      /\ \A i \in DOMAIN m : i \in DOMAIN both /\ both[i] = m[i]
  BY <1>6 DEF Extended
<1>9. /\ refused \in Contexts /\ refused.messages = both /\ refused.pending = ctx.pending
      /\ refused.operations = ctx.operations /\ refused.sequence = ctx.sequence
      /\ refused.status = ctx.status
      /\ refused.s = [ctx.s EXCEPT !.next_tool_index = stop]
  <2> DEFINE st == [ctx.s EXCEPT !.next_tool_index = stop]
  <2>1. st \in HarnessStates
    BY <1>0, <1>4 DEF HarnessStates
  <2>2. refused = [ctx EXCEPT !.messages = both, !.s = st]
    BY <1>1 DEF Contexts, HarnessStates
  <2> HIDE DEF st, refused
  <2>3. /\ refused \in Contexts /\ refused.messages = both /\ refused.pending = ctx.pending
        /\ refused.operations = ctx.operations /\ refused.sequence = ctx.sequence
        /\ refused.status = ctx.status /\ refused.s = st
    BY <1>1, <1>8, <2>1, <2>2 DEF Contexts
  <2> QED BY <2>3 DEF st
<1> HIDE DEF refused
<1>10. /\ refused.s.active_assistant_sequence = a /\ refused.s.next_tool_index = stop
       /\ refused.s.cancel_requested = ctx.s.cancel_requested
  BY <1>0, <1>1, <1>9 DEF HarnessStates
<1>11. LaunchesFit(launched, both, out) /\ Longer(messages, both)
  BY <1>8 DEF LaunchesFit, Longer, Working
<1>12. \A o \in DOMAIN launched : launched[o][1] = a => o[2] <= stop /\ o \notin out
  <2> SUFFICES ASSUME NEW o \in DOMAIN launched, launched[o][1] = a
               PROVE  o[2] <= stop /\ o \notin out
    OBVIOUS
  <2>1. o[2] <= n /\ o \notin out /\ o \in Operations
    BY DEF Working, Past
  <2>2. o[2] \in Nat
    BY <2>1 DEF Operations
  <2> QED BY <1>0, <1>3, <2>1, <2>2
<1>13. Working(refused, a, stop, out, rec, ab)
  BY <1>7, <1>9, <1>10, <1>11, <1>12 DEF Working
<1>14. CASE valid = {}
  <2>1. stop = Len(refused.messages[a].calls)
    <3>1. refused.messages[a].calls = calls
      BY <1>7, <1>9
    <3>2. stop = Len(calls)
      BY <1>3, <1>14
    <3> HIDE DEF calls, refused, stop
    <3> QED BY <3>1, <3>2
  <2> QED BY <1>2, <1>13, <1>14, <2>1, WorkFinished
<1>15. CASE valid # {}
  <2>1. stop < Len(refused.messages[a].calls)
    <3>1. refused.messages[a].calls = calls
      BY <1>7, <1>9
    <3> HIDE DEF calls
    <3>2. stop < Len(calls)
      <4>1. n \in Nat /\ Len(calls) \in Nat
        BY <1>0
      <4> QED BY <1>3, <1>15, <4>1
    <3> HIDE DEF refused, stop
    <3> QED BY <3>1, <3>2, Zenon
  <2>2. PlanHolds([refused EXCEPT !.operations = @ \cup {<<refused.sequence, stop + 1>>},
                                  !.s.active_operation_id = <<refused.sequence, stop + 1>>,
                                  !.s.phase = "bash"], out, rec, ab)
    BY <1>13, <2>1, LaunchHolds
  <2> QED BY <1>2, <1>9, <1>15, <2>2
<1> QED
  BY <1>14, <1>15

-----------------------------------------------------------------------------
(* Handlers                                                                *)

\* Fewer operations are out, and the log has grown.
LEMMA LaunchesStay ==
  ASSUME NEW L, NEW m, NEW out, LaunchesFit(L, m, out),
         NEW longer, Longer(m, longer), NEW fewer, fewer \subseteq out
  PROVE  LaunchesFit(L, longer, fewer)
BY DEF LaunchesFit, Longer

\* The account of messages at the next input.
LEMMA SteeredOn ==
  ASSUME NEW m, NEW p, NEW rec, NEW seq \in Nat, Steered(m, p, rec, seq)
  PROVE  Steered(m, p, rec, seq + 1)
<1>1. 1 .. seq \subseteq 1 .. seq + 1
  OBVIOUS
<1> QED
  BY <1>1 DEF Steered

\* What a handler begins with.
LEMMA ReadFields ==
  ASSUME TurnInv
  PROVE  /\ Read \in Contexts /\ Read.s = s /\ Read.messages = messages /\ Read.pending = pending
         /\ Read.operations = {} /\ Read.status = status /\ Read.sequence = sequence + 1
         /\ s \in HarnessStates /\ sequence \in Nat
         /\ messages \in Seq(MessageRows) /\ pending \in Seq(WaitingRows)
         /\ s.active_operation_id \in Operations
<1>1. /\ s \in HarnessStates /\ messages \in Seq(MessageRows) /\ pending \in Seq(WaitingRows)
      /\ status \in HostStatuses /\ sequence \in Nat
  BY DEF TurnInv, Holds
<1>2. sequence + 1 \in Nat /\ {} \in SUBSET Operations
  BY <1>1
<1>3. s.active_operation_id \in Operations
  BY <1>1 DEF HarnessStates
<1> QED
  BY <1>1, <1>2, <1>3 DEF Read, Contexts

\* What a handler begins with when a run begins.
LEMMA StartFields ==
  ASSUME TurnInv
  PROVE  /\ StartRun(Read) \in Contexts /\ StartRun(Read).messages = messages
         /\ StartRun(Read).pending = pending /\ StartRun(Read).operations = {}
         /\ StartRun(Read).sequence = sequence + 1 /\ StartRun(Read).status = "running"
         /\ ~StartRun(Read).s.cancel_requested
<1> DEFINE st == [Read.s EXCEPT !.run_id = Read.sequence, !.failed = FALSE,
                             !.cancel_requested = FALSE]
<1>1. /\ Read \in Contexts /\ Read.s = s /\ Read.messages = messages /\ Read.pending = pending
      /\ Read.operations = {} /\ Read.sequence = sequence + 1
      /\ s \in HarnessStates /\ sequence \in Nat
  BY ReadFields
<1>2. st \in HarnessStates /\ ~st.cancel_requested
  <2>1. ASSUME NEW u \in HarnessStates, NEW q \in Nat
        PROVE  LET v == [u EXCEPT !.run_id = q, !.failed = FALSE, !.cancel_requested = FALSE]
               IN  v \in HarnessStates /\ ~v.cancel_requested
    BY DEF HarnessStates
  <2>2. Read.s \in HarnessStates /\ Read.sequence \in Nat
    BY <1>1
  <2> QED BY <2>1, <2>2
<1>3. StartRun(Read) = [Read EXCEPT !.status = "running", !.s = st]
  BY DEF StartRun
<1>4. "running" \in HostStatuses
  BY DEF HostStatuses
<1> DEFINE r == StartRun(Read)
<1> HIDE DEF st, r
<1>5. /\ r \in Contexts /\ r.messages = messages /\ r.pending = pending /\ r.operations = {}
      /\ r.sequence = sequence + 1 /\ r.status = "running" /\ r.s = st
  BY <1>1, <1>2, <1>3, <1>4 DEF Contexts, r
<1> QED
  BY <1>2, <1>5 DEF r

\* A handler may drop what is out, and then no call is served.
LEMMA ReadBetween ==
  ASSUME TurnInv, NEW out, out \subseteq open, NEW ab, abandoned \subseteq ab, out \subseteq ab,
         Past({}, ab, launched, sequence),
         s.phase = "bash" => s.active_assistant_sequence \in Dropped(launched, ab),
         NEW g \in Contexts, g.messages = messages, g.pending = pending, g.operations = {},
         g.sequence = sequence + 1
  PROVE  Between(g, out, received, ab)
<1>1. /\ sequence \in Nat /\ messages \in Seq(MessageRows)
      /\ LaunchesFit(launched, messages, open) /\ Past(open, abandoned, launched, sequence)
      /\ Told(messages, launched)
      /\ Paired(messages, s.active_assistant_sequence, launched, abandoned)
      /\ PhaseFits(s, messages, open, launched, abandoned)
      /\ Steered(messages, pending, received, sequence)
      /\ ~(s.phase = "failed" /\ Large(pending)) => Ordered(messages, pending)
  BY DEF TurnInv, Holds
<1>2. Longer(messages, messages)
  BY DEF Longer
<1>3. LaunchesFit(launched, messages, out)
  BY <1>1, <1>2, LaunchesStay
<1>4. Past(out, ab, launched, sequence)
  BY <1>1 DEF Past
<1>5. NoOperation \notin out
  BY <1>1 DEF PhaseFits
<1>6. Paired(messages, s.active_assistant_sequence, launched, ab)
  <2>1. Dropped(launched, abandoned) \subseteq Dropped(launched, ab)
    BY DEF Dropped
  <2> QED BY <1>1, <2>1, PairedMore
<1>7. Paired(messages, 0, launched, ab)
  <2>1. CASE s.phase = "bash"
    <3>1. Served(messages, s.active_assistant_sequence, s.next_tool_index)
      BY <1>1, <2>1 DEF PhaseFits
    <3> QED BY <1>1, <1>6, <2>1, <3>1, ServedCloses
  <2>2. CASE s.phase # "bash"
    <3>1. s.active_assistant_sequence = 0
      BY <1>1, <2>2 DEF PhaseFits
    <3> QED BY <1>6, <3>1
  <2> QED BY <2>1, <2>2
<1>8. Steered(messages, pending, received, sequence + 1)
  BY <1>1, SteeredOn
<1> QED
  BY <1>1, <1>2, <1>3, <1>4, <1>5, <1>7, <1>8 DEF Between

\* A handler that leaves the work of the run alone.
LEMMA PassHolds ==
  ASSUME TurnInv, NEW out, out \subseteq open, s.active_operation_id \notin open \ out,
         NEW g \in Contexts, g.messages = messages, g.operations = {}, g.sequence = sequence + 1,
         g.s.phase = s.phase, g.s.active_operation_id = s.active_operation_id,
         g.s.active_assistant_sequence = s.active_assistant_sequence,
         g.s.next_tool_index = s.next_tool_index, StatusFits(g.s, g.status),
         NEW rec, Steered(messages, g.pending, rec, sequence + 1),
         ~(s.phase = "failed" /\ Large(g.pending)) => Ordered(messages, g.pending),
         s.phase = "idle" => g.pending = <<>>
  PROVE  PlanHolds(g, out, rec, abandoned)
<1>1. /\ sequence \in Nat /\ messages \in Seq(MessageRows)
      /\ LaunchesFit(launched, messages, open) /\ Past(open, abandoned, launched, sequence)
      /\ Told(messages, launched)
      /\ Paired(messages, s.active_assistant_sequence, launched, abandoned)
      /\ PhaseFits(s, messages, open, launched, abandoned)
  BY DEF TurnInv, Holds
<1>2. Longer(messages, messages)
  BY DEF Longer
<1>3. LaunchesFit(launched, messages, out)
  BY <1>1, <1>2, LaunchesStay
<1>4. Past(out, abandoned, launched, sequence + 1)
  <2>1. Past(open, abandoned, launched, sequence + 1)
    BY <1>1, PastGoesOn
  <2> QED BY <2>1 DEF Past
<1>5. LaunchedBy(g) = launched
  BY <1>1, NothingLaunched
<1>6. PhaseFits(g.s, messages, out, launched, abandoned)
  <2>1. out \ abandoned = {s.active_operation_id} \ {NoOperation}
    <3>1. open \ abandoned = {s.active_operation_id} \ {NoOperation}
      BY <1>1 DEF PhaseFits
    <3> QED BY <3>1
  <2> QED BY <1>1, <2>1 DEF PhaseFits
<1>7. /\ g.s \in HarnessStates /\ g.pending \in Seq(WaitingRows)
      /\ g.status \in HostStatuses /\ g.sequence \in Nat
  BY ContextFields
<1>8. out \cup g.operations = out
  OBVIOUS
<1>9. Holds(g.s, g.messages, g.pending, g.status, g.sequence, out, rec, launched, abandoned)
  BY <1>1, <1>3, <1>4, <1>6, <1>7 DEF Holds
<1> QED
  BY <1>2, <1>5, <1>8, <1>9 DEF PlanHolds

\* A plan that is committed.
LEMMA ApplyHolds ==
  ASSUME NEW plan, NEW completed, Apply(plan, completed),
         PlanHolds(plan, open \ completed, received', abandoned')
  PROVE  TurnInv' /\ Longer(messages, messages') /\ reader' = reader
<1>1. /\ s' = plan.s /\ messages' = plan.messages /\ pending' = plan.pending
      /\ status' = plan.status /\ sequence' = plan.sequence
      /\ open' = (open \ completed) \cup plan.operations
      /\ launched' = LaunchedBy(plan) /\ reader' = reader
  BY DEF Apply, LaunchedBy
<1> QED
  BY <1>1 DEF PlanHolds, TurnInv

\* A resume, a cancellation or a completion that changes nothing.
LEMMA ReadHolds ==
  ASSUME TurnInv, NEW out, out \subseteq open, s.active_operation_id \notin open \ out
  PROVE  PlanHolds(Read, out, received, abandoned)
<1>1. /\ Read \in Contexts /\ Read.s = s /\ Read.messages = messages /\ Read.pending = pending
      /\ Read.operations = {} /\ Read.status = status /\ Read.sequence = sequence + 1
      /\ sequence \in Nat
  BY ReadFields
<1>2. /\ StatusFits(s, status) /\ Steered(messages, pending, received, sequence)
      /\ ~(s.phase = "failed" /\ Large(pending)) => Ordered(messages, pending)
      /\ s.phase = "idle" => pending = <<>>
  BY DEF TurnInv, Holds
<1>3. Steered(messages, pending, received, sequence + 1)
  BY <1>1, <1>2, SteeredOn
<1> QED
  BY <1>1, <1>2, <1>3, PassHolds

\* A cancellation is noted.
LEMMA CancelHolds ==
  ASSUME TurnInv, NEW run_id, HandleCancel(run_id)
  PROVE  TurnInv' /\ Longer(messages, messages') /\ reader' = reader /\ received' = received
<1> DEFINE st   == [s EXCEPT !.cancel_requested = TRUE]
           over == [Read EXCEPT !.status = "cancelling", !.s.cancel_requested = TRUE]
           asks == run_id = s.run_id /\ s.phase \in {"llm", "bash"} /\ ~s.cancel_requested
<1>1. /\ Read \in Contexts /\ Read.s = s /\ Read.messages = messages /\ Read.pending = pending
      /\ Read.operations = {} /\ Read.status = status /\ Read.sequence = sequence + 1
      /\ sequence \in Nat /\ s \in HarnessStates
  BY ReadFields
<1>2. received' = received /\ abandoned' = abandoned /\ open \ {} = open
  BY DEF HandleCancel
<1>3. CASE ~asks
  <2>1. Apply(Read, {})
    BY <1>3 DEF HandleCancel
  <2>2. PlanHolds(Read, open \ {}, received', abandoned')
    BY <1>2, ReadHolds
  <2> QED BY <1>2, <2>1, <2>2, ApplyHolds
<1>4. CASE asks
  <2>1. Apply(over, {})
    BY <1>4 DEF HandleCancel
  <2>2. over = [Read EXCEPT !.status = "cancelling", !.s = st]
    BY <1>1 DEF Contexts, HarnessStates
  <2>3. /\ st \in HarnessStates /\ st.phase = s.phase /\ st.cancel_requested
        /\ st.active_operation_id = s.active_operation_id
        /\ st.active_assistant_sequence = s.active_assistant_sequence
        /\ st.next_tool_index = s.next_tool_index
    BY <1>1 DEF HarnessStates
  <2> HIDE DEF st, over
  <2>4. /\ over \in Contexts /\ over.s = st /\ over.messages = messages /\ over.pending = pending
        /\ over.operations = {} /\ over.status = "cancelling" /\ over.sequence = sequence + 1
    BY <1>1, <2>2, <2>3 DEF Contexts, HostStatuses
  <2>5. StatusFits(st, "cancelling")
    BY <1>4, <2>3 DEF StatusFits
  <2>6. /\ Steered(messages, pending, received, sequence)
        /\ ~(s.phase = "failed" /\ Large(pending)) => Ordered(messages, pending)
        /\ s.phase = "idle" => pending = <<>>
    BY DEF TurnInv, Holds
  <2>7. Steered(messages, pending, received, sequence + 1)
    BY <1>1, <2>6, SteeredOn
  <2>8. PlanHolds(over, open, received, abandoned)
    BY <2>3, <2>4, <2>5, <2>6, <2>7, PassHolds
  <2> QED BY <1>2, <2>1, <2>8, ApplyHolds
<1> QED
  BY <1>3, <1>4

\* A session that has stopped goes on.
LEMMA ResumeHolds ==
  ASSUME TurnInv, HandleResume
  PROVE  TurnInv' /\ Longer(messages, messages') /\ reader' = reader /\ received' = received
<1>1. received' = received /\ abandoned' = abandoned /\ open \ {} = open
  BY DEF HandleResume
<1>2. CASE s.phase \notin {"cancelled", "failed"}
  <2>1. Apply(Read, {})
    BY <1>2 DEF HandleResume
  <2>2. PlanHolds(Read, open \ {}, received', abandoned')
    BY <1>1, ReadHolds
  <2> QED BY <1>1, <2>1, <2>2, ApplyHolds
<1>3. CASE s.phase \in {"cancelled", "failed"}
  <2>1. Apply(RequestWithSteering(StartRun(Read)), {})
    BY <1>3 DEF HandleResume
  <2>2. /\ StartRun(Read) \in Contexts /\ StartRun(Read).messages = messages
        /\ StartRun(Read).pending = pending /\ StartRun(Read).operations = {}
        /\ StartRun(Read).sequence = sequence + 1 /\ StartRun(Read).status = "running"
        /\ ~StartRun(Read).s.cancel_requested
    BY StartFields
  <2>3. open \subseteq abandoned /\ Past({}, abandoned, launched, sequence)
    BY <1>3 DEF TurnInv, Holds, PhaseFits, Past
  <2>4. Between(StartRun(Read), open, received, abandoned)
    BY <1>3, <2>2, <2>3, ReadBetween
  <2>5. PlanHolds(RequestWithSteering(StartRun(Read)), open, received, abandoned)
    BY <2>2, <2>4, SteeringHolds
  <2> QED BY <1>1, <2>1, <2>5, ApplyHolds
<1> QED
  BY <1>2, <1>3

\* A run is ended by a message that does not fit, and drops what is out.
LEMMA RefusedMessageHolds ==
  ASSUME TurnInv, NEW g \in Contexts, g.messages = messages, g.pending = pending,
         g.operations = {}, g.sequence = sequence + 1
  PROVE  PlanHolds(Fail(g), open, received, abandoned \cup {s.active_operation_id})
<1> DEFINE ab == abandoned \cup {s.active_operation_id}
<1>1. /\ Past(open, abandoned, launched, sequence)
      /\ PhaseFits(s, messages, open, launched, abandoned) /\ sequence \in Nat
      /\ s.active_operation_id \in Operations
  BY ReadFields DEF TurnInv, Holds
<1>2. open \subseteq ab
  BY <1>1 DEF PhaseFits
<1>3. Past({}, ab, launched, sequence)
  <2>1. s.active_operation_id[1] <= sequence
    <3>1. s.active_operation_id \in open \/ s.active_operation_id = NoOperation
      BY <1>1 DEF PhaseFits
    <3>2. NoOperation[1] = 0
      BY DEF NoOperation
    <3> QED BY <1>1, <3>1, <3>2 DEF Past
  <2> QED BY <1>1, <2>1 DEF Past
<1>4. s.phase = "bash" => s.active_assistant_sequence \in Dropped(launched, ab)
  <2> SUFFICES ASSUME s.phase = "bash" PROVE s.active_assistant_sequence \in Dropped(launched, ab)
    OBVIOUS
  <2> DEFINE op == s.active_operation_id
  <2>1. op \in DOMAIN launched /\ launched[op] = <<s.active_assistant_sequence, s.next_tool_index + 1>>
    BY <1>1 DEF PhaseFits
  <2>2. op \in ab \cap DOMAIN launched /\ launched[op][1] = s.active_assistant_sequence
    BY <2>1
  <2> HIDE DEF ab, op
  <2> QED BY <2>2 DEF Dropped
<1>5. abandoned \subseteq ab
  OBVIOUS
<1> HIDE DEF ab
<1>6. Between(g, open, received, ab)
  BY <1>2, <1>3, <1>4, <1>5, ReadBetween
<1>7. PlanHolds(Fail(g), open, received, ab)
  BY <1>6, FailHolds
<1> QED
  BY <1>7 DEF ab

\* A message is kept: what is known of messages when it waits.
LEMMA WaitingKeeps ==
  ASSUME NEW m, NEW p \in Seq(WaitingRows), NEW rec, NEW seq \in Nat, Steered(m, p, rec, seq),
         NEW message \in WaitingRows, message.event = seq + 1
  PROVE  /\ Append(p, message) \in Seq(WaitingRows)
         /\ Steered(m, Append(p, message), rec \cup {seq + 1}, seq + 1)
         /\ Large(p) => Large(Append(p, message))
         /\ Ordered(m, p) => Ordered(m, Append(p, message))
<1> DEFINE q == Append(p, message)
<1>1. /\ q \in Seq(WaitingRows) /\ Len(p) \in Nat /\ DOMAIN p = 1 .. Len(p)
      /\ DOMAIN q = 1 .. Len(p) + 1 /\ q[Len(p) + 1] = message
      /\ \A i \in DOMAIN p : q[i] = p[i]
  BY AppendProperties, LenProperties
<1>2. /\ \A i \in DOMAIN p : i \in DOMAIN q /\ q[i] = p[i]
      /\ Len(p) + 1 \in DOMAIN q /\ q[Len(p) + 1] = message
      /\ \A i \in DOMAIN q : i \in DOMAIN p \/ i = Len(p) + 1
      /\ \A i \in DOMAIN p : i < Len(p) + 1 /\ ~(Len(p) + 1 < i)
  BY <1>1
<1> HIDE DEF q
<1>3. /\ {m[i].event : i \in Users(m)} \cup {p[j].event : j \in DOMAIN p} = rec
      /\ \A i, j \in DOMAIN p : i < j => p[i].event < p[j].event
      /\ rec \subseteq 1 .. seq
  BY DEF Steered
<1>4. {q[j].event : j \in DOMAIN q} = {p[j].event : j \in DOMAIN p} \cup {seq + 1}
  <2>1. {q[j].event : j \in DOMAIN q} \subseteq {p[j].event : j \in DOMAIN p} \cup {seq + 1}
    BY <1>2
  <2>2. {p[j].event : j \in DOMAIN p} \cup {seq + 1} \subseteq {q[j].event : j \in DOMAIN q}
    BY <1>2
  <2> QED BY <2>1, <2>2
<1>5. /\ \A j \in DOMAIN p : p[j].event \in 1 .. seq
      /\ \A i \in Users(m) : m[i].event \in 1 .. seq
  BY <1>3
<1>6. Steered(m, q, rec \cup {seq + 1}, seq + 1)
  <2>1. {m[i].event : i \in Users(m)} \cup {q[j].event : j \in DOMAIN q} = rec \cup {seq + 1}
    BY <1>3, <1>4
  <2>2. rec \cup {seq + 1} \subseteq 1 .. seq + 1
    BY <1>3
  <2>3. ASSUME NEW i \in DOMAIN q, NEW j \in DOMAIN q, i < j PROVE q[i].event < q[j].event
    <3>1. CASE i \in DOMAIN p /\ j \in DOMAIN p
      BY <1>2, <1>3, <2>3, <3>1
    <3>2. CASE i \in DOMAIN p /\ j = Len(p) + 1
      BY <1>2, <1>5, <3>2
    <3>3. CASE i = Len(p) + 1
      BY <1>1, <1>2, <2>3, <3>3
    <3> QED BY <1>2, <3>1, <3>2, <3>3
  <2> QED BY <2>1, <2>2, <2>3 DEF Steered
<1>7. Large(p) => Large(q)
  BY <1>2 DEF Large
<1>8. Ordered(m, p) => Ordered(m, q)
  <2> SUFFICES ASSUME Ordered(m, p), NEW i \in Users(m), NEW j \in DOMAIN q
               PROVE  m[i].event < q[j].event
    BY DEF Ordered
  <2>1. CASE j \in DOMAIN p
    BY <1>2, <2>1 DEF Ordered
  <2>2. CASE j = Len(p) + 1
    BY <1>2, <1>5, <2>2
  <2> QED BY <1>2, <2>1, <2>2
<1> QED
  BY <1>1, <1>6, <1>7, <1>8 DEF q

\* A message is kept: what is known of messages when it enters.
LEMMA EnteringKeeps ==
  ASSUME NEW m \in Seq(MessageRows), NEW rec, NEW seq \in Nat, Steered(m, <<>>, rec, seq),
         Ordered(m, <<>>), NEW row \in MessageRows, row.role = "user", row.event = seq + 1,
         NEW both, Extended(m, <<row>>, both)
  PROVE  Steered(both, <<>>, rec \cup {seq + 1}, seq + 1) /\ Ordered(both, <<>>)
<1>1. /\ \A i \in DOMAIN m : i \in DOMAIN both /\ both[i] = m[i]
      /\ Len(m) + 1 \in DOMAIN both /\ both[Len(m) + 1] = row
      /\ \A i \in DOMAIN both : i \in DOMAIN m \/ i = Len(m) + 1
      /\ Len(m) \in Nat /\ DOMAIN m = 1 .. Len(m)
  BY DEF Extended
<1>2. /\ \A i \in Users(m) : i \in Users(both) /\ both[i].event = m[i].event /\ i \in 1 .. Len(m)
      /\ Len(m) + 1 \in Users(both) /\ both[Len(m) + 1].event = seq + 1
      /\ \A i \in Users(both) : i \in Users(m) \/ i = Len(m) + 1
  BY <1>1 DEF Users
<1>3. /\ {m[i].event : i \in Users(m)} \cup {<<>>[j].event : j \in DOMAIN <<>>} = rec
      /\ rec \subseteq 1 .. seq
  BY DEF Steered
<1>4. DOMAIN <<>> = {} /\ {<<>>[j].event : j \in DOMAIN <<>>} = {}
  OBVIOUS
<1>5. {both[i].event : i \in Users(both)} = {m[i].event : i \in Users(m)} \cup {seq + 1}
  <2>1. {both[i].event : i \in Users(both)} \subseteq {m[i].event : i \in Users(m)} \cup {seq + 1}
    BY <1>2
  <2>2. {m[i].event : i \in Users(m)} \cup {seq + 1} \subseteq {both[i].event : i \in Users(both)}
    BY <1>2
  <2> QED BY <2>1, <2>2
<1>6. \A i \in Users(m) : m[i].event \in 1 .. seq
  BY <1>3
<1>7. {both[i].event : i \in Users(both)} \cup {<<>>[j].event : j \in DOMAIN <<>>} = rec \cup {seq + 1}
  <2> DEFINE old == {m[i].event : i \in Users(m)}
             new == {both[i].event : i \in Users(both)}
             none == {<<>>[j].event : j \in DOMAIN <<>>}
  <2>1. old \cup none = rec /\ none = {} /\ new = old \cup {seq + 1}
    BY <1>3, <1>4, <1>5
  <2> HIDE DEF old, new, none
  <2>2. new \cup none = rec \cup {seq + 1}
    BY <2>1
  <2> QED BY <2>2 DEF new, none
<1>8. rec \cup {seq + 1} \subseteq 1 .. seq + 1
  <2>1. rec \subseteq 1 .. seq /\ 1 .. seq \subseteq 1 .. seq + 1 /\ seq + 1 \in 1 .. seq + 1
    BY DEF Steered
  <2> QED BY <2>1
<1>9. ASSUME NEW i \in Users(both), NEW j \in Users(both), i < j
      PROVE  both[i].event < both[j].event
  <2>1. CASE i \in Users(m) /\ j \in Users(m)
    BY <1>2, <1>9, <2>1 DEF Ordered
  <2>2. CASE i \in Users(m) /\ j = Len(m) + 1
    <3>1. both[i].event \in 1 .. seq
      BY <1>2, <1>6, <2>2
    <3>2. both[j].event = seq + 1
      BY <1>2, <2>2
    <3> QED BY <3>1, <3>2
  <2>3. CASE i = Len(m) + 1
    BY <1>1, <1>2, <1>9, <2>3
  <2> QED BY <1>2, <2>1, <2>2, <2>3
<1> QED
  BY <1>4, <1>7, <1>8, <1>9 DEF Steered, Ordered

\* A log with one row more.
LEMMA AppendExtends ==
  ASSUME NEW m \in Seq(MessageRows), NEW row \in MessageRows
  PROVE  /\ Extended(m, <<row>>, Append(m, row)) /\ <<row>> \in Seq(MessageRows)
         /\ Len(<<row>>) = 1 /\ DOMAIN <<row>> = 1 .. 1 /\ <<row>>[1] = row
<1>1. <<row>> \in Seq(MessageRows) /\ Len(<<row>>) = 1 /\ DOMAIN <<row>> = 1 .. 1 /\ <<row>>[1] = row
  OBVIOUS
<1>2. Append(m, row) = m \o <<row>>
  BY AppendIsConcat
<1> QED
  BY <1>1, <1>2, ConcatExtends

\* A message begins a run.
LEMMA BeginHolds ==
  ASSUME TurnInv, s.phase = "idle", NEW message \in WaitingRows, message.event = sequence + 1
  PROVE  PlanHolds(RequestLlm([StartRun(Read) EXCEPT !.messages = Append(@, UserMessage(message))]),
                   open, received \cup {sequence + 1}, abandoned)
<1> DEFINE row   == UserMessage(message)
           both  == Append(messages, row)
           start == StartRun(Read)
           g     == [start EXCEPT !.messages = Append(@, row)]
<1>1. row \in MessageRows /\ row.role = "user" /\ row.event = sequence + 1
  BY DEF UserMessage, MessageRows, WaitingRows
<1> HIDE DEF row
<1>2. /\ start \in Contexts /\ start.messages = messages /\ start.pending = pending
      /\ start.operations = {} /\ start.sequence = sequence + 1 /\ start.status = "running"
      /\ ~start.s.cancel_requested /\ messages \in Seq(MessageRows) /\ sequence \in Nat
  BY StartFields, ReadFields
<1> HIDE DEF start
<1>3. Extended(messages, <<row>>, both) /\ <<row>> \in Seq(MessageRows) /\ DOMAIN <<row>> = 1 .. 1 /\ <<row>>[1] = row
  BY <1>1, <1>2, AppendExtends
<1>4. g = [start EXCEPT !.messages = both]
  BY <1>2 DEF Contexts
<1> HIDE DEF both, g
<1>5. /\ both \in Seq(MessageRows) /\ Longer(messages, both)
  BY <1>3 DEF Extended, Longer
<1>6. /\ g \in Contexts /\ g.messages = both /\ g.pending = pending /\ g.operations = {}
      /\ g.sequence = sequence + 1 /\ g.status = "running" /\ g.s = start.s
  BY <1>2, <1>4, <1>5 DEF Contexts
<1>7. /\ open \subseteq abandoned /\ NoOperation \notin open /\ s.active_assistant_sequence = 0
      /\ LaunchesFit(launched, messages, open) /\ Past(open, abandoned, launched, sequence)
      /\ Told(messages, launched) /\ Paired(messages, 0, launched, abandoned)
      /\ pending = <<>> /\ Steered(messages, <<>>, received, sequence) /\ Ordered(messages, <<>>)
  BY DEF TurnInv, Holds, PhaseFits
<1>8. /\ Steered(both, <<>>, received \cup {sequence + 1}, sequence + 1)
      /\ Ordered(both, <<>>)
  BY <1>1, <1>2, <1>3, <1>7, EnteringKeeps
<1>9. Paired(both, 0, launched, abandoned) /\ Told(both, launched)
  <2>1. /\ \A j \in DOMAIN <<row>> : <<row>>[j].role # "tool_result"
        /\ \A j \in DOMAIN <<row>> : <<row>>[j].role = "assistant" => Len(messages) + j = 0
    BY <1>1, <1>3
  <2>2. 0 \in Nat
    OBVIOUS
  <2> QED BY <1>2, <1>3, <1>7, <2>1, <2>2, PlainJoined
<1>10. LaunchesFit(launched, both, open)
  BY <1>5, <1>7, LaunchesStay
<1>11. Between(g, open, received \cup {sequence + 1}, abandoned) /\ Ordered(g.messages, g.pending)
  BY <1>2, <1>5, <1>6, <1>7, <1>8, <1>9, <1>10 DEF Between
<1>12. PlanHolds(RequestLlm(g), open, received \cup {sequence + 1}, abandoned)
  BY <1>2, <1>6, <1>11, RequestHolds
<1> QED
  BY <1>12 DEF g, start, row

\* A message begins a run, waits or fails the run.
LEMMA MessageHolds ==
  ASSUME TurnInv, NEW size \in Sizes, HandleMessage(size)
  PROVE  /\ TurnInv' /\ Longer(messages, messages') /\ reader' = reader
         /\ \/ received' = received
            \/ received' = received \cup {sequence + 1}
<1> DEFINE message == [event |-> sequence + 1, size |-> size]
           fits == IF s.phase = "idle" THEN MayEnter(size) ELSE MayWait(size)
           wait == [Read EXCEPT !.pending = Append(@, message)]
<1>1. /\ Read \in Contexts /\ Read.s = s /\ Read.messages = messages /\ Read.pending = pending
      /\ Read.operations = {} /\ Read.status = status /\ Read.sequence = sequence + 1
      /\ sequence \in Nat /\ s \in HarnessStates /\ pending \in Seq(WaitingRows)
  BY ReadFields
<1>2. message \in WaitingRows /\ message.event = sequence + 1
  <2>1. size \in Nat
    BY MinimalBashAssumption
  <2> QED BY <1>1, <2>1 DEF WaitingRows
<1>3. /\ received' = IF fits THEN received \cup {sequence + 1} ELSE received
      /\ abandoned' = IF ~fits THEN abandoned \cup {s.active_operation_id} ELSE abandoned
  BY DEF HandleMessage
<1>4. Apply(IF s.phase = "idle"
            THEN IF fits THEN RequestLlm([StartRun(Read) EXCEPT !.messages = Append(@, UserMessage(message))])
                 ELSE Fail(StartRun(Read))
            ELSE IF fits THEN wait ELSE Fail(Read), {})
  BY DEF HandleMessage
<1> HIDE DEF fits, message
<1>5. CASE ~fits
  <2>1. /\ StartRun(Read) \in Contexts /\ StartRun(Read).messages = messages
        /\ StartRun(Read).pending = pending /\ StartRun(Read).operations = {}
        /\ StartRun(Read).sequence = sequence + 1
    BY StartFields
  <2>2. /\ PlanHolds(Fail(StartRun(Read)), open, received, abandoned \cup {s.active_operation_id})
        /\ PlanHolds(Fail(Read), open, received, abandoned \cup {s.active_operation_id})
    BY <1>1, <2>1, RefusedMessageHolds
  <2>3. /\ received' = received /\ abandoned' = abandoned \cup {s.active_operation_id}
        /\ open \ {} = open
    BY <1>3, <1>5
  <2>4. Apply(Fail(StartRun(Read)), {}) \/ Apply(Fail(Read), {})
    BY <1>4, <1>5
  <2> QED BY <2>2, <2>3, <2>4, ApplyHolds
<1>6. CASE fits /\ s.phase = "idle"
  <2> DEFINE plan == RequestLlm([StartRun(Read) EXCEPT !.messages = Append(@, UserMessage(message))])
  <2>1. PlanHolds(plan, open, received \cup {sequence + 1}, abandoned)
    BY <1>2, <1>6, BeginHolds
  <2>2. Apply(plan, {})
    BY <1>4, <1>6
  <2> HIDE DEF plan
  <2>3. received' = received \cup {sequence + 1} /\ abandoned' = abandoned /\ open \ {} = open
    BY <1>3, <1>6
  <2> QED BY <2>1, <2>2, <2>3, ApplyHolds
<1>7. CASE fits /\ s.phase # "idle"
  <2>1. /\ Steered(messages, pending, received, sequence) /\ StatusFits(s, status)
        /\ ~(s.phase = "failed" /\ Large(pending)) => Ordered(messages, pending)
    BY DEF TurnInv, Holds
  <2>2. /\ Append(pending, message) \in Seq(WaitingRows)
        /\ Steered(messages, Append(pending, message), received \cup {sequence + 1}, sequence + 1)
        /\ Large(pending) => Large(Append(pending, message))
        /\ Ordered(messages, pending) => Ordered(messages, Append(pending, message))
    BY <1>1, <1>2, <2>1, WaitingKeeps
  <2>3. /\ wait \in Contexts /\ wait.s = s /\ wait.messages = messages
        /\ wait.pending = Append(pending, message) /\ wait.operations = {}
        /\ wait.status = status /\ wait.sequence = sequence + 1
    BY <1>1, <2>2 DEF Contexts
  <2>4. Apply(wait, {})
    BY <1>4, <1>7
  <2> HIDE DEF wait
  <2>5. ~(s.phase = "failed" /\ Large(wait.pending)) => Ordered(messages, wait.pending)
    BY <2>1, <2>2, <2>3
  <2>6. PlanHolds(wait, open, received \cup {sequence + 1}, abandoned)
    BY <1>7, <2>1, <2>2, <2>3, <2>5, PassHolds
  <2>7. received' = received \cup {sequence + 1} /\ abandoned' = abandoned /\ open \ {} = open
    BY <1>3, <1>7
  <2> QED BY <2>4, <2>6, <2>7, ApplyHolds
<1> QED
  BY <1>5, <1>6, <1>7

\* A response is stored: nothing of it is done, and all it launched is to come.
Stored(log, a, calls, out) ==
  /\ Serving(log, pending, a, 0, launched, received, abandoned, sequence + 1)
  /\ log[a].calls = calls /\ a = Len(log) /\ a \in Nat
  /\ LaunchesFit(launched, log, out) /\ Longer(messages, log)
  /\ a \notin Dropped(launched, abandoned)
  /\ \A o \in DOMAIN launched : launched[o][1] # a

\* A response is added to the log.
LEMMA ResponseStored ==
  ASSUME TurnInv, s.phase = "llm", NEW out, out \subseteq open,
         NEW calls \in Seq(BOOLEAN), NEW in_context \in BOOLEAN
  PROVE  Stored(Append(messages, AssistantMessage(calls, in_context)), Len(messages) + 1, calls, out)
<1> DEFINE row  == AssistantMessage(calls, in_context)
           both == Append(messages, row)
           a    == Len(messages) + 1
<1>1. row \in MessageRows /\ row.role = "assistant" /\ row.calls = calls
  BY RowsFit
<1> HIDE DEF row
<1>2. /\ messages \in Seq(MessageRows) /\ sequence \in Nat
      /\ Len(messages) \in Nat /\ DOMAIN messages = 1 .. Len(messages)
  BY ReadFields, LenProperties
<1>3. Extended(messages, <<row>>, both) /\ <<row>> \in Seq(MessageRows) /\ DOMAIN <<row>> = 1 .. 1 /\ <<row>>[1] = row
  BY <1>1, <1>2, AppendExtends
<1> HIDE DEF both
<1>4. /\ both \in Seq(MessageRows) /\ Longer(messages, both) /\ a \in DOMAIN both
      /\ both[a] = row /\ Len(both) = a
  BY <1>2, <1>3 DEF Extended, Longer
<1>5. /\ LaunchesFit(launched, messages, open) /\ Told(messages, launched)
      /\ Paired(messages, 0, launched, abandoned)
      /\ Steered(messages, pending, received, sequence) /\ Ordered(messages, pending)
  BY DEF TurnInv, Holds, PhaseFits
<1>6. Paired(both, a, launched, abandoned) /\ Told(both, launched)
  <2>1. /\ \A j \in DOMAIN <<row>> : <<row>>[j].role # "tool_result"
        /\ \A j \in DOMAIN <<row>> : <<row>>[j].role = "assistant" => Len(messages) + j = a
    BY <1>1, <1>3
  <2>2. a \in Nat
    BY <1>2
  <2> HIDE DEF a
  <2> QED BY <1>2, <1>3, <1>5, <2>1, <2>2, PlainJoined
<1>7. Steered(both, pending, received, sequence + 1) /\ Ordered(both, pending)
  <2>1. \A j \in DOMAIN <<row>> : <<row>>[j].role # "user"
    BY <1>1, <1>3
  <2>2. Steered(messages, pending, received, sequence + 1)
    BY <1>2, <1>5, SteeredOn
  <2> QED BY <1>2, <1>3, <1>5, <2>1, <2>2, SteeredJoined
<1>8. LaunchesFit(launched, both, out)
  BY <1>4, <1>5, LaunchesStay
<1>9. \A o \in DOMAIN launched : launched[o][1] # a
  <2>1. \A o \in DOMAIN launched : launched[o][1] \in DOMAIN messages
    BY <1>5 DEF LaunchesFit
  <2>2. a \notin DOMAIN messages
    BY <1>2
  <2> QED BY <2>1, <2>2
<1>10. a \notin Dropped(launched, abandoned)
  BY <1>9 DEF Dropped
<1>11. Len(both[a].calls) \in Nat /\ both[a].calls = calls /\ a \in Nat
  BY <1>1, <1>2, <1>4, LenProperties
<1>12. Served(both, a, 0)
  <2>1. 0 \in 0 .. Len(both[a].calls) /\ Len(both) = a + 0 /\ 1 .. 0 = {}
    BY <1>4, <1>11
  <2> HIDE DEF a
  <2> QED BY <1>1, <1>4, <2>1 DEF Served
<1> HIDE DEF a
<1>13. Stored(both, a, calls, out)
  BY <1>4, <1>6, <1>7, <1>8, <1>9, <1>10, <1>11, <1>12 DEF Stored, Serving
<1> QED
  BY <1>13 DEF both, row, a

\* A response without calls leaves no call to serve.
LEMMA TextBetween ==
  ASSUME TurnInv, s.phase = "llm", NEW out, out \subseteq open, out \subseteq abandoned,
         NEW log, NEW a, Stored(log, a, <<>>, out),
         NEW g \in Contexts, g.messages = log, g.pending = pending, g.operations = {},
         g.sequence = sequence + 1
  PROVE  Between(g, out, received, abandoned) /\ Ordered(g.messages, g.pending)
<1>1. /\ log \in Seq(MessageRows) /\ Served(log, a, 0) /\ Paired(log, a, launched, abandoned)
      /\ Told(log, launched) /\ Steered(log, pending, received, sequence + 1) /\ Ordered(log, pending)
      /\ log[a].calls = <<>> /\ LaunchesFit(launched, log, out) /\ Longer(messages, log)
  BY DEF Stored, Serving
<1>2. Paired(log, 0, launched, abandoned)
  <2>1. 0 = Len(log[a].calls)
    BY <1>1, EmptySeq
  <2> QED BY <1>1, <2>1, ServedCloses
<1>3. /\ Past(open, abandoned, launched, sequence) /\ NoOperation \notin open /\ sequence \in Nat
  BY DEF TurnInv, Holds, PhaseFits
<1>4. Past(out, abandoned, launched, sequence)
  BY <1>3 DEF Past
<1> QED
  BY <1>1, <1>2, <1>3, <1>4 DEF Between

\* A completion of the operation that is waited for leaves out only what was dropped.
LEMMA AwaitedOut ==
  ASSUME TurnInv, NEW operation \in open, Awaited(operation)
  PROVE  /\ open \ {operation} \subseteq abandoned /\ operation \notin abandoned
         /\ operation = s.active_operation_id
         /\ operation[2] = 0 => s.phase = "llm"
         /\ operation[2] # 0 => s.phase = "bash"
<1>1. /\ LaunchesFit(launched, messages, open)
      /\ PhaseFits(s, messages, open, launched, abandoned) /\ operation = s.active_operation_id
  BY DEF TurnInv, Holds, Awaited
<1>2. /\ open \ abandoned = {operation} \ {NoOperation} /\ operation # NoOperation
      /\ s.phase \in {"llm", "bash"}
  BY <1>1 DEF PhaseFits
<1>3. s.phase = "bash" => operation[2] # 0
  BY <1>1 DEF PhaseFits, LaunchesFit
<1>4. s.phase = "llm" => operation[2] = 0
  BY <1>1 DEF PhaseFits
<1> QED
  BY <1>1, <1>2, <1>3, <1>4

\* completeLlm: the response is stored, and its calls are served.
LEMMA LlmHolds ==
  ASSUME TurnInv, NEW operation \in open, operation[2] = 0, Awaited(operation),
         NEW outcome \in LlmOutcomes
  PROVE  PlanHolds(CompleteLlm(Read, outcome), open \ {operation}, received, abandoned)
<1> DEFINE out  == open \ {operation}
           inc  == outcome.kind = "succeeded"
           row  == AssistantMessage(outcome.calls, inc)
           log  == Append(messages, row)
           st   == [s EXCEPT !.active_operation_id = NoOperation]
           kept == [Read EXCEPT !.messages = Append(@, row), !.s.active_operation_id = NoOperation]
           work == [kept EXCEPT !.s.active_assistant_sequence = Len(kept.messages),
                                !.s.next_tool_index = 0]
<1>1. /\ Read \in Contexts /\ Read.s = s /\ Read.messages = messages /\ Read.pending = pending
      /\ Read.operations = {} /\ Read.status = status /\ Read.sequence = sequence + 1
      /\ sequence \in Nat /\ s \in HarnessStates /\ messages \in Seq(MessageRows)
  BY ReadFields
<1>2. out \subseteq abandoned /\ out \subseteq open /\ s.phase = "llm"
  BY AwaitedOut
<1>3. /\ outcome.kind \in {"failed", "excluded", "succeeded"} /\ outcome.calls \in Seq(BOOLEAN)
      /\ outcome.kind = "excluded" => outcome.calls = <<>>
  <2>1. Batches \subseteq Seq(BOOLEAN) /\ <<>> \in Seq(BOOLEAN)
    BY MinimalBashAssumption, EmptySeq
  <2> QED BY <2>1 DEF LlmOutcomes
<1>4. CompleteLlm(Read, outcome)
        = IF outcome.kind = "failed" THEN Fail(Read)
          ELSE IF outcome.kind = "excluded" THEN Fail(kept)
          ELSE IF outcome.calls = <<>> THEN FinishTurn(kept, FALSE)
          ELSE AdvanceTools(work)
  BY DEF CompleteLlm
<1> HIDE DEF out
<1>5. Stored(log, Len(messages) + 1, outcome.calls, out)
  BY <1>2, <1>3, ResponseStored
<1>6. /\ st \in HarnessStates /\ st.cancel_requested = s.cancel_requested
  BY <1>1 DEF HarnessStates, NoOperation, Operations
<1>7. kept = [Read EXCEPT !.messages = log, !.s = st]
  BY <1>1 DEF Contexts, HarnessStates
<1>8. log \in Seq(MessageRows)
  BY <1>5 DEF Stored, Serving
<1> HIDE DEF log, st, kept
<1>9. /\ kept \in Contexts /\ kept.messages = log /\ kept.pending = pending /\ kept.operations = {}
      /\ kept.sequence = sequence + 1 /\ kept.status = status /\ kept.s = st
  BY <1>1, <1>6, <1>7, <1>8 DEF Contexts
<1>10. status = IF s.cancel_requested THEN "cancelling" ELSE "running"
  BY <1>2 DEF TurnInv, Holds, StatusFits
<1>11. ASSUME outcome.calls = <<>>
       PROVE  Between(kept, out, received, abandoned) /\ Ordered(kept.messages, kept.pending)
  <2>1. Stored(log, Len(messages) + 1, <<>>, out)
    BY <1>5, <1>11
  <2> QED BY <1>2, <1>9, <2>1, TextBetween
<1>12. CASE outcome.kind = "failed"
  <2>1. Past({}, abandoned, launched, sequence)
    BY DEF TurnInv, Holds, Past
  <2>2. Between(Read, out, received, abandoned)
    BY <1>1, <1>2, <2>1, ReadBetween
  <2>3. PlanHolds(Fail(Read), out, received, abandoned)
    BY <2>2, FailHolds
  <2> QED BY <1>4, <1>12, <2>3 DEF out
<1>13. CASE outcome.kind = "excluded"
  <2>1. PlanHolds(Fail(kept), out, received, abandoned)
    BY <1>3, <1>11, <1>13, FailHolds
  <2> QED BY <1>4, <1>13, <2>1 DEF out
<1>14. CASE outcome.kind = "succeeded" /\ outcome.calls = <<>>
  <2>1. PlanHolds(FinishTurn(kept, FALSE), out, received, abandoned)
    BY <1>6, <1>9, <1>10, <1>11, <1>14, FinishHolds
  <2> QED BY <1>4, <1>14, <2>1 DEF out
<1>15. CASE outcome.kind = "succeeded" /\ outcome.calls # <<>>
  <2> DEFINE a    == Len(messages) + 1
             over == [st EXCEPT !.active_assistant_sequence = a, !.next_tool_index = 0]
  <2>1. Len(kept.messages) = a /\ a \in Nat
    BY <1>5, <1>9 DEF Stored
  <2>2. work = [kept EXCEPT !.s = over]
    BY <1>6, <1>9, <2>1 DEF Contexts, HarnessStates
  <2> HIDE DEF a, work
  <2>3. /\ over \in HarnessStates /\ over.cancel_requested = s.cancel_requested
        /\ over.active_assistant_sequence = a /\ over.next_tool_index = 0
    BY <1>6, <2>1 DEF HarnessStates
  <2> HIDE DEF over
  <2>4. /\ work \in Contexts /\ work.messages = log /\ work.pending = pending /\ work.operations = {}
        /\ work.sequence = sequence + 1 /\ work.status = status /\ work.s = over
    BY <1>9, <2>2, <2>3 DEF Contexts
  <2>5. Stored(log, a, outcome.calls, out)
    BY <1>5 DEF a
  <2>6. Past(out, abandoned, launched, sequence) /\ NoOperation \notin out
    BY <1>2 DEF TurnInv, Holds, PhaseFits, Past
  <2>7. Working(work, a, 0, out, received, abandoned)
    BY <1>1, <1>2, <1>10, <2>3, <2>4, <2>5, <2>6 DEF Working, Stored
  <2>8. PlanHolds(AdvanceTools(work), out, received, abandoned)
    BY <2>7, AdvanceHolds
  <2> QED BY <1>4, <1>15, <2>8 DEF out
<1> QED
  BY <1>3, <1>12, <1>13, <1>14, <1>15

\* The call at work is answered.
LEMMA CallAnswered ==
  ASSUME TurnInv, NEW operation \in open, operation[2] # 0, Awaited(operation),
         NEW result \in {"ran", "unknown"}, NEW a, a = s.active_assistant_sequence,
         NEW n, n = s.next_tool_index
  PROVE  /\ Serving(Append(messages, ToolResult(n + 1, result)), pending, a, n + 1,
                    launched, received, abandoned, sequence + 1)
         /\ Append(messages, ToolResult(n + 1, result))[a].calls = messages[a].calls
         /\ Longer(messages, Append(messages, ToolResult(n + 1, result)))
         /\ n + 1 <= Len(messages[a].calls) /\ n \in Nat
<1> DEFINE row  == ToolResult(n + 1, result)
           both == Append(messages, row)
<1>1. /\ messages \in Seq(MessageRows) /\ sequence \in Nat /\ s \in HarnessStates
  BY ReadFields
<1>2. n \in Nat /\ n + 1 \in Nat
  BY <1>1 DEF HarnessStates
<1>3. /\ row \in MessageRows /\ row.role = "tool_result" /\ row.index = n + 1
      /\ row.result # "not_executed"
  BY <1>2, RowsFit
<1> HIDE DEF row
<1>4. /\ Extended(messages, <<row>>, both) /\ <<row>> \in Seq(MessageRows) /\ Len(<<row>>) = 1
      /\ DOMAIN <<row>> = 1 .. 1 /\ <<row>>[1] = row
  BY <1>1, <1>3, AppendExtends
<1> HIDE DEF both
<1>5. s.phase = "bash" /\ operation = s.active_operation_id
  BY AwaitedOut
<1>6. /\ Served(messages, a, n) /\ operation \in DOMAIN launched /\ launched[operation] = <<a, n + 1>>
      /\ n < Len(messages[a].calls)
  BY <1>5 DEF TurnInv, Holds, PhaseFits
<1>7. /\ Told(messages, launched) /\ Paired(messages, a, launched, abandoned)
      /\ Steered(messages, pending, received, sequence) /\ Ordered(messages, pending)
  BY <1>5 DEF TurnInv, Holds
<1>8. Serving(messages, pending, a, n, launched, received, abandoned, sequence + 1)
  <2>1. Steered(messages, pending, received, sequence + 1)
    BY <1>1, <1>7, SteeredOn
  <2> QED BY <1>1, <1>6, <1>7, <2>1 DEF Serving
<1>9. n + 1 <= Len(messages[a].calls)
  <2>1. a \in DOMAIN messages /\ messages[a].role = "assistant"
    BY <1>6 DEF Served
  <2>2. messages[a] \in MessageRows
    BY <1>1, <2>1, ElementOfSeq
  <2>3. messages[a].calls \in Seq(BOOLEAN)
    BY <2>1, <2>2 DEF MessageRows
  <2>4. Len(messages[a].calls) \in Nat
    BY <2>3, LenProperties
  <2> QED BY <1>2, <1>6, <2>4
<1>10. \A j \in DOMAIN <<row>> :
         /\ <<row>>[j].role = "tool_result" /\ <<row>>[j].index = n + j
         /\ (<<row>>[j].result = "not_executed") <=> \A op \in DOMAIN launched : launched[op] # <<a, n + j>>
  <2> SUFFICES ASSUME NEW j \in DOMAIN <<row>>
               PROVE  /\ <<row>>[j].role = "tool_result" /\ <<row>>[j].index = n + j
                      /\ (<<row>>[j].result = "not_executed")
                           <=> \A op \in DOMAIN launched : launched[op] # <<a, n + j>>
    OBVIOUS
  <2>1. j = 1
    BY <1>4
  <2> QED BY <1>3, <1>4, <1>6, <2>1
<1>11. Serving(both, pending, a, n + Len(<<row>>), launched, received, abandoned, sequence + 1)
       /\ both[a] = messages[a]
  <2>1. n + Len(<<row>>) <= Len(messages[a].calls)
    BY <1>4, <1>9
  <2> DEFINE rest == <<row>>
  <2>2. /\ rest \in Seq(MessageRows) /\ Extended(messages, rest, both)
        /\ n + Len(rest) <= Len(messages[a].calls)
        /\ \A j \in DOMAIN rest :
             /\ rest[j].role = "tool_result" /\ rest[j].index = n + j
             /\ (rest[j].result = "not_executed") <=> \A op \in DOMAIN launched : launched[op] # <<a, n + j>>
    BY <1>4, <1>10, <2>1
  <2> HIDE DEF rest
  <2>3. /\ Serving(both, pending, a, n + Len(rest), launched, received, abandoned, sequence + 1)
        /\ both[a] = messages[a]
    BY <1>8, <2>2, ServedGoesOn
  <2> QED BY <2>3 DEF rest
<1>12. Longer(messages, both)
  BY <1>4 DEF Extended, Longer
<1>13. Serving(both, pending, a, n + 1, launched, received, abandoned, sequence + 1)
  BY <1>4, <1>11
<1> QED
  BY <1>2, <1>9, <1>11, <1>12, <1>13 DEF both, row

\* The calls after an uncertain one are skipped, and the run has failed.
LEMMA SkippedBetween ==
  ASSUME NEW log, NEW a, NEW n, NEW count, NEW out, NEW g \in Contexts,
         Serving(log, pending, a, n, launched, received, abandoned, sequence + 1),
         Longer(messages, log), count = Len(log[a].calls), n <= count, n \in Nat,
         g.messages = log \o Refused(n, count - n), g.pending = pending, g.operations = {},
         g.sequence = sequence + 1, sequence \in Nat,
         LaunchesFit(launched, messages, out), Past(out, abandoned, launched, sequence),
         out \subseteq abandoned, NoOperation \notin out,
         \A o \in DOMAIN launched : launched[o][1] = a => o[2] <= n
  PROVE  Between(g, out, received, abandoned)
<1> DEFINE k    == count - n
           rest == Refused(n, k)
           both == log \o rest
<1>1. /\ log \in Seq(MessageRows) /\ a \in DOMAIN log /\ log[a].role = "assistant"
  BY DEF Serving, Served
<1>2. count \in Nat
  <2>1. log[a] \in MessageRows
    BY <1>1, ElementOfSeq
  <2>2. log[a].calls \in Seq(BOOLEAN)
    BY <1>1, <2>1 DEF MessageRows
  <2> QED BY <2>2, LenProperties
<1>3. k \in Nat /\ n + k = count
  BY <1>2
<1>4. g.messages = both
  OBVIOUS
<1> HIDE DEF k
<1>5. /\ rest \in Seq(MessageRows) /\ Len(rest) = k /\ DOMAIN rest = 1 .. k
      /\ \A j \in 1 .. k : /\ rest[j].role = "tool_result" /\ rest[j].index = n + j
                           /\ rest[j].result = "not_executed"
  <2>1. n \in Nat /\ k \in Nat
    BY <1>3
  <2> QED BY <2>1, RefusedRows
<1>6. Extended(log, rest, both)
  BY <1>1, <1>5, ConcatExtends
<1> HIDE DEF rest, both
<1>7. ASSUME NEW j \in DOMAIN rest
      PROVE  \A op \in DOMAIN launched : launched[op] # <<a, n + j>>
  <2> SUFFICES ASSUME NEW op \in DOMAIN launched, launched[op] = <<a, n + j>> PROVE FALSE
    OBVIOUS
  <2>1. launched[op][1] = a /\ launched[op][2] = n + j
    OBVIOUS
  <2>2. op[2] <= n /\ launched[op][2] = op[2]
    BY <2>1 DEF LaunchesFit
  <2>3. j \in Nat /\ j >= 1
    BY <1>3, <1>5
  <2> QED BY <2>1, <2>2, <2>3
<1>8. Serving(both, pending, a, count, launched, received, abandoned, sequence + 1) /\ both[a] = log[a]
  <2>1. n + Len(rest) <= Len(log[a].calls) /\ n + Len(rest) = count
    BY <1>2, <1>3, <1>5
  <2>2. \A j \in DOMAIN rest :
          /\ rest[j].role = "tool_result" /\ rest[j].index = n + j
          /\ (rest[j].result = "not_executed") <=> \A op \in DOMAIN launched : launched[op] # <<a, n + j>>
    BY <1>5, <1>7
  <2>3. /\ Serving(both, pending, a, n + Len(rest), launched, received, abandoned, sequence + 1)
        /\ both[a] = log[a]
    <3>1. /\ Serving(log, pending, a, n, launched, received, abandoned, sequence + 1)
          /\ rest \in Seq(MessageRows) /\ n + Len(rest) <= Len(log[a].calls)
      BY <1>5, <2>1
    <3> QED BY <1>6, <2>2, <3>1, ServedGoesOn
  <2> QED BY <2>1, <2>3
<1>9. /\ both \in Seq(MessageRows) /\ Longer(log, both)
  BY <1>6 DEF Extended, Longer
<1>10. Longer(messages, both)
  BY <1>9 DEF Longer
<1>11. LaunchesFit(launched, both, out)
  BY <1>10, LaunchesStay
<1>12. Paired(both, 0, launched, abandoned)
  <2>1. Served(both, a, count) /\ Paired(both, a, launched, abandoned) /\ count = Len(both[a].calls)
    BY <1>8 DEF Serving
  <2> QED BY <1>9, <2>1, ServedCloses
<1> QED
  BY <1>4, <1>8, <1>10, <1>11, <1>12 DEF Between, Serving

\* completeBash: the result is stored, and what follows is served or skipped.
LEMMA BashHolds ==
  ASSUME TurnInv, NEW operation \in open, operation[2] # 0, Awaited(operation),
         NEW outcome \in BashOutcomes
  PROVE  PlanHolds(CompleteBash(Read, outcome), open \ {operation}, received,
                   IF outcome = "oversized" THEN abandoned \cup {operation} ELSE abandoned)
<1> DEFINE out    == open \ {operation}
           a      == s.active_assistant_sequence
           n      == s.next_tool_index
           result == IF outcome = "unusable" THEN "unknown" ELSE "ran"
           log    == Append(messages, ToolResult(n + 1, result))
           count  == Len(messages[a].calls)
           st     == [s EXCEPT !.next_tool_index = n + 1, !.active_operation_id = NoOperation]
           done   == [Read EXCEPT !.messages = log, !.s.next_tool_index = n + 1,
                                  !.s.active_operation_id = NoOperation]
           over   == [done EXCEPT !.messages = @ \o Refused(n + 1, count - (n + 1))]
<1>1. /\ Read \in Contexts /\ Read.s = s /\ Read.messages = messages /\ Read.pending = pending
      /\ Read.operations = {} /\ Read.status = status /\ Read.sequence = sequence + 1
      /\ sequence \in Nat /\ s \in HarnessStates /\ messages \in Seq(MessageRows)
  BY ReadFields
<1>2. /\ out \subseteq abandoned /\ out \subseteq open /\ s.phase = "bash"
      /\ operation = s.active_operation_id
  BY AwaitedOut
<1>3. CompleteBash(Read, outcome)
        = CASE outcome = "answered"             -> AdvanceTools(done)
            [] outcome \in {"lost", "unusable"} -> Fail(over)
            [] outcome = "oversized"            -> Fail(Read)
  BY <1>1 DEF CompleteBash, CurrentCalls, Refused
<1>4. result \in {"ran", "unknown"}
  OBVIOUS
<1> HIDE DEF out, result
<1>5. /\ Serving(log, pending, a, n + 1, launched, received, abandoned, sequence + 1)
      /\ log[a].calls = messages[a].calls
      /\ Longer(messages, log)
      /\ n + 1 <= count /\ n \in Nat
  BY <1>4, CallAnswered
<1>6. /\ st \in HarnessStates /\ st.cancel_requested = s.cancel_requested
      /\ st.next_tool_index = n + 1 /\ st.active_assistant_sequence = a
  <2> DEFINE q == n + 1
             v == [s EXCEPT !.next_tool_index = q, !.active_operation_id = NoOperation]
  <2>1. q \in Nat /\ NoOperation \in Operations
    BY <1>5 DEF NoOperation, Operations
  <2> HIDE DEF q
  <2>2. /\ v \in HarnessStates /\ v.cancel_requested = s.cancel_requested
        /\ v.next_tool_index = q /\ v.active_assistant_sequence = s.active_assistant_sequence
    BY <1>1, <2>1 DEF HarnessStates
  <2> QED BY <2>2 DEF q
<1>7. done = [Read EXCEPT !.messages = log, !.s = st]
  BY <1>1 DEF Contexts, HarnessStates
<1>8. log \in Seq(MessageRows)
  BY <1>5 DEF Serving
<1>9. /\ LaunchesFit(launched, messages, open) /\ Past(open, abandoned, launched, sequence)
      /\ NoOperation \notin open /\ a \notin Dropped(launched, abandoned)
      /\ operation \in DOMAIN launched /\ launched[operation] = <<a, n + 1>>
      /\ \A o \in DOMAIN launched : launched[o][1] = a => o = operation \/ (o[2] <= n /\ o \notin open)
      /\ status = IF s.cancel_requested THEN "cancelling" ELSE "running"
  BY <1>2 DEF TurnInv, Holds, PhaseFits, StatusFits
<1> HIDE DEF log, st, done
<1>10. /\ done \in Contexts /\ done.messages = log /\ done.pending = pending /\ done.operations = {}
       /\ done.sequence = sequence + 1 /\ done.status = status /\ done.s = st
  BY <1>1, <1>6, <1>7, <1>8 DEF Contexts
<1>11. \A o \in DOMAIN launched : launched[o][1] = a => o[2] <= n + 1 /\ o \notin out
  <2> SUFFICES ASSUME NEW o \in DOMAIN launched, launched[o][1] = a
               PROVE  o[2] <= n + 1 /\ o \notin out
    OBVIOUS
  <2>1. CASE o = operation
    <3>1. o[2] = n + 1
      BY <1>9, <2>1 DEF LaunchesFit
    <3> QED BY <1>5, <2>1, <3>1 DEF out
  <2>2. CASE o # operation
    <3>1. o[2] <= n /\ o \notin open /\ o[2] \in Nat
      BY <1>9, <2>2 DEF Past, Operations
    <3> QED BY <1>2, <1>5, <3>1
  <2> QED BY <2>1, <2>2
<1>12. Past(out, abandoned, launched, sequence) /\ NoOperation \notin out
  BY <1>2, <1>9 DEF Past
<1>13. LaunchesFit(launched, log, out) /\ LaunchesFit(launched, messages, out)
  <2>1. Longer(messages, messages)
    BY DEF Longer
  <2> QED BY <1>2, <1>5, <1>9, <2>1, LaunchesStay
<1>14. CASE outcome = "answered"
  <2>1. Working(done, a, n + 1, out, received, abandoned)
    BY <1>1, <1>2, <1>5, <1>6, <1>9, <1>10, <1>11, <1>12, <1>13 DEF Working
  <2>2. PlanHolds(AdvanceTools(done), out, received, abandoned)
    BY <2>1, AdvanceHolds
  <2> QED BY <1>3, <1>14, <2>2 DEF out
<1>15. CASE outcome \in {"lost", "unusable"}
  <2>1. /\ count = Len(log[a].calls) /\ n + 1 \in Nat
    BY <1>5
  <2> HIDE DEF count, a, n
  <2>2. log \o Refused(n + 1, count - (n + 1)) \in Seq(MessageRows)
    <3>1. count \in Nat
      <4>1. Served(log, a, n + 1)
        BY <1>5 DEF Serving
      <4>2. log[a] \in MessageRows /\ log[a].role = "assistant"
        BY <1>8, <4>1, ElementOfSeq DEF Served
      <4>3. log[a].calls \in Seq(BOOLEAN)
        BY <4>2 DEF MessageRows
      <4> QED BY <2>1, <4>3, LenProperties
    <3>2. count - (n + 1) \in Nat
      BY <1>5, <2>1, <3>1
    <3>3. Refused(n + 1, count - (n + 1)) \in Seq(MessageRows)
      BY <2>1, <3>2, RefusedRows
    <3> QED BY <1>8, <3>3, ConcatProperties
  <2>3. /\ over \in Contexts /\ over.messages = log \o Refused(n + 1, count - (n + 1))
        /\ over.pending = pending /\ over.operations = {} /\ over.sequence = sequence + 1
    BY <1>10, <2>2 DEF Contexts
  <2> HIDE DEF over
  <2>4. Between(over, out, received, abandoned)
    BY <1>1, <1>2, <1>5, <1>11, <1>12, <1>13, <2>1, <2>3, SkippedBetween
  <2>5. PlanHolds(Fail(over), out, received, abandoned)
    BY <2>4, FailHolds
  <2> QED BY <1>3, <1>15, <2>5 DEF out
<1>16. CASE outcome = "oversized"
  <2> DEFINE ab == abandoned \cup {operation}
  <2>1. /\ out \subseteq ab /\ abandoned \subseteq ab /\ operation \in ab
    BY <1>2
  <2>2. Past({}, ab, launched, sequence)
    BY <1>9 DEF Past
  <2> HIDE DEF ab
  <2>3. a \in Dropped(launched, ab)
    <3>1. operation \in ab \cap DOMAIN launched /\ launched[operation][1] = a
      BY <1>9, <2>1
    <3> HIDE DEF a
    <3> QED BY <3>1 DEF Dropped
  <2>4. Between(Read, out, received, ab)
    BY <1>1, <1>2, <2>1, <2>2, <2>3, ReadBetween
  <2>5. PlanHolds(Fail(Read), out, received, ab)
    BY <2>4, FailHolds
  <2> QED BY <1>3, <1>16, <2>5 DEF out, ab
<1> QED
  BY <1>14, <1>15, <1>16 DEF BashOutcomes

\* A completion is answered, or was dropped.
LEMMA CompletesHolds ==
  ASSUME TurnInv, Completes
  PROVE  TurnInv' /\ Longer(messages, messages') /\ reader' = reader /\ received' = received
<1>1. PICK operation \in open :
        \/ \E outcome \in LlmOutcomes  : HandleLlmCompleted(operation, outcome)
        \/ \E outcome \in BashOutcomes : HandleBashCompleted(operation, outcome)
  BY DEF Completes
<1>2. open \ {operation} \subseteq open
  OBVIOUS
<1>3. ~Awaited(operation) => PlanHolds(Read, open \ {operation}, received, abandoned)
  <2> SUFFICES ASSUME ~Awaited(operation)
               PROVE  PlanHolds(Read, open \ {operation}, received, abandoned)
    OBVIOUS
  <2>1. s.active_operation_id \notin open \ (open \ {operation})
    BY DEF Awaited
  <2> QED BY <1>2, <2>1, ReadHolds
<1>4. ASSUME NEW outcome \in LlmOutcomes, HandleLlmCompleted(operation, outcome)
      PROVE  TurnInv' /\ Longer(messages, messages') /\ reader' = reader /\ received' = received
  <2>1. /\ operation[2] = 0 /\ received' = received /\ abandoned' = abandoned
        /\ Apply(IF Awaited(operation) THEN CompleteLlm(Read, outcome) ELSE Read, {operation})
    BY <1>4 DEF HandleLlmCompleted
  <2>2. CASE Awaited(operation)
    <3>1. PlanHolds(CompleteLlm(Read, outcome), open \ {operation}, received, abandoned)
      BY <2>1, <2>2, LlmHolds
    <3>2. Apply(CompleteLlm(Read, outcome), {operation})
      BY <2>1, <2>2
    <3> QED BY <2>1, <3>1, <3>2, ApplyHolds
  <2>3. CASE ~Awaited(operation)
    <3>1. Apply(Read, {operation})
      BY <2>1, <2>3
    <3> QED BY <1>3, <2>1, <2>3, <3>1, ApplyHolds
  <2> QED BY <2>2, <2>3
<1>5. ASSUME NEW outcome \in BashOutcomes, HandleBashCompleted(operation, outcome)
      PROVE  TurnInv' /\ Longer(messages, messages') /\ reader' = reader /\ received' = received
  <2>1. /\ operation[2] # 0 /\ received' = received
        /\ abandoned' = IF Awaited(operation) /\ outcome = "oversized"
                        THEN abandoned \cup {operation} ELSE abandoned
        /\ Apply(IF Awaited(operation) THEN CompleteBash(Read, outcome) ELSE Read, {operation})
    BY <1>5 DEF HandleBashCompleted
  <2>2. CASE Awaited(operation)
    <3>1. PlanHolds(CompleteBash(Read, outcome), open \ {operation}, received,
                    IF outcome = "oversized" THEN abandoned \cup {operation} ELSE abandoned)
      BY <2>1, <2>2, BashHolds
    <3>2. Apply(CompleteBash(Read, outcome), {operation})
      BY <2>1, <2>2
    <3>3. PlanHolds(CompleteBash(Read, outcome), open \ {operation}, received', abandoned')
      BY <2>1, <2>2, <3>1
    <3> QED BY <2>1, <3>2, <3>3, ApplyHolds
  <2>3. CASE ~Awaited(operation)
    <3>1. Apply(Read, {operation}) /\ abandoned' = abandoned
      BY <2>1, <2>3
    <3> QED BY <1>3, <2>1, <2>3, <3>1, ApplyHolds
  <2> QED BY <2>2, <2>3
<1> QED
  BY <1>1, <1>4, <1>5

-----------------------------------------------------------------------------
(* The client that pages                                                   *)

\* The greatest element of a bounded set of naturals.
LEMMA MaxFits ==
  ASSUME NEW T, T \subseteq Nat, T # {}, NEW bound \in Nat, \A y \in T : y <= bound
  PROVE  Max(T) \in T /\ \A y \in T : y <= Max(T)
<1> DEFINE above == {b \in Nat : \A y \in T : y <= b}
<1>1. above \subseteq Nat /\ above # {}
  <2>1. bound \in above
    OBVIOUS
  <2> QED BY <2>1
<1>2. PICK x \in above : \A y \in above : x <= y
  BY <1>1, LeastNatural
<1>3. x \in Nat /\ \A y \in T : y <= x
  BY <1>2
<1>4. x \in T
  <2> SUFFICES ASSUME x \notin T PROVE FALSE
    OBVIOUS
  <2>1. \A y \in T : y \in Nat /\ y <= x - 1
    <3> SUFFICES ASSUME NEW y \in T PROVE y \in Nat /\ y <= x - 1
      OBVIOUS
    <3>1. y \in Nat /\ y <= x /\ y # x
      BY <1>3
    <3> QED BY <1>3, <3>1
  <2>2. x - 1 \in Nat
    <3>1. PICK y \in T : TRUE
      OBVIOUS
    <3>2. y \in Nat /\ y <= x - 1
      BY <2>1
    <3> QED BY <1>3, <3>2
  <2>3. x - 1 \in above
    BY <2>1, <2>2
  <2>4. x <= x - 1
    BY <1>2, <2>3
  <2> QED BY <1>3, <2>4
<1>5. \E z \in T : \A y \in T : z >= y
  BY <1>3, <1>4
<1>6. Max(T) \in T /\ \A y \in T : Max(T) >= y
  BY <1>5 DEF Max
<1> QED
  BY <1>6

\* pageRows: a page takes a row if there is one, no more than the limit, and says that there
\* is more exactly if it left one.
LEMMA PageFits ==
  ASSUME NEW sizes, Len(sizes) \in Nat
  PROVE  /\ PageRows(sizes).length \in 0 .. Len(sizes) /\ PageRows(sizes).length <= PageLimit
         /\ PageRows(sizes).hasMore <=> PageRows(sizes).length # Len(sizes)
         /\ Len(sizes) # 0 => PageRows(sizes).length # 0
<1> DEFINE top  == Min({PageLimit, Len(sizes)})
           fits == {n \in 0 .. top : n <= 1 \/ BytesOf(SubSeq(sizes, 1, n)) <= PageBytes}
<1>1. PageLimit \in Nat /\ PageLimit # 0
  BY MinimalBashAssumption
<1>2. /\ top \in {PageLimit, Len(sizes)} /\ top <= PageLimit /\ top <= Len(sizes)
  <2> DEFINE both == {PageLimit, Len(sizes)}
  <2>1. both \subseteq Nat /\ both # {}
    BY <1>1
  <2>2. Min(both) \in both /\ \A y \in both : Min(both) <= y
    BY <2>1, MinFits
  <2> QED BY <2>2
<1>3. PageRows(sizes) = [length |-> Max(fits), hasMore |-> Max(fits) < Len(sizes)]
  BY DEF PageRows
<1> HIDE DEF top
<1>4. top \in Nat
  BY <1>1, <1>2
<1>5. fits \subseteq Nat /\ fits # {} /\ \A y \in fits : y <= top
  <2>1. 0 \in fits
    BY <1>4
  <2>2. \A y \in fits : y \in 0 .. top
    OBVIOUS
  <2> HIDE DEF fits
  <2> QED BY <1>4, <2>1, <2>2
<1>6. top # 0 => 1 \in fits
  BY <1>4
<1> HIDE DEF fits
<1>7. Max(fits) \in fits /\ \A y \in fits : y <= Max(fits)
  BY <1>4, <1>5, MaxFits
<1> DEFINE len == Max(fits)
<1>8. len \in Nat /\ len <= top /\ (top # 0 => 1 <= len)
  BY <1>5, <1>6, <1>7
<1>9. PageRows(sizes).length = len /\ (PageRows(sizes).hasMore <=> len < Len(sizes))
  <2>1. PageRows(sizes) = [length |-> len, hasMore |-> len < Len(sizes)]
    BY <1>3
  <2> HIDE DEF len
  <2>2. PageRows(sizes).length = len /\ PageRows(sizes).hasMore = (len < Len(sizes))
    BY <2>1
  <2> QED BY <2>2
<1> HIDE DEF len
<1>10. Len(sizes) # 0 => top # 0
  BY <1>1, <1>2
<1> QED
  BY <1>1, <1>2, <1>4, <1>8, <1>9, <1>10

\* The sizes of the rows that a page may take.
SizesOf(rows) == [i \in 1 .. Min({Len(rows), PageLimit + 1}) |-> rows[i].size]

\* A page of rows: it takes some of them if there are any, and all of them if it says that
\* there is no more.
LEMMA PageOf ==
  ASSUME NEW S, NEW rows \in Seq(S)
  PROVE  LET page == PageRows(SizesOf(rows))
         IN  /\ page.length \in 0 .. Len(rows)
             /\ ~page.hasMore => page.length = Len(rows)
             /\ page.hasMore => page.length # 0
<1> DEFINE top   == Min({Len(rows), PageLimit + 1})
           sizes == SizesOf(rows)
           page  == PageRows(sizes)
<1>1. PageLimit \in Nat /\ Len(rows) \in Nat
  BY MinimalBashAssumption, LenProperties
<1>2. top \in {Len(rows), PageLimit + 1} /\ top <= Len(rows) /\ top <= PageLimit + 1
  <2> DEFINE both == {Len(rows), PageLimit + 1}
  <2>1. both \subseteq Nat /\ both # {}
    BY <1>1
  <2>2. Min(both) \in both /\ \A y \in both : Min(both) <= y
    BY <2>1, MinFits
  <2> QED BY <2>2
<1>3. sizes = [i \in 1 .. top |-> rows[i].size]
  BY DEF SizesOf
<1> HIDE DEF top
<1>4. top \in Nat
  BY <1>1, <1>2
<1>5. Len(sizes) = top
  <2>1. sizes \in [1 .. top -> {rows[i].size : i \in 1 .. top}]
    BY <1>3
  <2> HIDE DEF sizes
  <2> QED BY <1>4, <2>1, FunctionIsSeq
<1> HIDE DEF sizes
<1>6. /\ page.length \in 0 .. top /\ page.length <= PageLimit
      /\ page.hasMore <=> page.length # top
      /\ top # 0 => page.length # 0
  <2>1. Len(sizes) \in Nat
    BY <1>4, <1>5
  <2> QED BY <1>5, <2>1, PageFits
<1> HIDE DEF page
<1>7. /\ page.length \in 0 .. Len(rows) /\ (~page.hasMore => page.length = Len(rows))
      /\ page.hasMore => page.length # 0
  BY <1>1, <1>2, <1>4, <1>6
<1> QED
  BY <1>7 DEF page, sizes

\* The rows of a table from the one at first on.
LEMMA Rest ==
  ASSUME NEW S, NEW m \in Seq(S), NEW first \in Nat, first # 0
  PROVE  LET rows == SubSeq(m, first, Len(m))
         IN  /\ rows \in Seq(S) /\ Len(rows) \in Nat
             /\ \A i \in 1 .. Len(rows) : first + i - 1 \in DOMAIN m /\ rows[i] = m[first + i - 1]
             /\ \A j \in DOMAIN m : j >= first => /\ j - first + 1 \in 1 .. Len(rows)
                                                  /\ rows[j - first + 1] = m[j]
<1> DEFINE rows == SubSeq(m, first, Len(m))
<1>1. /\ Len(m) \in Nat /\ DOMAIN m = 1 .. Len(m)
      /\ \A i \in first .. Len(m) : m[i] \in S
  <2>1. Len(m) \in Nat /\ DOMAIN m = 1 .. Len(m) /\ \A i \in DOMAIN m : m[i] \in S
    BY LenProperties, ElementOfSeq
  <2>2. \A i \in first .. Len(m) : i \in DOMAIN m
    BY <2>1
  <2> QED BY <2>1, <2>2
<1>2. first \in Int /\ Len(m) \in Int
  BY <1>1
<1>3. /\ rows \in Seq(S) /\ Len(rows) = IF first <= Len(m) THEN Len(m) - first + 1 ELSE 0
      /\ \A i \in 1 .. Len(m) - first + 1 : rows[i] = m[first + i - 1]
  BY <1>1, <1>2, SubSeqProperties
<1> HIDE DEF rows
<1>4. Len(rows) \in Nat
  BY <1>1, <1>3
<1>5. \A i \in 1 .. Len(rows) : first + i - 1 \in DOMAIN m /\ rows[i] = m[first + i - 1]
  <2> SUFFICES ASSUME NEW i \in 1 .. Len(rows)
               PROVE  first + i - 1 \in DOMAIN m /\ rows[i] = m[first + i - 1]
    OBVIOUS
  <2>1. first <= Len(m) /\ i \in 1 .. Len(m) - first + 1
    BY <1>1, <1>3
  <2>2. first + i - 1 \in 1 .. Len(m)
    BY <1>1, <2>1
  <2> QED BY <1>1, <1>3, <2>1, <2>2
<1>6. ASSUME NEW j \in DOMAIN m, j >= first
      PROVE  j - first + 1 \in 1 .. Len(rows) /\ rows[j - first + 1] = m[j]
  <2>1. first <= Len(m) /\ j - first + 1 \in 1 .. Len(m) - first + 1
    BY <1>1, <1>6
  <2>2. first + (j - first + 1) - 1 = j
    BY <1>1
  <2>3. rows[j - first + 1] = m[first + (j - first + 1) - 1]
    BY <1>3, <2>1
  <2> QED BY <1>3, <2>1, <2>2, <2>3
<1> QED
  BY <1>3, <1>4, <1>5, <1>6 DEF rows

\* What a handler does hides nothing from the client.
LEMMA HandlerReads ==
  ASSUME ReaderInv, Longer(messages, messages'), reader' = reader,
         received \subseteq received'
  PROVE  ReaderInv'
<1>1. \A i \in Users(messages) : i \in Users(messages') /\ messages'[i].event = messages[i].event
  BY DEF Users, Longer
<1>2. reader.scan = "pending" =>
        /\ reader.missing \subseteq received'
        /\ \A e \in reader.missing : e <= reader.after => \E i \in Users(messages') : messages'[i].event = e
  <2> SUFFICES ASSUME reader.scan = "pending"
               PROVE  /\ reader.missing \subseteq received'
                      /\ \A e \in reader.missing :
                           e <= reader.after => \E i \in Users(messages') : messages'[i].event = e
    OBVIOUS
  <2>1. reader.missing \subseteq received'
    BY DEF ReaderInv
  <2>2. ASSUME NEW e \in reader.missing, e <= reader.after
        PROVE  \E i \in Users(messages') : messages'[i].event = e
    <3>1. PICK i \in Users(messages) : messages[i].event = e
      BY <2>2 DEF ReaderInv
    <3> QED BY <1>1, <3>1
  <2> QED BY <2>1, <2>2
<1>3. reader.scan = "messages" =>
        \A e \in reader.missing : \E i \in Users(messages') : i > reader.after /\ messages'[i].event = e
  <2> SUFFICES ASSUME reader.scan = "messages", NEW e \in reader.missing
               PROVE  \E i \in Users(messages') : i > reader.after /\ messages'[i].event = e
    OBVIOUS
  <2>1. PICK i \in Users(messages) : i > reader.after /\ messages[i].event = e
    BY DEF ReaderInv
  <2> QED BY <1>1, <2>1
<1>4. /\ reader \in [scan : {"none", "pending", "messages", "done"}, after : Nat, missing : SUBSET Nat]
      /\ reader.scan = "none" => reader.after = 0
      /\ reader.scan = "done" => reader.missing = {}
  BY DEF ReaderInv
<1> QED
  BY <1>2, <1>3, <1>4 DEF ReaderInv

\* The client begins.
LEMMA StartReads ==
  ASSUME TurnInv, ReaderInv, StartReading
  PROVE  ReaderInv'
<1>1. /\ reader.scan = "none" /\ reader.after = 0
      /\ reader \in [scan : {"none", "pending", "messages", "done"}, after : Nat, missing : SUBSET Nat]
      /\ reader' = [reader EXCEPT !.scan = "pending", !.missing = received]
      /\ messages' = messages /\ received' = received
  BY DEF StartReading, ReaderInv, harness
<1>2. received \subseteq 1 .. sequence /\ sequence \in Nat
  BY DEF TurnInv, Holds, Steered
<1>3. received \subseteq Nat /\ \A e \in received : ~(e <= 0)
  BY <1>2
<1>4. /\ reader'.scan = "pending" /\ reader'.after = 0 /\ reader'.missing = received
      /\ reader' \in [scan : {"none", "pending", "messages", "done"}, after : Nat, missing : SUBSET Nat]
  BY <1>1, <1>3
<1> QED
  BY <1>1, <1>3, <1>4 DEF ReaderInv

\* The client asks for a page of what waits: what it is not shown is behind the page, or in
\* the transcript.
LEMMA PendingReads ==
  ASSUME TurnInv, ReaderInv, ReadPendingMessages
  PROVE  ReaderInv'
<1> DEFINE unread == {i \in DOMAIN pending : pending[i].event > reader.after}
           first  == IF unread = {} THEN Len(pending) + 1 ELSE Min(unread)
           rows   == SubSeq(pending, first, Len(pending))
           page   == PageRows(SizesOf(rows))
           shown  == {rows[i].event : i \in 1 .. page.length}
           after  == IF page.hasMore THEN rows[page.length].event ELSE 0
           entered == {messages[i].event : i \in Users(messages)}
<1>1. /\ reader.scan = "pending" /\ messages' = messages /\ received' = received
      /\ reader' = [reader EXCEPT !.scan = IF page.hasMore THEN "pending" ELSE "messages",
                                  !.after = after, !.missing = @ \ shown]
  BY DEF ReadPendingMessages, SizesOf, harness
<1>2. /\ reader \in [scan : {"none", "pending", "messages", "done"}, after : Nat, missing : SUBSET Nat]
      /\ reader.missing \subseteq received
      /\ \A e \in reader.missing : e <= reader.after => e \in entered
  BY <1>1 DEF ReaderInv
<1>3. /\ pending \in Seq(WaitingRows) /\ messages \in Seq(MessageRows)
      /\ Steered(messages, pending, received, sequence)
  BY DEF TurnInv, Holds
<1>4. /\ Len(pending) \in Nat /\ DOMAIN pending = 1 .. Len(pending)
      /\ \A j \in DOMAIN pending : pending[j].event \in Nat
  <2>1. \A j \in DOMAIN pending : pending[j] \in WaitingRows
    BY <1>3, ElementOfSeq
  <2> QED BY <1>3, <2>1, LenProperties DEF WaitingRows
<1>5. /\ first \in Nat /\ first # 0
      /\ \A j \in DOMAIN pending : j < first => pending[j].event <= reader.after
  <2>1. unread \subseteq Nat /\ 0 \notin unread
    BY <1>4
  <2>2. CASE unread = {}
    <3>1. \A j \in DOMAIN pending : ~(pending[j].event > reader.after)
      BY <2>2
    <3>2. first = Len(pending) + 1
      BY <2>2
    <3> HIDE DEF first, unread
    <3> QED BY <1>2, <1>4, <3>1, <3>2
  <2>3. CASE unread # {}
    <3>1. Min(unread) \in unread /\ \A y \in unread : Min(unread) <= y
      BY <2>1, <2>3, MinFits
    <3>2. first \in unread /\ \A y \in unread : first <= y
      BY <2>3, <3>1
    <3>3. \A j \in DOMAIN pending : j < first => j \notin unread
      <4> HIDE DEF first
      <4> QED BY <1>4, <2>1, <3>2
    <3>4. \A j \in DOMAIN pending : j \notin unread => ~(pending[j].event > reader.after)
      OBVIOUS
    <3> HIDE DEF first, unread
    <3> QED BY <1>2, <1>4, <2>1, <3>2, <3>3, <3>4
  <2> QED BY <2>2, <2>3
<1> HIDE DEF first
<1>6. /\ rows \in Seq(WaitingRows) /\ Len(rows) \in Nat
      /\ \A i \in 1 .. Len(rows) : first + i - 1 \in DOMAIN pending /\ rows[i] = pending[first + i - 1]
      /\ \A j \in DOMAIN pending : j >= first => /\ j - first + 1 \in 1 .. Len(rows)
                                                 /\ rows[j - first + 1] = pending[j]
  BY <1>3, <1>5, Rest
<1> HIDE DEF rows
<1>7. /\ page.length \in 0 .. Len(rows)
      /\ ~page.hasMore => page.length = Len(rows)
      /\ page.hasMore => page.length # 0
  BY <1>6, PageOf
<1> DEFINE len == page.length
<1>8. len \in Nat /\ len <= Len(rows) /\ \A i \in 1 .. len : i \in 1 .. Len(rows)
  BY <1>6, <1>7
<1>9. shown = {rows[i].event : i \in 1 .. len}
  OBVIOUS
<1> HIDE DEF page, shown, len
<1>10. \A j \in DOMAIN pending : j >= first /\ j <= first + len - 1 => pending[j].event \in shown
  <2> SUFFICES ASSUME NEW j \in DOMAIN pending, j >= first, j <= first + len - 1
               PROVE  pending[j].event \in shown
    OBVIOUS
  <2>1. j - first + 1 \in 1 .. len /\ rows[j - first + 1] = pending[j]
    BY <1>4, <1>5, <1>6, <1>8
  <2> QED BY <1>9, <2>1
<1>11. ASSUME NEW e \in reader.missing \ shown, e \notin entered
       PROVE  \E j \in DOMAIN pending : pending[j].event = e /\ j > first + len - 1
  <2>1. e \in received
    BY <1>2
  <2>2. e \in {pending[j].event : j \in DOMAIN pending}
    BY <1>3, <1>11, <2>1 DEF Steered
  <2>3. PICK j \in DOMAIN pending : pending[j].event = e
    BY <2>2
  <2>4. ~(e <= reader.after)
    BY <1>2, <1>11
  <2>5. ~(j < first)
    BY <1>5, <2>3, <2>4
  <2>6. ~(j <= first + len - 1)
    BY <1>4, <1>5, <1>10, <1>11, <2>3, <2>5
  <2>7. j > first + len - 1
    BY <1>4, <1>5, <1>8, <2>6
  <2> QED BY <2>3, <2>7
<1>12. CASE page.hasMore
  <2>1. len # 0 /\ after = rows[len].event
    BY <1>7, <1>12 DEF len
  <2>2. first + len - 1 \in DOMAIN pending /\ rows[len] = pending[first + len - 1]
    BY <1>6, <1>8, <2>1
  <2>3. after \in Nat /\ after = pending[first + len - 1].event
    BY <1>4, <2>1, <2>2
  <2> HIDE DEF after
  <2>4. /\ reader' = [scan |-> "pending", after |-> after, missing |-> reader.missing \ shown]
    BY <1>1, <1>2, <1>12
  <2>5. ASSUME NEW e \in reader.missing \ shown, e <= after PROVE e \in entered
    <3> SUFFICES ASSUME e \notin entered PROVE FALSE
      OBVIOUS
    <3>1. PICK j \in DOMAIN pending : pending[j].event = e /\ j > first + len - 1
      BY <1>11
    <3>2. pending[first + len - 1].event < pending[j].event
      BY <1>3, <2>2, <3>1 DEF Steered
    <3> QED BY <1>4, <2>2, <2>3, <2>5, <3>1, <3>2
  <2>6. \A e \in entered : \E i \in Users(messages) : messages[i].event = e
    OBVIOUS
  <2> HIDE DEF entered
  <2>7. /\ reader'.scan = "pending" /\ reader'.after = after
        /\ reader'.missing = reader.missing \ shown
        /\ reader' \in [scan : {"none", "pending", "messages", "done"}, after : Nat, missing : SUBSET Nat]
    BY <1>2, <2>3, <2>4
  <2>8. reader'.missing \subseteq received'
    BY <1>1, <1>2, <2>7
  <2>9. \A e \in reader'.missing : e <= reader'.after => \E i \in Users(messages') : messages'[i].event = e
    BY <1>1, <2>5, <2>6, <2>7
  <2> QED BY <2>7, <2>8, <2>9 DEF ReaderInv
<1>13. CASE ~page.hasMore
  <2>1. len = Len(rows) /\ after = 0
    BY <1>7, <1>13 DEF len
  <2> HIDE DEF after
  <2>2. reader' = [scan |-> "messages", after |-> 0, missing |-> reader.missing \ shown]
    BY <1>1, <1>2, <1>13, <2>1
  <2>3. ASSUME NEW e \in reader.missing \ shown PROVE e \in entered
    <3> SUFFICES ASSUME e \notin entered PROVE FALSE
      OBVIOUS
    <3>1. PICK j \in DOMAIN pending : pending[j].event = e /\ j > first + len - 1
      BY <1>11
    <3>2. j >= first
      BY <1>4, <1>5, <1>8, <3>1
    <3>3. j - first + 1 \in 1 .. Len(rows)
      BY <1>6, <3>2
    <3> QED BY <1>4, <1>5, <1>6, <2>1, <3>1, <3>3
  <2>4. \A e \in entered : \E i \in Users(messages) : i > 0 /\ messages[i].event = e
    <3>1. \A i \in Users(messages) : i > 0
      BY <1>3, LenProperties DEF Users
    <3> QED BY <3>1
  <2> HIDE DEF entered
  <2>5. /\ reader'.scan = "messages" /\ reader'.after = 0
        /\ reader'.missing = reader.missing \ shown
        /\ reader' \in [scan : {"none", "pending", "messages", "done"}, after : Nat, missing : SUBSET Nat]
    BY <1>2, <2>2
  <2>6. \A e \in reader'.missing : \E i \in Users(messages') : i > reader'.after /\ messages'[i].event = e
    BY <1>1, <2>3, <2>4, <2>5
  <2> QED BY <2>5, <2>6 DEF ReaderInv
<1> QED
  BY <1>12, <1>13

\* The client asks for a page of the transcript: what it is not shown is behind the page.
LEMMA MessagesRead ==
  ASSUME TurnInv, ReaderInv, ReadMinimalBashMessages
  PROVE  ReaderInv'
<1> DEFINE first == reader.after + 1
           rows  == SubSeq(messages, first, Len(messages))
           page  == PageRows(SizesOf(rows))
           shown == {rows[i].event : i \in {j \in 1 .. page.length : rows[j].role = "user"}}
           after == IF page.hasMore THEN reader.after + page.length ELSE 0
<1>1. /\ reader.scan = "messages" /\ messages' = messages
      /\ reader' = [reader EXCEPT !.scan = IF page.hasMore THEN "messages" ELSE "done",
                                  !.after = after, !.missing = @ \ shown]
  BY DEF ReadMinimalBashMessages, SizesOf, harness
<1>2. /\ reader \in [scan : {"none", "pending", "messages", "done"}, after : Nat, missing : SUBSET Nat]
      /\ \A e \in reader.missing : \E i \in Users(messages) : i > reader.after /\ messages[i].event = e
  BY <1>1 DEF ReaderInv
<1>3. /\ messages \in Seq(MessageRows) /\ DOMAIN messages = 1 .. Len(messages)
      /\ Len(messages) \in Nat /\ first \in Nat /\ first # 0
  <2>1. messages \in Seq(MessageRows) /\ reader.after \in Nat
    BY <1>2 DEF TurnInv, Holds
  <2> QED BY <2>1, LenProperties
<1>4. reader.after = first - 1 /\ \A i \in DOMAIN messages : i > reader.after => i >= first
  BY <1>2, <1>3
<1> HIDE DEF first
<1>5. /\ rows \in Seq(MessageRows) /\ Len(rows) \in Nat
      /\ \A j \in DOMAIN messages : j >= first => /\ j - first + 1 \in 1 .. Len(rows)
                                                  /\ rows[j - first + 1] = messages[j]
  BY <1>3, Rest
<1> HIDE DEF rows
<1>6. /\ page.length \in 0 .. Len(rows)
      /\ ~page.hasMore => page.length = Len(rows)
  BY <1>5, PageOf
<1> DEFINE len == page.length
<1>7. len \in Nat /\ shown = {rows[i].event : i \in {j \in 1 .. len : rows[j].role = "user"}}
  BY <1>6
<1> HIDE DEF page, shown, len
<1>8. ASSUME NEW e \in reader.missing \ shown
      PROVE  \E i \in Users(messages) : messages[i].event = e /\ i - first + 1 > len /\ i - first + 1 \in 1 .. Len(rows)
  <2>1. PICK i \in Users(messages) : i > reader.after /\ messages[i].event = e
    BY <1>2
  <2>2. i \in DOMAIN messages /\ messages[i].role = "user"
    BY DEF Users
  <2>3. i - first + 1 \in 1 .. Len(rows) /\ rows[i - first + 1] = messages[i]
    BY <1>4, <1>5, <2>1, <2>2
  <2>4. i - first + 1 \notin 1 .. len
    BY <1>7, <1>8, <2>1, <2>2, <2>3
  <2>5. i - first + 1 > len
    BY <1>7, <2>3, <2>4
  <2> QED BY <2>1, <2>3, <2>5
<1>9. CASE page.hasMore
  <2>1. after = reader.after + len /\ after \in Nat
    BY <1>2, <1>7, <1>9 DEF len
  <2> HIDE DEF after
  <2>2. reader' = [scan |-> "messages", after |-> after, missing |-> reader.missing \ shown]
    BY <1>1, <1>2, <1>9
  <2>3. /\ reader'.scan = "messages" /\ reader'.after = after
        /\ reader'.missing = reader.missing \ shown
        /\ reader' \in [scan : {"none", "pending", "messages", "done"}, after : Nat, missing : SUBSET Nat]
    BY <1>2, <2>1, <2>2
  <2>4. ASSUME NEW e \in reader.missing \ shown
        PROVE  \E i \in Users(messages) : i > after /\ messages[i].event = e
    <3>1. PICK i \in Users(messages) : messages[i].event = e /\ i - first + 1 > len
      BY <1>8
    <3>2. i \in Nat
      BY <1>3 DEF Users
    <3>3. i > after
      BY <1>2, <1>3, <1>4, <1>7, <2>1, <3>1, <3>2
    <3> QED BY <3>1, <3>3
  <2> QED BY <1>1, <2>3, <2>4 DEF ReaderInv
<1>10. CASE ~page.hasMore
  <2>1. len = Len(rows) /\ after = 0
    BY <1>6, <1>10 DEF len
  <2> HIDE DEF after
  <2>2. reader' = [scan |-> "done", after |-> 0, missing |-> reader.missing \ shown]
    BY <1>1, <1>2, <1>10, <2>1
  <2>3. reader.missing \ shown = {}
    <3> SUFFICES ASSUME NEW e \in reader.missing \ shown PROVE FALSE
      OBVIOUS
    <3>1. PICK i \in Users(messages) : i - first + 1 > len /\ i - first + 1 \in 1 .. Len(rows)
      BY <1>8
    <3> QED BY <1>7, <2>1, <3>1
  <2>4. /\ reader'.scan = "done" /\ reader'.after = 0 /\ reader'.missing = {}
        /\ reader' \in [scan : {"none", "pending", "messages", "done"}, after : Nat, missing : SUBSET Nat]
    BY <1>2, <2>2, <2>3
  <2> QED BY <2>4 DEF ReaderInv
<1> QED
  BY <1>9, <1>10

-----------------------------------------------------------------------------
(* The invariant, and what follows from it                                 *)

\* Nothing has been said and nothing is out.
LEMMA InitHolds ==
  ASSUME Init
  PROVE  MinimalInv
<1> DEFINE st == [phase |-> "idle", run_id |-> 0, active_operation_id |-> NoOperation,
                  active_assistant_sequence |-> 0, next_tool_index |-> 0,
                  cancel_requested |-> FALSE, failed |-> FALSE]
<1>1. /\ s = st /\ messages = <<>> /\ pending = <<>> /\ status = "idle" /\ sequence = 0
      /\ open = {} /\ received = {} /\ launched = <<>> /\ abandoned = {}
      /\ reader = [scan |-> "none", after |-> 0, missing |-> {}]
  BY DEF Init
<1>2. /\ st \in HarnessStates /\ st.phase = "idle" /\ st.active_operation_id = NoOperation
      /\ st.active_assistant_sequence = 0 /\ ~st.cancel_requested
  BY DEF HarnessStates, NoOperation, Operations
<1> HIDE DEF st
<1>3. DOMAIN <<>> = {} /\ <<>> \in Seq(MessageRows) /\ <<>> \in Seq(WaitingRows)
  BY EmptySeq
<1>4. LaunchesFit(<<>>, <<>>, {})
  <2>1. <<>> = [o \in {} |-> <<>>[o]]
    OBVIOUS
  <2>2. <<>> \in [DOMAIN <<>> -> Operations]
    BY <1>3, <2>1
  <2> QED BY <1>3, <2>2 DEF LaunchesFit
<1>5. Past({}, {}, <<>>, 0) /\ Told(<<>>, <<>>) /\ Paired(<<>>, 0, <<>>, {})
  BY <1>3 DEF Past, Told, Paired
<1>6. PhaseFits(st, <<>>, {}, <<>>, {}) /\ StatusFits(st, "idle")
  BY <1>2, <1>3 DEF PhaseFits, StatusFits, Dropped
<1>7. Steered(<<>>, <<>>, {}, 0) /\ Ordered(<<>>, <<>>)
  BY <1>3 DEF Steered, Ordered, Users
<1>8. TurnInv
  BY <1>1, <1>2, <1>3, <1>4, <1>5, <1>6, <1>7 DEF TurnInv, Holds, HostStatuses
<1>9. ReaderInv
  BY <1>1 DEF ReaderInv
<1> QED
  BY <1>8, <1>9 DEF MinimalInv

\* Each step keeps the invariant.
LEMMA StepHolds ==
  ASSUME MinimalInv, [Next]_vars
  PROVE  MinimalInv'
<1>1. TurnInv /\ ReaderInv
  BY DEF MinimalInv
<1>2. CASE \E size \in Sizes : HandleMessage(size)
  <2>1. /\ TurnInv' /\ Longer(messages, messages') /\ reader' = reader
        /\ received \subseteq received'
    BY <1>1, <1>2, MessageHolds
  <2> QED BY <1>1, <2>1, HandlerReads DEF MinimalInv
<1>3. CASE \E run_id \in 1 .. sequence : HandleCancel(run_id)
  BY <1>1, <1>3, CancelHolds, HandlerReads DEF MinimalInv
<1>4. CASE HandleResume
  BY <1>1, <1>4, ResumeHolds, HandlerReads DEF MinimalInv
<1>5. CASE Completes
  BY <1>1, <1>5, CompletesHolds, HandlerReads DEF MinimalInv
<1>6. CASE ClientReads
  <2>1. UNCHANGED harness
    BY <1>6 DEF ClientReads, StartReading, ReadPendingMessages, ReadMinimalBashMessages
  <2>2. TurnInv'
    BY <1>1, <2>1 DEF harness, TurnInv
  <2>3. ReaderInv'
    BY <1>1, <1>6, StartReads, PendingReads, MessagesRead DEF ClientReads
  <2> QED BY <2>2, <2>3 DEF MinimalInv
<1>7. CASE UNCHANGED vars
  <2>1. UNCHANGED <<s, messages, pending, status, sequence, open, received, launched, abandoned, reader>>
    BY <1>7 DEF vars, harness
  <2>2. TurnInv' /\ ReaderInv'
    BY <1>1, <2>1 DEF TurnInv, ReaderInv, Users
  <2> QED BY <2>2 DEF MinimalInv
<1> QED
  BY <1>2, <1>3, <1>4, <1>5, <1>6, <1>7 DEF Next

\* The invariant holds always.
LEMMA MinimalInvariance == Spec => []MinimalInv
<1>1. Init => MinimalInv
  BY InitHolds
<1>2. MinimalInv /\ [Next]_vars => MinimalInv'
  BY StepHolds
<1> QED
  BY <1>1, <1>2, PTL DEF Spec

\* Every response in context is followed in the transcript by one result for each of its calls, in
\* their order, whatever failed, but for the one at work and those that a size failure
\* ended; and a result says "not executed" exactly if no operation ran the call
\* (advanceTools, completeBash).
THEOREM TranscriptIsAnswered == Spec => []CallsAnswered
<1>1. ASSUME MinimalInv PROVE CallsAnswered
  <2>1. /\ messages \in Seq(MessageRows) /\ Told(messages, launched)
        /\ Paired(messages, s.active_assistant_sequence, launched, abandoned)
        /\ PhaseFits(s, messages, open, launched, abandoned)
    BY <1>1 DEF MinimalInv, TurnInv, Holds
  <2>2. /\ \A i : Answered(i) = Replied(messages, i)
        /\ Dropped(launched, abandoned) = {launched[op][1] : op \in abandoned \cap DOMAIN launched}
    BY DEF Answered, Replied, Dropped
  <2>3. /\ Len(messages) \in Nat /\ DOMAIN messages = 1 .. Len(messages)
    BY <2>1, LenProperties
  <2>4. \A i \in DOMAIN messages : messages[i].role = "assistant" => messages[i].calls \in Seq(BOOLEAN)
    <3> SUFFICES ASSUME NEW i \in DOMAIN messages, messages[i].role = "assistant"
                 PROVE  messages[i].calls \in Seq(BOOLEAN)
      OBVIOUS
    <3>1. messages[i] \in MessageRows
      BY <2>1, ElementOfSeq
    <3> QED BY <3>1 DEF MessageRows
  <2>5. ASSUME NEW i \in DOMAIN messages, messages[i].role = "assistant"
        PROVE  \E n \in 0 .. Len(messages[i].calls) :
                 /\ Answered(i) = 1 .. n
                 /\ \/ n = Len(messages[i].calls)
                    \/ i \in {launched[op][1] : op \in abandoned \cap DOMAIN launched}
                    \/ s.phase = "bash" /\ i = s.active_assistant_sequence /\ n = s.next_tool_index
    <3>1. CASE i # s.active_assistant_sequence
      <4>1. PICK n \in 0 .. Len(messages[i].calls) :
              Replied(messages, i) = 1 .. n /\ (n = Len(messages[i].calls) \/ i \in Dropped(launched, abandoned))
        BY <2>1, <2>5, <3>1 DEF Paired
      <4> QED BY <2>2, <4>1
    <3>2. CASE i = s.active_assistant_sequence
      <4> DEFINE n == s.next_tool_index
      <4>1. s.phase = "bash"
        <5>1. i # 0
          BY <2>3
        <5> QED BY <2>1, <3>2, <5>1 DEF PhaseFits
      <4>2. Served(messages, i, n)
        BY <2>1, <3>2, <4>1 DEF PhaseFits
      <4>3. Answered(i) = 1 .. n
        BY <2>1, <2>2, <4>2, ServedReplies
      <4>4. n \in 0 .. Len(messages[i].calls)
        BY <4>2 DEF Served
      <4> QED BY <3>2, <4>1, <4>3, <4>4
    <3> QED BY <3>1, <3>2
  <2>6. ASSUME NEW i \in DOMAIN messages, messages[i].role = "tool_result"
        PROVE  LET call == <<i - messages[i].index, messages[i].index>>
               IN  /\ call[1] \in DOMAIN messages /\ messages[call[1]].role = "assistant"
                   /\ call[2] \in Answered(call[1])
                   /\ (messages[i].result = "not_executed")
                        <=> \A op \in DOMAIN launched : launched[op] # call
    <3> DEFINE k == messages[i].index
               a == i - k
    <3>1. /\ a \in DOMAIN messages /\ messages[a].role = "assistant"
          /\ k \in DOMAIN messages[a].calls
      BY <2>1, <2>6 DEF Paired
    <3>2. k \in Nat /\ a + k = i
      <4>1. messages[a].calls \in Seq(BOOLEAN)
        BY <2>4, <3>1
      <4>2. DOMAIN messages[a].calls \subseteq Nat
        BY <4>1, LenProperties
      <4>3. k \in Nat
        BY <3>1, <4>2
      <4> HIDE DEF k
      <4> QED BY <2>3, <4>3
    <3>3. k \in Answered(a)
      <4>1. /\ a + k \in DOMAIN messages /\ messages[a + k].role = "tool_result"
            /\ messages[a + k].index = k
        BY <2>6, <3>2
      <4> HIDE DEF a, k
      <4> QED BY <3>1, <4>1 DEF Answered
    <3>4. (messages[i].result = "not_executed") <=> \A op \in DOMAIN launched : launched[op] # <<a, k>>
      BY <2>1, <2>6 DEF Told
    <3> QED BY <3>1, <3>3, <3>4
  <2> QED BY <2>5, <2>6 DEF CallsAnswered
<1> QED
  BY <1>1, MinimalInvariance, PTL

\* A call runs at most once and after the calls before it, and an active run waits for one
\* operation that is out, and for no other: the completion of one that was abandoned neither
\* ends nor advances the run that replaced it (handle's test against active_operation_id).
THEOREM RunsWaitForOne == Spec => []OneAtATime
<1>1. ASSUME MinimalInv PROVE OneAtATime
  <2>1. /\ LaunchesFit(launched, messages, open)
        /\ PhaseFits(s, messages, open, launched, abandoned) /\ StatusFits(s, status)
    BY <1>1 DEF MinimalInv, TurnInv, Holds
  <2>2. /\ \A p, q \in DOMAIN launched : launched[p] = launched[q] => p = q
        /\ \A p, q \in DOMAIN launched :
             launched[p][1] = launched[q][1] /\ launched[p][2] < launched[q][2] => p[1] < q[1] /\ p \notin open
    BY <2>1 DEF LaunchesFit
  <2>3. /\ open \ abandoned = {s.active_operation_id} \ {NoOperation}
        /\ s.phase \in {"llm", "bash"} <=> s.active_operation_id # NoOperation
    BY <2>1 DEF PhaseFits
  <2> QED BY <2>1, <2>2, <2>3 DEF OneAtATime, StatusFits
<1> QED
  BY <1>1, MinimalInvariance, PTL

\* A message that was kept is in the transcript or among the pending ones, once and in the
\* order of admission until a promotion fails, and none waits in an idle session
\* (promoteSteering, finishTurn, apply).
THEOREM MessagesAreHeldOnce == Spec => []HeldOnce
<1>1. ASSUME MinimalInv PROVE HeldOnce
  <2>1. /\ Steered(messages, pending, received, sequence)
        /\ ~(s.phase = "failed" /\ Large(pending)) => Ordered(messages, pending)
        /\ s.phase = "idle" => pending = <<>>
    BY <1>1 DEF MinimalInv, TurnInv, Holds
  <2>2. Stuck <=> s.phase = "failed" /\ Large(pending)
    BY DEF Stuck, Large
  <2>3. Users(messages) = UserRows
    BY DEF Users, UserRows
  <2> QED BY <2>1, <2>2, <2>3 DEF HeldOnce, Steered, Ordered
<1> QED
  BY <1>1, MinimalInvariance, PTL

\* A client that pages through the pending messages and then the transcript is shown every
\* message kept before it began, although messages move between the two in the meantime
\* (pageRows, readPendingMessages, readMinimalBashMessages).
THEOREM PagesHideNothing == Spec => []NothingHidden
<1>1. MinimalInv => NothingHidden
  BY DEF MinimalInv, ReaderInv, NothingHidden
<1> QED
  BY <1>1, MinimalInvariance, PTL
=============================================================================
