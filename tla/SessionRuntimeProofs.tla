------------------------ MODULE SessionRuntimeProofs ------------------------
(***************************************************************************)
(* Proofs about SessionRuntime for every set of inputs, keys, jobs and     *)
(* outcomes, every harness (Plan), every policy and every fault bound.     *)
(***************************************************************************)
EXTENDS SessionRuntime, FiniteSetTheorems, SequenceTheorems, TLAPS

-----------------------------------------------------------------------------
(* The head of the inbox *)

\* When consumption is in order, nextInput returns the row after the last applied
\* event, if there is one.
LEMMA HeadFollowsApplied ==
  ASSUME inbox \in Seq(Rows), applied \in Seq(Events), InOrderExactlyOnce
  PROVE  NextInput = IF Len(applied) < Len(inbox) THEN Len(applied) + 1 ELSE 0
<1>1. /\ Len(applied) \in Nat /\ Len(inbox) \in Nat
      /\ DOMAIN inbox = 1 .. Len(inbox)
  OBVIOUS
<1>2. Unconsumed = (Len(applied) + 1) .. Len(inbox)
  BY <1>1 DEF Unconsumed, InOrderExactlyOnce
<1>3. CASE Len(applied) < Len(inbox)
  <2>1. /\ Len(applied) + 1 \in Unconsumed
        /\ \A j \in Unconsumed : Len(applied) + 1 <= j
    BY <1>1, <1>2, <1>3
  <2>2. \A i \in Unconsumed :
          (\A j \in Unconsumed : i <= j) => i = Len(applied) + 1
    BY <1>1, <1>2, <2>1
  <2>3. NextInput = Len(applied) + 1
    BY <2>1, <2>2 DEF NextInput
  <2> QED BY <1>3, <2>3
<1>4. CASE ~(Len(applied) < Len(inbox))
  BY <1>1, <1>2, <1>4 DEF NextInput
<1> QED BY <1>3, <1>4

-----------------------------------------------------------------------------
(* Types *)

\* The loop leaves room for the step it is taking.
StepBound == pc \in {"submit", "failed", "commit"} => step < MaxSteps

TypeInv == TypeOK /\ StepBound /\ InOrderExactlyOnce

\* A head the harness can plan for gives a well-formed transition.
LEMMA PrepareType ==
  ASSUME TypeOK, InOrderExactlyOnce, ~PrepareThrows
  PROVE  Prepare \in Transitions
<1>1. NextInput = IF Len(applied) < Len(inbox) THEN Len(applied) + 1 ELSE 0
  BY HeadFollowsApplied DEF TypeOK, DurableTypes
<1>2. NextInput \in Nat
  BY <1>1 DEF TypeOK, DurableTypes
<1>3. CASE prepared # NoTransition
  BY <1>3 DEF Prepare, TypeOK, MemoryTypes
<1>4. CASE prepared = NoTransition /\ NextInput = 0
  BY <1>4 DEF Prepare, HeadTransition, NoTransition, Transitions
<1>5. CASE prepared = NoTransition /\ NextInput # 0
  <2>1. Plan(applied, inbox[NextInput].event) \subseteq Keys
    BY <1>5 DEF PrepareThrows
  <2>2. {NextInput} \X Plan(applied, inbox[NextInput].event) \subseteq Op
    BY <1>2, <1>5, <2>1 DEF Op
  <2>3. {NextInput} \X Plan(applied, inbox[NextInput].event) \subseteq {NextInput} \X Keys
    BY <2>1
  <2> QED BY <1>2, <1>5, <2>2, <2>3 DEF Prepare, HeadTransition, Transitions
<1> QED BY <1>3, <1>4, <1>5

\* insertInput's row has the type of an inbox row.
LEMMA NewRowType ==
  ASSUME NEW event \in Events
  PROVE  /\ NewRow(event) \in Rows
         /\ NewRow(event).event = event
         /\ ~NewRow(event).consumed
BY DEF NewRow, Rows

\* A new row at the end keeps the type and the order of the inbox.
LEMMA AppendKeepsInbox ==
  ASSUME inbox \in Seq(Rows), applied \in Seq(Events), InOrderExactlyOnce,
         NEW event \in Events, inbox' = Append(inbox, NewRow(event)),
         applied' = applied
  PROVE  inbox' \in Seq(Rows) /\ InOrderExactlyOnce'
BY NewRowType DEF InOrderExactlyOnce

\* failProcessing touches no row but the one it names, and of that one neither
\* the event nor whether it is consumed.
LEMMA FailKeepsEvents ==
  ASSUME inbox \in Seq(Rows), NEW seq \in Nat, NEW failures \in Nat,
         NEW handlerFailure \in BOOLEAN
  PROVE  LET rows == Fail(seq, failures, handlerFailure)
         IN  /\ rows \in Seq(Rows)
             /\ Len(rows) = Len(inbox)
             /\ \A i \in DOMAIN inbox :
                  /\ rows[i].event = inbox[i].event
                  /\ rows[i].consumed = inbox[i].consumed
                  /\ i # seq => rows[i] = inbox[i]
<1>1. CASE seq \in Unconsumed
  <2> DEFINE blocks == handlerFailure /\ failures + 1 >= MaxHandlerFailures
             row == [inbox[seq] EXCEPT
                       !.failures = @ + 1, !.blocked = blocks, !.waiting = ~blocks,
                       !.handlerFailures = IF handlerFailure THEN @ + 1 ELSE @]
  <2>1. seq \in DOMAIN inbox /\ inbox[seq] \in Rows
    BY <1>1 DEF Unconsumed
  <2>2. blocks \in BOOLEAN /\ (~blocks) \in BOOLEAN
    <3>1. blocks \in BOOLEAN
      BY BoundsAssumption
    <3> HIDE DEF blocks
    <3> QED BY <3>1
  <2>3. /\ row \in Rows
        /\ row.event = inbox[seq].event
        /\ row.consumed = inbox[seq].consumed
    <3> HIDE DEF blocks
    <3>1. /\ inbox[seq].failures + 1 \in Nat
          /\ (IF handlerFailure THEN inbox[seq].handlerFailures + 1
                                ELSE inbox[seq].handlerFailures) \in Nat
      BY <2>1 DEF Rows
    <3> QED BY <2>1, <2>2, <3>1 DEF Rows
  <2>4. Fail(seq, failures, handlerFailure) = [inbox EXCEPT ![seq] = row]
    BY <1>1, <2>1 DEF Fail, Rows
  <2> HIDE DEF row
  <2> QED BY <2>1, <2>3, <2>4
<1>2. CASE seq \notin Unconsumed
  BY <1>2 DEF Fail
<1> QED BY <1>1, <1>2

\* A session starts with the types and with nothing consumed.
LEMMA TypeInvInit == Init => TypeInv
<1> SUFFICES ASSUME Init PROVE TypeInv
  OBVIOUS
<1>1. /\ inbox \in Seq(Rows) /\ Len(inbox) = 0
      /\ applied \in Seq(Events) /\ Len(applied) = 0
      /\ DOMAIN pending = {} /\ DOMAIN receipts = {} /\ DOMAIN jobs = {}
  BY DEF Init
<1>2. /\ prepared \in Transitions
      /\ work \in [plan : Transitions, failures : Nat]
  BY DEF Init, NoTransition, Transitions, Idle
<1>3. admission \in [call : {"free", "resume"}, event : {NoEvent}]
  BY DEF Init, NoAdmission
<1>4. DurableTypes
  BY <1>1 DEF Init, DurableTypes
<1>0. step \in 0 .. MaxSteps /\ faults \in 0 .. MaxFaults
  BY BoundsAssumption DEF Init
<1>5. MemoryTypes
  BY <1>0, <1>1, <1>2 DEF Init, MemoryTypes
<1>6. SchedulerTypes
  BY <1>3 DEF Init, SchedulerTypes
<1>7. WorldTypes
  BY <1>0, <1>1 DEF Init, WorldTypes
<1> QED
  BY <1>1, <1>4, <1>5, <1>6, <1>7
     DEF Init, TypeInv, TypeOK, StepBound, InOrderExactlyOnce

\* The rows of a list of events, new in the inbox.
LEMMA NewRowsType ==
  ASSUME NEW q \in Seq(Events)
  PROVE  /\ [i \in DOMAIN q |-> NewRow(q[i])] \in Seq(Rows)
         /\ Len([i \in DOMAIN q |-> NewRow(q[i])]) = Len(q)
         /\ \A i \in DOMAIN q :
              /\ [j \in DOMAIN q |-> NewRow(q[j])][i].event = q[i]
              /\ ~[j \in DOMAIN q |-> NewRow(q[j])][i].consumed
BY NewRowType

\* What commit queues are completions of operations of the plan.
LEMMA QueuedType ==
  ASSUME TypeOK, NEW ops, ops \subseteq DOMAIN receipts
  PROVE  /\ QueuedCompletions(ops) \subseteq Events
         /\ IsFiniteSet(ops) => IsFiniteSet(QueuedCompletions(ops))
<1>1. QueuedCompletions(ops) \subseteq Events
  <2> SUFFICES ASSUME NEW op \in ops, receipts[op].status # "accepted"
               PROVE  Completion(op, receipts[op].job, receipts[op].outcome) \in Events
    BY DEF QueuedCompletions
  <2>1. op \in Op /\ receipts[op] \in Answers
    BY DEF TypeOK, MemoryTypes
  <2>2. [job |-> receipts[op].job, outcome |-> receipts[op].outcome] \in CompletionBodies
    BY <2>1 DEF Answers, CompletionBodies
  <2> QED BY <2>1, <2>2 DEF Completion, Events
<1>2. ASSUME IsFiniteSet(ops) PROVE IsFiniteSet(QueuedCompletions(ops))
  <2> DEFINE kept == {o \in ops : receipts[o].status # "accepted"}
  <2>1. IsFiniteSet(kept)
    BY <1>2, FS_Subset
  <2> DEFINE queue == [op \in kept |->
                         Completion(op, receipts[op].job, receipts[op].outcome)]
  <2>2. queue \in Surjection(kept, QueuedCompletions(ops))
    BY DEF Surjection, QueuedCompletions
  <2> QED BY <2>1, <2>2, FS_Surjection
<1> QED BY <1>1, <1>2


-----------------------------------------------------------------------------
(* Type invariant: admissions *)

\* Starting or kicking a drain.
LEMMA KickTypes ==
  ASSUME TypeInv, Kick
  PROVE  /\ step' \in 0 .. MaxSteps
         /\ pc' \in {"idle", "arm", "loop", "submit", "failed", "commit", "final", "ending"}
         /\ requested' \in BOOLEAN
         /\ StepBound'
<1>1. requested' \in BOOLEAN
  BY DEF Kick
<1>2. CASE pc = "idle"
  BY <1>1, <1>2, BoundsAssumption DEF Kick, Start, StepBound
<1>3. CASE pc # "idle"
  BY <1>1, <1>3 DEF Kick, Start, StepBound, TypeInv, TypeOK, MemoryTypes, SchedulerTypes
<1> QED BY <1>2, <1>3

\* Admissions: whichever event or reset they write, they keep the types.
LEMMA AdmittedTypes ==
  ASSUME TypeInv, inbox' \in Seq(Rows), InOrderExactlyOnce', Admitted,
         UNCHANGED <<session, applied, pending, alarm, prepared, submission, world>>
  PROVE  TypeInv'
<1>1. /\ step' \in 0 .. MaxSteps
      /\ pc' \in {"idle", "arm", "loop", "submit", "failed", "commit", "final", "ending"}
      /\ requested' \in BOOLEAN
      /\ StepBound'
  BY KickTypes DEF Admitted
<1>2. DurableTypes'
  BY DEF TypeInv, TypeOK, DurableTypes
<1>3. MemoryTypes'
  BY <1>1 DEF TypeInv, TypeOK, MemoryTypes, submission
<1>4. SchedulerTypes'
  BY <1>1 DEF Admitted, NoAdmission, SchedulerTypes
<1>5. WorldTypes'
  BY DEF TypeInv, TypeOK, WorldTypes, world
<1> QED BY <1>1, <1>2, <1>3, <1>4, <1>5 DEF TypeInv, TypeOK


\* resetProcessing changes neither events nor consumption.
LEMMA ResetKeepsEvents ==
  ASSUME TypeInv
  PROVE  /\ ResetHead \in Seq(Rows)
         /\ Len(ResetHead) = Len(inbox)
         /\ \A i \in DOMAIN inbox :
              /\ ResetHead[i].event = inbox[i].event
              /\ ResetHead[i].consumed = inbox[i].consumed
              /\ i # NextInput => ResetHead[i] = inbox[i]
<1>1. NextInput = IF Len(applied) < Len(inbox) THEN Len(applied) + 1 ELSE 0
  BY HeadFollowsApplied DEF TypeInv, TypeOK, DurableTypes
<1>2. inbox \in Seq(Rows)
  BY DEF TypeInv, TypeOK, DurableTypes
<1>3. CASE NextInput # 0 /\ (inbox[NextInput].failures # 0 \/ inbox[NextInput].blocked)
  <2> DEFINE row == [inbox[NextInput] EXCEPT !.failures = 0, !.blocked = FALSE,
                                             !.waiting = FALSE, !.handlerFailures = 0]
  <2>1. NextInput \in DOMAIN inbox /\ inbox[NextInput] \in Rows
    BY <1>1, <1>2, <1>3 DEF TypeInv, TypeOK, DurableTypes
  <2>2. /\ row \in Rows
        /\ row.event = inbox[NextInput].event
        /\ row.consumed = inbox[NextInput].consumed
    BY <2>1 DEF Rows
  <2>3. ResetHead = [inbox EXCEPT ![NextInput] = row]
    BY <1>3, <2>1 DEF ResetHead, Rows
  <2> HIDE DEF row
  <2> QED BY <1>2, <2>1, <2>2, <2>3
<1>4. CASE ~(NextInput # 0 /\ (inbox[NextInput].failures # 0 \/ inbox[NextInput].blocked))
  BY <1>2, <1>4 DEF ResetHead
<1> QED BY <1>3, <1>4

\* Rewriting rows without touching events or consumption keeps the order.
LEMMA RewriteKeepsOrder ==
  ASSUME TypeInv, inbox' \in Seq(Rows), Len(inbox') = Len(inbox),
         \A i \in DOMAIN inbox : /\ inbox'[i].event = inbox[i].event
                                 /\ inbox'[i].consumed = inbox[i].consumed,
         applied' = applied
  PROVE  InOrderExactlyOnce'
<1>1. /\ inbox \in Seq(Rows)
      /\ InOrderExactlyOnce
  BY DEF TypeInv, TypeOK, DurableTypes
<1>2. DOMAIN inbox' = DOMAIN inbox
  BY <1>1
<1> QED BY <1>1, <1>2 DEF InOrderExactlyOnce

\* appendInput, acceptCompletion, resumeProcessing and initialize keep types and order.
LEMMA AdmissionTypes ==
  ASSUME TypeInv, Admission
  PROVE  TypeInv'
<1> USE DEF TypeInv, TypeOK
<1>0. inbox \in Seq(Rows) /\ applied \in Seq(Events) /\ InOrderExactlyOnce
  BY DEF DurableTypes
<1>1. CASE Initialize
  <2>1. DurableTypes'
    BY <1>1 DEF Initialize, DurableTypes
  <2>2. MemoryTypes' /\ StepBound'
    BY <1>1 DEF Initialize, MemoryTypes, memory, submission, StepBound, scheduler
  <2>3. SchedulerTypes' /\ WorldTypes'
    BY <1>1 DEF Initialize, SchedulerTypes, WorldTypes, scheduler, world
  <2> QED BY <1>1, <2>1, <2>2, <2>3 DEF Initialize, InOrderExactlyOnce
<1>2. ASSUME NEW call \in {"append", "completion"}, NEW event \in Events,
             Arm(call, event), UNCHANGED <<submission, step>>,
             prepared' \in Transitions
      PROVE  TypeInv'
  <2>1. DurableTypes' /\ InOrderExactlyOnce'
    BY <1>2 DEF Arm, DurableTypes, durable, InOrderExactlyOnce
  <2>2. MemoryTypes' /\ StepBound'
    BY <1>2 DEF Arm, MemoryTypes, submission, StepBound
  <2>3. SchedulerTypes' /\ WorldTypes'
    BY <1>2 DEF Arm, SchedulerTypes, WorldTypes, world
  <2> QED BY <2>1, <2>2, <2>3
<1>3. ASSUME NEW id \in InputIds, NEW body \in Bodies, AppendArm(id, body)
      PROVE  TypeInv'
  <2>1. [kind |-> "input", id |-> id, body |-> body] \in Events
    BY DEF Events
  <2>2. prepared' \in Transitions
    BY <1>3 DEF AppendArm, memory, MemoryTypes
  <2> QED BY <1>2, <1>3, <2>1, <2>2 DEF AppendArm, memory
<1>4. CASE AppendNew
  <2>1. admission.event \in Events
    BY <1>4 DEF AppendNew, SchedulerTypes
  <2>2. inbox' \in Seq(Rows) /\ InOrderExactlyOnce'
    BY <1>0, <1>4, <2>1, AppendKeepsInbox DEF AppendNew
  <2> QED BY <1>4, <2>2, AdmittedTypes DEF AppendNew
<1>5. CASE AppendDuplicate
  <2>1. inbox' \in Seq(Rows) /\ InOrderExactlyOnce'
    BY <1>0, <1>5 DEF AppendDuplicate, durable, InOrderExactlyOnce
  <2> QED BY <1>5, <2>1, AdmittedTypes DEF AppendDuplicate, durable
<1>6. ASSUME Refused, UNCHANGED <<durable, alarm, prepared, submission, world>>
      PROVE  TypeInv'
  <2>1. DurableTypes' /\ InOrderExactlyOnce'
    BY <1>6 DEF DurableTypes, durable, InOrderExactlyOnce
  <2>2. MemoryTypes' /\ StepBound'
    BY <1>6 DEF Refused, MemoryTypes, submission, StepBound
  <2>3. SchedulerTypes' /\ WorldTypes'
    BY <1>6 DEF Refused, NoAdmission, SchedulerTypes, WorldTypes, world
  <2> QED BY <2>1, <2>2, <2>3
<1>7. CASE AppendRefused
  BY <1>6, <1>7 DEF AppendRefused
<1>8. ASSUME NEW op, CheckPrepares(op)
      PROVE  prepared' \in Transitions
  BY <1>8, PrepareType DEF CheckPrepares, MemoryTypes
<1>9. ASSUME NEW op \in DOMAIN jobs, CompletionArm(op)
      PROVE  TypeInv'
  <2>1. op \in Op /\ jobs[op] \in Jobs /\ jobs[op].status = "finished"
    BY <1>9 DEF WorldTypes, CompletionArm
  <2>2. Callback(op) \in Events
    BY <2>1 DEF Callback, Completion, Events, CompletionBodies, Jobs
  <2>3. prepared' \in Transitions
    BY <1>8, <1>9 DEF CompletionArm
  <2> QED BY <1>2, <1>9, <2>2, <2>3 DEF CompletionArm
<1>10. ASSUME NEW op, CompletionRefused(op)
       PROVE  TypeInv'
  <2>1. prepared' \in Transitions
    BY <1>8, <1>10 DEF CompletionRefused
  <2>2. DurableTypes' /\ InOrderExactlyOnce'
    BY <1>10 DEF CompletionRefused, DurableTypes, durable, InOrderExactlyOnce
  <2>3. MemoryTypes' /\ StepBound'
    BY <1>10, <2>1 DEF CompletionRefused, MemoryTypes, submission, StepBound, scheduler
  <2>4. SchedulerTypes' /\ WorldTypes'
    BY <1>10 DEF CompletionRefused, SchedulerTypes, WorldTypes, scheduler, world
  <2> QED BY <2>2, <2>3, <2>4
<1>11. CASE CompletionCommit
  <2>1. admission.event \in Events
    BY <1>11 DEF CompletionCommit, SchedulerTypes
  <2>2. inbox' \in Seq(Rows) /\ InOrderExactlyOnce'
    <3>1. CASE inbox' = inbox
      BY <1>0, <1>11, <3>1 DEF CompletionCommit, InOrderExactlyOnce
    <3>2. CASE inbox' = Append(inbox, NewRow(admission.event))
      BY <1>0, <1>11, <2>1, <3>2, AppendKeepsInbox DEF CompletionCommit
    <3> QED BY <1>11, <3>1, <3>2 DEF CompletionCommit
  <2> QED BY <1>11, <2>2, AdmittedTypes DEF CompletionCommit
<1>12. CASE ResumeArm
  <2>1. DurableTypes' /\ InOrderExactlyOnce'
    BY <1>12 DEF ResumeArm, Arm, DurableTypes, durable, InOrderExactlyOnce
  <2>2. MemoryTypes' /\ StepBound'
    BY <1>12 DEF ResumeArm, Arm, MemoryTypes, memory, submission, StepBound
  <2>3. SchedulerTypes' /\ WorldTypes'
    BY <1>12 DEF ResumeArm, Arm, SchedulerTypes, WorldTypes, world
  <2> QED BY <2>1, <2>2, <2>3
<1>13. CASE ResumeCommit
  <2>1. inbox' \in Seq(Rows)
    BY <1>13, ResetKeepsEvents DEF ResumeCommit
  <2>2. InOrderExactlyOnce'
    BY <1>13, <2>1, ResetKeepsEvents, RewriteKeepsOrder DEF ResumeCommit
  <2> QED BY <1>13, <2>1, <2>2, AdmittedTypes DEF ResumeCommit
<1>14. CASE ResumeRefused
  BY <1>6, <1>14 DEF ResumeRefused
<1> QED
  BY <1>1, <1>3, <1>4, <1>5, <1>7, <1>9, <1>10, <1>11, <1>12, <1>13, <1>14
     DEF Admission


-----------------------------------------------------------------------------
(* Type invariant: the drain *)

\* A step that only moves the drain's program counter, outside the loop body.
LEMMA PcTypes ==
  ASSUME TypeInv, pc' \in {"idle", "arm", "final", "ending"},
         UNCHANGED <<durable, alarm, memory, admission, requested, firing, jobs>>,
         faults' \in 0 .. MaxFaults
  PROVE  TypeInv'
<1>1. DurableTypes' /\ InOrderExactlyOnce'
  BY DEF TypeInv, TypeOK, DurableTypes, durable, InOrderExactlyOnce
<1>2. MemoryTypes' /\ StepBound'
  BY DEF TypeInv, TypeOK, MemoryTypes, memory, submission, StepBound
<1>3. SchedulerTypes' /\ WorldTypes'
  BY DEF TypeInv, TypeOK, SchedulerTypes, WorldTypes
<1> QED BY <1>1, <1>2, <1>3 DEF TypeInv, TypeOK

\* Counting a fault keeps the bound on faults.
LEMMA FaultType ==
  ASSUME faults \in 0 .. MaxFaults, Fault
  PROVE  faults' \in 0 .. MaxFaults
BY BoundsAssumption DEF Fault

\* A step that records a failure on a row and goes to the end of the drain.
LEMMA FailTypes ==
  ASSUME TypeInv, NEW seq \in Nat, NEW failures \in Nat,
         NEW handlerFailure \in BOOLEAN,
         inbox' = Fail(seq, failures, handlerFailure), pc' = "final",
         UNCHANGED <<session, applied, pending, alarm, memory, admission,
                     requested, firing, jobs>>,
         faults' \in 0 .. MaxFaults
  PROVE  TypeInv'
<1> USE DEF TypeInv, TypeOK
<1>0. inbox \in Seq(Rows)
  BY DEF DurableTypes
<1>1. inbox' \in Seq(Rows) /\ InOrderExactlyOnce'
  BY <1>0, FailKeepsEvents, RewriteKeepsOrder
<1>2. DurableTypes'
  BY <1>1 DEF DurableTypes
<1>3. MemoryTypes' /\ StepBound'
  BY DEF MemoryTypes, memory, submission, StepBound
<1>4. SchedulerTypes' /\ WorldTypes'
  BY DEF SchedulerTypes, WorldTypes
<1> QED BY <1>1, <1>2, <1>3, <1>4

\* A step of #submit: it moves operations and collects answers.
LEMMA SubmitTypes ==
  ASSUME TypeInv, UNCHANGED <<durable, alarm, prepared, receiptInput, work, step,
                              scheduler, firing>>,
         todo' \subseteq todo, flight' \subseteq flight \cup todo,
         failed' \in BOOLEAN,
         DOMAIN receipts' \subseteq Op, \A op \in DOMAIN receipts' : receipts'[op] \in Answers,
         DOMAIN jobs' \subseteq Op, \A op \in DOMAIN jobs' : jobs'[op] \in Jobs,
         faults' \in 0 .. MaxFaults
  PROVE  TypeInv'
<1> USE DEF TypeInv, TypeOK
<1>1. DurableTypes' /\ InOrderExactlyOnce'
  BY DEF DurableTypes, durable, InOrderExactlyOnce
<1>2. MemoryTypes' /\ StepBound'
  BY DEF MemoryTypes, StepBound, scheduler
<1>3. SchedulerTypes' /\ WorldTypes'
  BY DEF SchedulerTypes, WorldTypes, scheduler
<1> QED BY <1>1, <1>2, <1>3

\* Put extends a function by one entry: #receipts.set and the insert of a pending row.
LEMMA PutType ==
  ASSUME NEW f, NEW D, NEW S, DOMAIN f \subseteq D, \A y \in DOMAIN f : f[y] \in S,
         NEW x \in D, NEW v \in S
  PROVE  /\ DOMAIN Put(f, x, v) = DOMAIN f \cup {x}
         /\ DOMAIN Put(f, x, v) \subseteq D
         /\ \A y \in DOMAIN Put(f, x, v) : Put(f, x, v)[y] \in S
BY DEF Put

\* What a provider answers from its job has the type of an answer.
LEMMA AnswersType ==
  ASSUME NEW job \in Jobs, NEW answer \in AnswersFor(job)
  PROVE  /\ answer \in Answers
         /\ answer.status = "rejected" => job.status = "rejected"
         /\ answer.status = "accepted" => job.status \in {"accepted", "finished"}
         /\ answer.status = "completed" => job.status = "finished" /\ answer.outcome = job.outcome
         /\ answer.job = job.job
<1>1. CASE job.status = "sent"
  BY <1>1 DEF AnswersFor, Jobs
<1>2. CASE job.status = "rejected"
  BY <1>2 DEF AnswersFor, Jobs, Answers
<1>3. CASE job.status = "accepted"
  BY <1>3 DEF AnswersFor, Jobs, Answers
<1>4. CASE job.status = "finished"
  <2>1. job \in [status : {"finished"}, job : JobIds, outcome : Outcomes]
    BY <1>4 DEF Jobs
  <2>2. answer = [job EXCEPT !.status = "completed"]
          \/ answer = [job EXCEPT !.status = "accepted", !.outcome = "none"]
    BY <1>4 DEF AnswersFor
  <2> QED BY <1>4, <2>1, <2>2 DEF Answers
<1> QED BY <1>1, <1>2, <1>3, <1>4 DEF Jobs


\* The operations of a transition are finitely many.
LEMMA TransitionFinite ==
  ASSUME NEW t \in Transitions
  PROVE  IsFiniteSet(t.ops)
<1>1. IsFiniteSet({t.seq}) /\ IsFiniteSet(Keys)
  BY FS_Singleton, HarnessAssumption
<1>2. IsFiniteSet({t.seq} \X Keys)
  BY <1>1, FS_Product
<1> QED BY <1>2, FS_Subset DEF Transitions

\* A list of distinct fresh events is a sequence of them.
LEMMA OrdersType ==
  ASSUME NEW events, events \subseteq Events, IsFiniteSet(events),
         NEW q \in Orders(events)
  PROVE  /\ q \in Seq(Events)
         /\ \A i \in DOMAIN q : q[i] \in events
         /\ \A i, j \in DOMAIN q : q[i] = q[j] => i = j
         /\ \A event \in events : \E i \in DOMAIN q : q[i] = event
<1>1. Cardinality(events) \in Nat
  BY FS_CardinalityType
<1>2. q \in [1 .. Cardinality(events) -> events]
  BY DEF Orders
<1>3. q \in Seq(Events)
  BY <1>1, <1>2
<1> QED BY <1>2, <1>3 DEF Orders

\* consumeInput marks one row and keeps its event.
LEMMA ConsumeKeepsEvents ==
  ASSUME NEW old \in Seq(Rows), NEW seq \in 1 .. Len(old)
  PROVE  LET rows == Consume(old, seq)
         IN  /\ rows \in Seq(Rows)
             /\ Len(rows) = Len(old)
             /\ rows[seq].event = old[seq].event
             /\ rows[seq].consumed
             /\ ~rows[seq].blocked
             /\ \A i \in 1 .. Len(old) : i # seq => rows[i] = old[i]
<1> DEFINE row == [old[seq] EXCEPT
                     !.consumed = TRUE, !.failures = 0, !.blocked = FALSE,
                     !.waiting = FALSE, !.handlerFailures = 0]
<1>1. old[seq] \in Rows
  OBVIOUS
<1>2. /\ row \in Rows /\ row.event = old[seq].event
      /\ row.consumed = TRUE /\ row.blocked = FALSE
  BY <1>1 DEF Rows
<1>3. Consume(old, seq) = [old EXCEPT ![seq] = row]
  BY <1>1 DEF Consume, Rows
<1> HIDE DEF row
<1>4. /\ [old EXCEPT ![seq] = row] \in Seq(Rows)
      /\ Len([old EXCEPT ![seq] = row]) = Len(old)
      /\ \A j \in 1 .. Len(old) :
           [old EXCEPT ![seq] = row][j] = IF j = seq THEN row ELSE old[j]
  BY <1>2, ExceptSeq
<1> QED BY <1>2, <1>3, <1>4

\* Rows queued at the end of an inbox leave its own rows where they are.
LEMMA ConcatRows ==
  ASSUME NEW rows \in Seq(Rows), NEW new \in Seq(Rows)
  PROVE  /\ rows \o new \in Seq(Rows)
         /\ Len(rows \o new) = Len(rows) + Len(new)
         /\ \A i \in 1 .. Len(rows) : (rows \o new)[i] = rows[i]
         /\ \A i \in 1 .. Len(new) : (rows \o new)[Len(rows) + i] = new[i]
<1>1. /\ rows \o new \in Seq(Rows)
      /\ Len(rows \o new) = Len(rows) + Len(new)
      /\ \A i \in 1 .. Len(rows) + Len(new) :
           (rows \o new)[i] = IF i <= Len(rows) THEN rows[i] ELSE new[i - Len(rows)]
  BY ConcatProperties
<1>2. Len(rows) \in Nat /\ Len(new) \in Nat
  OBVIOUS
<1> QED BY <1>1, <1>2

\* What the commit of the head does to the inbox.
LEMMA CommitInbox ==
  ASSUME TypeInv, NextInput # 0, NEW q \in Seq(Events), NEW rows, NEW new,
         rows = Consume(inbox, NextInput),
         new = [i \in DOMAIN q |-> NewRow(q[i])],
         inbox' = rows \o new,
         applied' = Append(applied, inbox[NextInput].event)
  PROVE  /\ inbox' \in Seq(Rows)
         /\ applied' \in Seq(Events)
         /\ Len(inbox') = Len(inbox) + Len(q)
         /\ Len(applied') = Len(applied) + 1
         /\ \A i \in 1 .. Len(inbox) :
              /\ inbox'[i].event = inbox[i].event
              /\ i # NextInput => inbox'[i] = inbox[i]
         /\ inbox'[NextInput].consumed
         /\ ~inbox'[NextInput].blocked
         /\ \A i \in 1 .. Len(q) : inbox'[Len(inbox) + i] = NewRow(q[i])
         /\ InOrderExactlyOnce'
<1>1. inbox \in Seq(Rows) /\ applied \in Seq(Events) /\ InOrderExactlyOnce
  BY DEF TypeInv, TypeOK, DurableTypes
<1>2. /\ NextInput = Len(applied) + 1 /\ NextInput \in 1 .. Len(inbox)
      /\ inbox[NextInput] \in Rows
      /\ inbox[NextInput].event \in Events
  <2>1. NextInput = Len(applied) + 1 /\ NextInput \in 1 .. Len(inbox)
    BY <1>1, HeadFollowsApplied
  <2>2. inbox[NextInput] \in Rows
    BY <1>1, <2>1
  <2> QED BY <2>1, <2>2 DEF Rows
<1>3. /\ rows \in Seq(Rows)
      /\ Len(rows) = Len(inbox)
      /\ rows[NextInput].event = inbox[NextInput].event
      /\ rows[NextInput].consumed
      /\ ~rows[NextInput].blocked
      /\ \A i \in 1 .. Len(inbox) : i # NextInput => rows[i] = inbox[i]
  BY <1>1, <1>2, ConsumeKeepsEvents
<1>4. /\ new \in Seq(Rows)
      /\ Len(new) = Len(q)
      /\ \A i \in 1 .. Len(q) : new[i] = NewRow(q[i])
  BY NewRowsType
<1>5. /\ inbox' \in Seq(Rows)
      /\ Len(inbox') = Len(inbox) + Len(q)
      /\ \A i \in 1 .. Len(inbox) : inbox'[i] = rows[i]
      /\ \A i \in 1 .. Len(q) : inbox'[Len(inbox) + i] = NewRow(q[i])
  <2>1. /\ inbox' \in Seq(Rows)
        /\ Len(inbox') = Len(rows) + Len(new)
        /\ \A i \in 1 .. Len(rows) : inbox'[i] = rows[i]
        /\ \A i \in 1 .. Len(new) : inbox'[Len(rows) + i] = new[i]
    <3>1. rows \in Seq(Rows) /\ new \in Seq(Rows)
      BY <1>3, <1>4
    <3>2. /\ rows \o new \in Seq(Rows)
          /\ Len(rows \o new) = Len(rows) + Len(new)
          /\ \A i \in 1 .. Len(rows) : (rows \o new)[i] = rows[i]
          /\ \A i \in 1 .. Len(new) : (rows \o new)[Len(rows) + i] = new[i]
      BY <3>1, ConcatRows, Zenon
    <3> QED BY <3>2, Zenon
  <2> QED BY <1>3, <1>4, <2>1, Zenon
<1>6. /\ applied' \in Seq(Events)
      /\ Len(applied') = Len(applied) + 1
      /\ \A i \in 1 .. Len(applied) : applied'[i] = applied[i]
      /\ applied'[NextInput] = inbox[NextInput].event
  BY <1>1, <1>2, AppendProperties
<1>7. Len(applied) \in Nat /\ Len(inbox) \in Nat /\ Len(q) \in Nat
  BY <1>1
<1>8. InOrderExactlyOnce'
  <2>1. Len(applied') <= Len(inbox')
    BY <1>2, <1>5, <1>6, <1>7
  <2>2. ASSUME NEW i \in 1 .. Len(inbox')
        PROVE  /\ inbox'[i].consumed <=> i <= Len(applied')
               /\ inbox'[i].consumed => applied'[i] = inbox'[i].event
    <3>1. CASE i = NextInput
      BY <1>2, <1>3, <1>5, <1>6, <3>1
    <3>2. CASE i \in 1 .. Len(inbox) /\ i # NextInput
      <4>1. inbox'[i] = inbox[i]
        BY <1>3, <1>5, <3>2
      <4>2. /\ inbox[i].consumed <=> i <= Len(applied)
            /\ inbox[i].consumed => applied[i] = inbox[i].event
        BY <1>1, <3>2 DEF InOrderExactlyOnce
      <4>3. i <= Len(applied') <=> i <= Len(applied)
        BY <1>2, <1>6, <1>7, <3>2
      <4>4. i <= Len(applied) => applied'[i] = applied[i]
        BY <1>6, <1>7, <3>2
      <4> QED BY <4>1, <4>2, <4>3, <4>4
    <3>3. CASE i \notin 1 .. Len(inbox)
      <4>1. i - Len(inbox) \in 1 .. Len(q) /\ i = Len(inbox) + (i - Len(inbox))
        BY <1>5, <1>7, <3>3
      <4>2. inbox'[i] = NewRow(q[i - Len(inbox)])
        BY <1>5, <4>1
      <4>3. ~inbox'[i].consumed
        BY <4>2 DEF NewRow
      <4>4. ~(i <= Len(applied'))
        BY <1>2, <1>5, <1>6, <1>7, <3>3
      <4> QED BY <4>3, <4>4
    <3> QED BY <3>1, <3>2, <3>3
  <2>3. DOMAIN inbox' = 1 .. Len(inbox')
    BY <1>5
  <2> QED BY <2>1, <2>2, <2>3 DEF InOrderExactlyOnce
<1> QED BY <1>2, <1>3, <1>5, <1>6, <1>8


\* The commit, with the events it queues named.
LEMMA CommitQueues ==
  ASSUME TypeInv, Commit
  PROVE  /\ NextInput # 0
         /\ prepared.ops \subseteq DOMAIN receipts
         /\ \E q \in Seq(Events) :
              /\ inbox' = Consume(inbox, NextInput) \o [i \in DOMAIN q |-> NewRow(q[i])]
              /\ \A i \in 1 .. Len(q) :
                   /\ q[i] \in QueuedCompletions(prepared.ops)
                   /\ FindInput("completed", q[i].id) = {}
              /\ \A i, j \in 1 .. Len(q) : q[i] = q[j] => i = j
              /\ \A event \in QueuedCompletions(prepared.ops) :
                   \/ FindInput("completed", event.id) # {}
                   \/ \E i \in 1 .. Len(q) : q[i] = event
<1>1. prepared.ops \subseteq DOMAIN receipts /\ NextInput # 0
  BY DEF Commit, CommitAllowed
<1> DEFINE fresh == {e \in QueuedCompletions(prepared.ops) : FindInput("completed", e.id) = {}}
<1>2. prepared \in Transitions
  BY DEF TypeInv, TypeOK, MemoryTypes
<1>3. fresh \subseteq Events /\ IsFiniteSet(fresh)
  <2>1. IsFiniteSet(QueuedCompletions(prepared.ops)) /\ QueuedCompletions(prepared.ops) \subseteq Events
    BY <1>1, <1>2, TransitionFinite, QueuedType DEF TypeInv
  <2> QED BY <2>1, FS_Subset
<1>4. PICK q \in Orders(fresh) :
        inbox' = Consume(inbox, NextInput) \o [i \in DOMAIN q |-> NewRow(q[i])]
  BY Zenon DEF Commit
<1>5. /\ q \in Seq(Events)
      /\ \A i \in DOMAIN q : q[i] \in fresh
      /\ \A i, j \in DOMAIN q : q[i] = q[j] => i = j
      /\ \A event \in fresh : \E i \in DOMAIN q : q[i] = event
  <2> HIDE DEF fresh
  <2> QED BY <1>3, OrdersType
<1>6. DOMAIN q = 1 .. Len(q)
  BY <1>5
<1> QED BY <1>1, <1>4, <1>5, <1>6

\* commit keeps types and order.
LEMMA CommitTypes ==
  ASSUME TypeInv, Commit
  PROVE  TypeInv'
<1>1. PICK q \in Seq(Events) :
        inbox' = Consume(inbox, NextInput) \o [i \in DOMAIN q |-> NewRow(q[i])]
  BY CommitQueues
<1>2. NextInput # 0 /\ prepared.ops \subseteq DOMAIN receipts
  BY CommitQueues
<1>3. applied' = Append(applied, inbox[NextInput].event)
  BY Zenon DEF Commit
<1>4. inbox' \in Seq(Rows) /\ applied' \in Seq(Events) /\ InOrderExactlyOnce'
  BY <1>1, <1>2, <1>3, CommitInbox
<1>5. DOMAIN pending' \subseteq Op /\ \A op \in DOMAIN pending' : pending'[op] \in JobIds
  <2>1. pending' = CommittedPending(prepared.ops, inbox[NextInput].event)
    BY Zenon DEF Commit
  <2>2. Accepted(prepared.ops) \subseteq Op
    BY <1>2 DEF Accepted, TypeInv, TypeOK, MemoryTypes
  <2>3. \A op \in Accepted(prepared.ops) : receipts[op].job \in JobIds
    BY <1>2 DEF Accepted, Answers, TypeInv, TypeOK, MemoryTypes
  <2>4. DOMAIN pending \subseteq Op /\ \A op \in DOMAIN pending : pending[op] \in JobIds
    BY DEF TypeInv, TypeOK, DurableTypes
  <2> QED BY <2>1, <2>2, <2>3, <2>4 DEF CommittedPending
<1>6. DurableTypes'
  BY <1>4, <1>5 DEF DurableTypes, Commit, TypeInv, TypeOK
<1>7. MemoryTypes' /\ StepBound'
  <2>1. step' \in 0 .. MaxSteps
    BY BoundsAssumption DEF Commit, TypeInv, TypeOK, MemoryTypes, StepBound
  <2>2. prepared' \in Transitions /\ work' \in [plan : Transitions, failures : Nat]
    BY DEF Commit, NoTransition, Transitions, Idle
  <2>3. DOMAIN receipts' = {} /\ receiptInput' \in Nat
    BY DEF Commit
  <2>4. /\ todo' \subseteq Op /\ flight' \subseteq Op /\ failed' \in BOOLEAN
        /\ pc' = "loop"
    BY DEF Commit, TypeInv, TypeOK, MemoryTypes
  <2> QED BY <2>1, <2>2, <2>3, <2>4 DEF MemoryTypes, StepBound
<1>8. SchedulerTypes' /\ WorldTypes'
  <2>1. pc' = "loop" /\ UNCHANGED <<alarm, admission, requested, firing, jobs, faults>>
    BY DEF Commit, world
  <2> QED BY <2>1 DEF TypeInv, TypeOK, SchedulerTypes, WorldTypes
<1> QED BY <1>4, <1>6, <1>7, <1>8 DEF TypeInv, TypeOK

\* Every step of #drain and #submit keeps types and order.
LEMMA DrainTypes ==
  ASSUME TypeInv, Drain
  PROVE  TypeInv'
<1>0. /\ inbox \in Seq(Rows) /\ applied \in Seq(Events) /\ InOrderExactlyOnce
      /\ faults \in 0 .. MaxFaults
  BY DEF TypeInv, TypeOK, DurableTypes, WorldTypes
<1>00. /\ NextInput \in Nat
       /\ NextInput # 0 => NextInput \in DOMAIN inbox /\ inbox[NextInput].failures \in Nat
  <2>1. NextInput = IF Len(applied) < Len(inbox) THEN Len(applied) + 1 ELSE 0
    BY <1>0, HeadFollowsApplied
  <2>2. NextInput # 0 => NextInput \in DOMAIN inbox
    BY <1>0, <2>1
  <2>3. NextInput # 0 => inbox[NextInput] \in Rows
    BY <1>0, <2>2
  <2>4. NextInput \in Nat
    BY <1>0, <2>1
  <2> QED BY <2>2, <2>3, <2>4 DEF Rows
<1>1. CASE DrainArm
  <2>1. DurableTypes' /\ InOrderExactlyOnce'
    BY <1>1 DEF DrainArm, DurableTypes, durable, InOrderExactlyOnce, TypeInv, TypeOK
  <2>2. MemoryTypes' /\ StepBound'
    BY <1>1, BoundsAssumption
       DEF DrainArm, MemoryTypes, submission, StepBound, TypeInv, TypeOK
  <2>3. SchedulerTypes' /\ WorldTypes'
    BY <1>1 DEF DrainArm, SchedulerTypes, WorldTypes, world, TypeInv, TypeOK
  <2> QED BY <2>1, <2>2, <2>3 DEF TypeInv, TypeOK
<1>2. CASE SliceEnd
  BY <1>0, <1>2, PcTypes DEF SliceEnd, world
<1>3. CASE LoopStop
  BY <1>0, <1>3, PcTypes DEF LoopStop, world
<1>4. CASE LoopPrepare
  <2>1. Prepare \in Transitions
    BY <1>4, PrepareType DEF LoopPrepare, TypeInv
  <2>2. Prepare.seq \in Nat /\ Prepare.ops \subseteq Op
    BY <2>1 DEF Transitions
  <2>3. inbox[NextInput].failures \in Nat
    BY <1>00, <1>4 DEF LoopPrepare, Runnable
  <2>4. DurableTypes' /\ InOrderExactlyOnce'
    BY <1>4 DEF LoopPrepare, DurableTypes, durable, InOrderExactlyOnce, TypeInv, TypeOK
  <2>5. DOMAIN receipts' \subseteq Op /\ \A op \in DOMAIN receipts' : receipts'[op] \in Answers
    BY <1>4 DEF LoopPrepare, MemoryTypes, TypeInv, TypeOK
  <2>6. MemoryTypes' /\ StepBound'
    BY <1>4, <2>1, <2>2, <2>3, <2>5
       DEF LoopPrepare, MemoryTypes, StepBound, TypeInv, TypeOK
  <2>7. SchedulerTypes' /\ WorldTypes'
    BY <1>4 DEF LoopPrepare, SchedulerTypes, WorldTypes, world, TypeInv, TypeOK
  <2> QED BY <2>4, <2>6, <2>7 DEF TypeInv, TypeOK
<1>5. CASE LoopPrepareFails
  <2>1. faults' \in 0 .. MaxFaults
    BY <1>0, <1>5, FaultType DEF LoopPrepareFails
  <2>2. inbox[NextInput].failures \in Nat
    BY <1>00, <1>5 DEF LoopPrepareFails, Runnable
  <2> QED BY <1>00, <1>5, <2>1, <2>2, FailTypes DEF LoopPrepareFails
<1>6. ASSUME NEW op \in todo, SubmitSend(op) PROVE TypeInv'
  <2>1. [status |-> "sent", job |-> "none", outcome |-> "none"] \in Jobs
    BY DEF Jobs
  <2>2. /\ op \in Op /\ DOMAIN jobs \subseteq Op
        /\ \A o \in DOMAIN jobs : jobs[o] \in Jobs
        /\ DOMAIN receipts \subseteq Op
        /\ \A o \in DOMAIN receipts : receipts[o] \in Answers
        /\ failed \in BOOLEAN
    BY DEF TypeInv, TypeOK, MemoryTypes, WorldTypes
  <2>3. DOMAIN jobs' \subseteq Op /\ \A o \in DOMAIN jobs' : jobs'[o] \in Jobs
    <3>1. CASE op \in DOMAIN jobs
      BY <1>6, <2>2, <3>1 DEF SubmitSend
    <3>2. CASE op \notin DOMAIN jobs
      <4>1. jobs' = Put(jobs, op, [status |-> "sent", job |-> "none", outcome |-> "none"])
        BY <1>6, <3>2 DEF SubmitSend
      <4> QED BY <2>1, <2>2, <4>1 DEF Put
    <3> QED BY <3>1, <3>2
  <2> QED BY <1>0, <1>6, <2>2, <2>3, SubmitTypes DEF SubmitSend
<1>7. ASSUME NEW op \in flight, SubmitAnswer(op) PROVE TypeInv'
  <2>1. /\ op \in Op /\ DOMAIN jobs \subseteq Op
        /\ \A o \in DOMAIN jobs : jobs[o] \in Jobs
        /\ DOMAIN receipts \subseteq Op
        /\ \A o \in DOMAIN receipts : receipts[o] \in Answers
        /\ failed \in BOOLEAN
    BY DEF TypeInv, TypeOK, MemoryTypes, WorldTypes
  <2>2. PICK answer \in AnswersFor(jobs[op]) : receipts' = Put(receipts, op, answer)
    BY <1>7 DEF SubmitAnswer
  <2>3. answer \in Answers
    BY <1>7, <2>1, AnswersType DEF SubmitAnswer
  <2>4. DOMAIN receipts' \subseteq Op /\ \A o \in DOMAIN receipts' : receipts'[o] \in Answers
    BY <2>1, <2>2, <2>3 DEF Put
  <2> QED BY <1>0, <1>7, <2>1, <2>4, SubmitTypes DEF SubmitAnswer, world
<1>8. ASSUME NEW op \in flight, SubmitError(op) PROVE TypeInv'
  <2>1. faults' \in 0 .. MaxFaults
    BY <1>0, <1>8, FaultType DEF SubmitError
  <2>2. /\ DOMAIN jobs \subseteq Op
        /\ \A o \in DOMAIN jobs : jobs[o] \in Jobs
        /\ DOMAIN receipts \subseteq Op
        /\ \A o \in DOMAIN receipts : receipts[o] \in Answers
    BY DEF TypeInv, TypeOK, MemoryTypes, WorldTypes
  <2> QED BY <1>8, <2>1, <2>2, SubmitTypes DEF SubmitError
<1>9. CASE SubmitDone
  <2>1. DurableTypes' /\ InOrderExactlyOnce'
    BY <1>9 DEF SubmitDone, DurableTypes, durable, InOrderExactlyOnce, TypeInv, TypeOK
  <2>2. MemoryTypes' /\ StepBound'
    BY <1>9 DEF SubmitDone, MemoryTypes, memory, submission, StepBound, TypeInv, TypeOK
  <2>3. SchedulerTypes' /\ WorldTypes'
    BY <1>9 DEF SubmitDone, SchedulerTypes, WorldTypes, world, TypeInv, TypeOK
  <2> QED BY <2>1, <2>2, <2>3 DEF TypeInv, TypeOK
<1>10. work.plan.seq \in Nat /\ work.failures \in Nat
  BY DEF TypeInv, TypeOK, MemoryTypes, Transitions
<1>11. CASE SubmitFails
  BY <1>0, <1>10, <1>11, FailTypes DEF SubmitFails, world
<1>12. CASE Commit
  BY <1>12, CommitTypes
<1>13. CASE CommitFails
  <2>1. faults' \in 0 .. MaxFaults
    BY <1>0, <1>13, FaultType DEF CommitFails
  <2> QED BY <1>10, <1>13, <2>1, FailTypes DEF CommitFails
<1>14. CASE Final
  <2>1. DurableTypes' /\ InOrderExactlyOnce'
    BY <1>14 DEF Final, DurableTypes, durable, InOrderExactlyOnce, TypeInv, TypeOK
  <2>2. MemoryTypes' /\ StepBound'
    BY <1>14 DEF Final, MemoryTypes, memory, submission, StepBound, TypeInv, TypeOK
  <2>3. alarm' \in BOOLEAN
    BY <1>14 DEF Final
  <2>4. SchedulerTypes' /\ WorldTypes'
    BY <1>14, <2>3 DEF Final, SchedulerTypes, WorldTypes, world, TypeInv, TypeOK
  <2> QED BY <2>1, <2>2, <2>4 DEF TypeInv, TypeOK
<1>15. CASE DrainThrows
  <2>1. faults' \in 0 .. MaxFaults
    BY <1>0, <1>15, FaultType DEF DrainThrows
  <2> QED BY <1>15, <2>1, PcTypes DEF DrainThrows
<1>16. CASE Ending
  <2>1. DurableTypes' /\ InOrderExactlyOnce'
    BY <1>16 DEF Ending, DurableTypes, durable, InOrderExactlyOnce, TypeInv, TypeOK
  <2>2. work' \in [plan : Transitions, failures : Nat]
    BY <1>16 DEF Ending, Idle, NoTransition, Transitions
  <2>3. step' \in 0 .. MaxSteps /\ pc' \in {"loop", "idle"}
    BY <1>16, BoundsAssumption DEF Ending
  <2>4. MemoryTypes' /\ StepBound'
    BY <1>16, <2>2, <2>3 DEF Ending, MemoryTypes, StepBound, TypeInv, TypeOK
  <2>5. SchedulerTypes' /\ WorldTypes'
    BY <1>16, <2>3 DEF Ending, SchedulerTypes, WorldTypes, world, TypeInv, TypeOK
  <2> QED BY <2>1, <2>4, <2>5 DEF TypeInv, TypeOK
<1> QED
  BY <1>1, <1>2, <1>3, <1>4, <1>5, <1>6, <1>7, <1>8, <1>9, <1>11, <1>12, <1>13,
     <1>14, <1>15, <1>16
     DEF Drain


-----------------------------------------------------------------------------
(* Type invariant: platform and providers *)

\* The alarm, a crash, time and the providers keep types and order.
LEMMA EnvironmentTypes ==
  ASSUME TypeInv, Environment
  PROVE  TypeInv'
<1> USE DEF TypeInv, TypeOK
<1>0. /\ inbox \in Seq(Rows) /\ applied \in Seq(Events) /\ InOrderExactlyOnce
      /\ faults \in 0 .. MaxFaults
  BY DEF DurableTypes, WorldTypes
<1>1. CASE AlarmFire
  <2>1. DurableTypes' /\ InOrderExactlyOnce'
    BY <1>1 DEF AlarmFire, DurableTypes, durable, InOrderExactlyOnce
  <2>2. MemoryTypes' /\ StepBound'
    BY <1>1 DEF AlarmFire, MemoryTypes, memory, submission, StepBound, scheduler
  <2>3. SchedulerTypes' /\ WorldTypes'
    BY <1>1 DEF AlarmFire, SchedulerTypes, WorldTypes, scheduler
  <2> QED BY <2>1, <2>2, <2>3
<1>2. CASE AlarmArm
  <2>1. DurableTypes' /\ InOrderExactlyOnce'
    BY <1>2 DEF AlarmArm, DurableTypes, durable, InOrderExactlyOnce
  <2>2. /\ step' \in 0 .. MaxSteps /\ StepBound'
        /\ pc' \in {"idle", "arm", "loop", "submit", "failed", "commit", "final", "ending"}
    BY <1>2, BoundsAssumption
       DEF AlarmArm, Start, MemoryTypes, SchedulerTypes, StepBound
  <2>3. MemoryTypes'
    BY <1>2, <2>2 DEF AlarmArm, MemoryTypes, submission
  <2>4. SchedulerTypes' /\ WorldTypes'
    BY <1>2, <2>2 DEF AlarmArm, SchedulerTypes, WorldTypes
  <2> QED BY <2>1, <2>2, <2>3, <2>4
<1>3. CASE Run
  BY <1>0, <1>3, PcTypes DEF Run, world
<1>4. CASE Crash
  <2>1. DurableTypes' /\ InOrderExactlyOnce'
    BY <1>4 DEF Crash, DurableTypes, durable, InOrderExactlyOnce
  <2>2. /\ prepared' \in Transitions /\ work' \in [plan : Transitions, failures : Nat]
        /\ DOMAIN receipts' = {} /\ step' \in 0 .. MaxSteps
    BY <1>4, BoundsAssumption DEF Crash, NoTransition, Transitions, Idle
  <2>3. MemoryTypes' /\ StepBound'
    BY <1>4, <2>2 DEF Crash, MemoryTypes, StepBound
  <2>4. faults' \in 0 .. MaxFaults /\ alarm' \in BOOLEAN
    BY <1>0, <1>4, FaultType DEF Crash
  <2>5. SchedulerTypes' /\ WorldTypes'
    BY <1>4, <2>4 DEF Crash, SchedulerTypes, NoAdmission, WorldTypes
  <2> QED BY <2>1, <2>3, <2>5
<1>5. CASE RetryDue
  <2>1. NextInput = IF Len(applied) < Len(inbox) THEN Len(applied) + 1 ELSE 0
    BY <1>0, HeadFollowsApplied
  <2>2. NextInput \in 1 .. Len(inbox) /\ inbox[NextInput] \in Rows
    BY <1>0, <1>5, <2>1 DEF RetryDue
  <2> DEFINE row == [inbox[NextInput] EXCEPT !.waiting = FALSE]
  <2>3. /\ row \in Rows /\ row.event = inbox[NextInput].event
        /\ row.consumed = inbox[NextInput].consumed
    BY <2>2 DEF Rows
  <2>4. inbox' = [inbox EXCEPT ![NextInput] = row]
    BY <1>5, <2>2 DEF RetryDue, Rows
  <2> HIDE DEF row
  <2>5. /\ inbox' \in Seq(Rows) /\ Len(inbox') = Len(inbox)
        /\ \A i \in DOMAIN inbox : /\ inbox'[i].event = inbox[i].event
                                   /\ inbox'[i].consumed = inbox[i].consumed
    BY <1>0, <2>2, <2>3, <2>4
  <2>6. applied' = applied
    BY <1>5 DEF RetryDue
  <2>7. InOrderExactlyOnce'
    BY <2>5, <2>6, RewriteKeepsOrder
  <2>8. DurableTypes'
    BY <1>5, <2>5 DEF RetryDue, DurableTypes
  <2>9. MemoryTypes' /\ StepBound'
    BY <1>5 DEF RetryDue, MemoryTypes, memory, submission, StepBound, scheduler
  <2>10. SchedulerTypes' /\ WorldTypes'
    BY <1>5 DEF RetryDue, SchedulerTypes, WorldTypes, scheduler, world
  <2> QED BY <2>7, <2>8, <2>9, <2>10
<1>6. ASSUME DOMAIN jobs' \subseteq Op, \A op \in DOMAIN jobs' : jobs'[op] \in Jobs,
             UNCHANGED <<durable, alarm, memory, scheduler, firing, faults>>
      PROVE  TypeInv'
  <2>1. DurableTypes' /\ InOrderExactlyOnce'
    BY <1>6 DEF DurableTypes, durable, InOrderExactlyOnce
  <2>2. MemoryTypes' /\ StepBound'
    BY <1>6 DEF MemoryTypes, memory, submission, StepBound, scheduler
  <2>3. SchedulerTypes' /\ WorldTypes'
    BY <1>6 DEF SchedulerTypes, WorldTypes, scheduler
  <2> QED BY <2>1, <2>2, <2>3
<1>7. DOMAIN jobs \subseteq Op /\ \A op \in DOMAIN jobs : jobs[op] \in Jobs
  BY DEF WorldTypes
<1>8. ASSUME NEW op \in DOMAIN jobs, ProviderDecides(op) PROVE TypeInv'
  <2>1. /\ [status |-> "rejected", job |-> "none", outcome |-> "rejected"] \in Jobs
        /\ \A j \in JobIds : [status |-> "accepted", job |-> j, outcome |-> "none"] \in Jobs
    BY DEF Jobs
  <2>2. DOMAIN jobs' \subseteq Op /\ \A o \in DOMAIN jobs' : jobs'[o] \in Jobs
    BY <1>7, <1>8, <2>1 DEF ProviderDecides
  <2> QED BY <1>6, <1>8, <2>2 DEF ProviderDecides
<1>9. ASSUME NEW op \in DOMAIN jobs, JobFinishes(op) PROVE TypeInv'
  <2>1. PICK outcome \in Outcomes :
          jobs' = [jobs EXCEPT ![op].status = "finished", ![op].outcome = outcome]
    BY <1>9 DEF JobFinishes
  <2>2. jobs[op] \in Jobs /\ jobs[op].status = "accepted"
    BY <1>7, <1>9 DEF JobFinishes
  <2>3. [jobs[op] EXCEPT !.status = "finished", !.outcome = outcome] \in Jobs
    BY <2>2 DEF Jobs
  <2>4. jobs' = [jobs EXCEPT ![op] =
                   [jobs[op] EXCEPT !.status = "finished", !.outcome = outcome]]
    BY <2>1, <2>2 DEF Jobs
  <2>5. DOMAIN jobs' \subseteq Op /\ \A o \in DOMAIN jobs' : jobs'[o] \in Jobs
    BY <1>7, <2>3, <2>4
  <2> QED BY <1>6, <1>9, <2>5 DEF JobFinishes
<1> QED
  BY <1>1, <1>2, <1>3, <1>4, <1>5, <1>8, <1>9 DEF Environment

\* Types and order are inductive together: each needs the other to know the head.
LEMMA TypeInvStep == TypeInv /\ [Next]_vars => TypeInv'
<1> SUFFICES ASSUME TypeInv, [Next]_vars PROVE TypeInv'
  OBVIOUS
<1>1. CASE Next
  BY <1>1, AdmissionTypes, DrainTypes, EnvironmentTypes DEF Next
<1>2. CASE UNCHANGED vars
  <2>1. DurableTypes' /\ InOrderExactlyOnce'
    BY <1>2 DEF TypeInv, TypeOK, DurableTypes, vars, durable, InOrderExactlyOnce
  <2>2. MemoryTypes' /\ StepBound'
    BY <1>2 DEF TypeInv, TypeOK, MemoryTypes, vars, memory, submission, StepBound, scheduler
  <2>3. SchedulerTypes' /\ WorldTypes'
    BY <1>2 DEF TypeInv, TypeOK, SchedulerTypes, WorldTypes, vars, scheduler, world
  <2> QED BY <2>1, <2>2, <2>3 DEF TypeInv, TypeOK
<1> QED BY <1>1, <1>2

\* Types, the step bound and the order of consumption hold in every reachable state.
LEMMA TypeInvariant == Spec => []TypeInv
BY TypeInvInit, TypeInvStep, PTL DEF Spec

\* Every reachable state of the driver and its tables has the declared types; the
\* loop of #drain never passes maxSteps.
THEOREM TypeCorrect == Spec => []TypeOK
<1>1. TypeInv => TypeOK
  BY DEF TypeInv
<1> QED BY <1>1, TypeInvariant, PTL

\* commit consumes the inbox in order and exactly once: what the harness has applied
\* is the consumed prefix of the inbox, through every crash, retry and callback.
THEOREM ExactlyOnceInOrder == Spec => []InOrderExactlyOnce
<1>1. TypeInv => InOrderExactlyOnce
  BY DEF TypeInv
<1> QED BY <1>1, TypeInvariant, PTL

-----------------------------------------------------------------------------
(* Accounts: the alarm protects runnable work, a blocked head stays        *)
(* blocked, everything sent to a provider stays accounted for through      *)
(* losses of the activation, replays and early callbacks, and the durable  *)
(* tables implement the SessionLog.  One inductive invariant carries all   *)
(* four.                                                                   *)

AtWorkSteps == {"submit", "failed", "commit"}

-----------------------------------------------------------------------------
(* The inductive invariant *)

\* An admission that holds the lock has armed the alarm.
Armed == ~LockFree => alarm \/ firing

\* The drain works on a head that exists and is not blocked.
AtWork == pc \in AtWorkSteps => NextInput # 0 /\ ~inbox[NextInput].blocked

Guarded == Armed /\ AtWork /\ Protected

\* No event ID has two rows.
Distinct ==
  \A i, j \in DOMAIN inbox :
    /\ inbox[i].event.kind = inbox[j].event.kind
    /\ inbox[i].event.id = inbox[j].event.id
    => i = j

\* The body of a completion is what the provider decided.
Told(op, body) ==
  /\ op \in DOMAIN jobs
  /\ jobs[op].status \in {"finished", "rejected"}
  /\ body = [job |-> jobs[op].job, outcome |-> jobs[op].outcome]

\* Completions queue behind the input that started the operation.
RowsTell ==
  \A i \in DOMAIN inbox :
    inbox[i].event.kind = "completed" =>
      /\ Told(inbox[i].event.id, inbox[i].event.body)
      /\ inbox[i].event.id[1] < i

\* The event of an admission under way is an input or a decided completion.
AdmissionTells ==
  /\ admission.call = "append" => admission.event.kind = "input"
  /\ admission.call = "completion" =>
       /\ admission.event.kind = "completed"
       /\ Told(admission.event.id, admission.event.body)

\* Nothing is sent for an input before it is the head, and nothing sent for a
\* consumed input is still on its way.
NotAhead ==
  \A op \in DOMAIN jobs :
    /\ op[1] <= Len(applied) + 1
    /\ op[1] <= Len(inbox)
    /\ jobs[op].status = "sent" => op[1] = Len(applied) + 1

\* What was sent for the head is in the plan of the head, which is well-formed.
SentAsPlanned ==
  \A op \in DOMAIN jobs :
    op[1] = NextInput =>
      /\ op \in HeadTransition.ops
      /\ Plan(applied, inbox[NextInput].event) \subseteq Keys

\* What durable storage and the providers say of each other.
Books ==
  /\ Distinct /\ RowsTell /\ NotAhead
  /\ SentAsPlanned /\ NoOrphanJob /\ PendingIsOpenJobs

\* A receipt is an answer the provider could still give.
ReceiptsTell ==
  \A op \in DOMAIN receipts :
    /\ op \in DOMAIN jobs
    /\ receipts[op].job = jobs[op].job
    /\ receipts[op].status = "accepted" => jobs[op].status \in {"accepted", "finished"}
    /\ receipts[op].status = "rejected" => jobs[op].status = "rejected"
    /\ receipts[op].status = "completed" =>
         jobs[op].status = "finished" /\ receipts[op].outcome = jobs[op].outcome

\* A plan in memory is the plan of the head.
PlanInMemory ==
  prepared # NoTransition =>
    /\ prepared = HeadTransition
    /\ Plan(applied, inbox[NextInput].event) \subseteq Keys

\* The drain works on the plan in memory, and each of its operations is to be
\* sent, on its way or answered unless an error was seen.
InHand ==
  pc \in AtWorkSteps =>
    /\ prepared.seq # 0
    /\ work.plan = prepared
    /\ todo \cup flight \subseteq prepared.ops
    /\ flight \subseteq DOMAIN jobs
    /\ pc = "submit" /\ ~failed =>
         prepared.ops \subseteq todo \cup flight \cup DOMAIN receipts
    /\ pc = "commit" => prepared.ops \subseteq DOMAIN receipts

Hands == ReceiptsTell /\ PlanInMemory /\ InHand

AccountInv == TypeInv /\ Guarded /\ Books /\ AdmissionTells /\ Hands

-----------------------------------------------------------------------------
(* The head, before and after a step *)

\* nextInput as a function of the rows.
HeadOf(rows) ==
  IF {i \in DOMAIN rows : ~rows[i].consumed} = {} THEN 0
  ELSE CHOOSE i \in {k \in DOMAIN rows : ~rows[k].consumed} :
         \A j \in {k \in DOMAIN rows : ~rows[k].consumed} : i <= j

\* Of rows whose consumed ones are the first n, the head is the next one.
LEMMA HeadOfPrefix ==
  ASSUME NEW rows \in Seq(Rows), NEW n \in Nat, n <= Len(rows),
         \A i \in DOMAIN rows : rows[i].consumed <=> i <= n
  PROVE  HeadOf(rows) = IF n < Len(rows) THEN n + 1 ELSE 0
<1> DEFINE U == {i \in DOMAIN rows : ~rows[i].consumed}
<1>1. Len(rows) \in Nat /\ DOMAIN rows = 1 .. Len(rows)
  OBVIOUS
<1>2. U = (n + 1) .. Len(rows)
  BY <1>1
<1>3. HeadOf(rows) = IF U = {} THEN 0 ELSE CHOOSE i \in U : \A j \in U : i <= j
  BY DEF HeadOf
<1> HIDE DEF U
<1>4. CASE n < Len(rows)
  <2>1. n + 1 \in U /\ \A j \in U : n + 1 <= j
    BY <1>1, <1>2, <1>4
  <2>2. \A i \in U : (\A j \in U : i <= j) => i = n + 1
    BY <1>1, <1>2, <2>1
  <2> QED BY <1>3, <1>4, <2>1, <2>2
<1>5. CASE ~(n < Len(rows))
  BY <1>1, <1>2, <1>3, <1>5
<1> QED BY <1>4, <1>5

\* nextInput returns the row after the last applied event.
LEMMA HeadNow ==
  ASSUME TypeInv
  PROVE  /\ NextInput = IF Len(applied) < Len(inbox) THEN Len(applied) + 1 ELSE 0
         /\ NextInput # 0 => NextInput \in DOMAIN inbox
         /\ inbox \in Seq(Rows) /\ applied \in Seq(Events)
         /\ DOMAIN inbox = 1 .. Len(inbox)
         /\ Len(inbox) \in Nat /\ Len(applied) \in Nat /\ Len(applied) <= Len(inbox)
<1>1. inbox \in Seq(Rows) /\ applied \in Seq(Events) /\ InOrderExactlyOnce
  BY DEF TypeInv, TypeOK, DurableTypes
<1>2. NextInput = IF Len(applied) < Len(inbox) THEN Len(applied) + 1 ELSE 0
  BY <1>1, HeadFollowsApplied
<1> QED BY <1>1, <1>2 DEF InOrderExactlyOnce

\* The same, after a step.
LEMMA HeadThen ==
  ASSUME TypeInv'
  PROVE  /\ NextInput' = IF Len(applied') < Len(inbox') THEN Len(applied') + 1 ELSE 0
         /\ NextInput' # 0 => NextInput' \in DOMAIN inbox'
         /\ inbox' \in Seq(Rows) /\ applied' \in Seq(Events)
         /\ DOMAIN inbox' = 1 .. Len(inbox')
         /\ Len(inbox') \in Nat /\ Len(applied') \in Nat /\ Len(applied') <= Len(inbox')
<1>1. inbox' \in Seq(Rows) /\ applied' \in Seq(Events) /\ InOrderExactlyOnce'
  BY DEF TypeInv, TypeOK, DurableTypes
<1>2. NextInput' = HeadOf(inbox')
  BY Zenon DEF NextInput, Unconsumed, HeadOf
<1>3. NextInput' = IF Len(applied') < Len(inbox') THEN Len(applied') + 1 ELSE 0
  BY <1>1, <1>2, HeadOfPrefix DEF InOrderExactlyOnce
<1> QED BY <1>1, <1>3 DEF InOrderExactlyOnce

-----------------------------------------------------------------------------
(* What a step does to the tables and to the providers *)

\* Rows may be marked, but no event is added, consumed or forgotten.
SameLog ==
  /\ Len(inbox') = Len(inbox)
  /\ \A i \in DOMAIN inbox :
       inbox'[i].event = inbox[i].event /\ inbox'[i].consumed = inbox[i].consumed
  /\ UNCHANGED <<applied, pending>>

\* The admission under way adds its event.
Grows ==
  /\ admission.call \in {"append", "completion"}
  /\ FindInput(admission.event.kind, admission.event.id) = {}
  /\ inbox' = Append(inbox, NewRow(admission.event))
  /\ UNCHANGED <<applied, pending, jobs>>

\* Every step marks rows, adds one event, concerns one job or is a commit.
StepKinds ==
  \/ SameLog /\ UNCHANGED jobs
  \/ Grows
  \/ SameLog /\ \E op \in todo : SubmitSend(op)
  \/ SameLog /\ \E op \in DOMAIN jobs : ProviderDecides(op)
  \/ SameLog /\ \E op \in DOMAIN jobs : JobFinishes(op)
  \/ Commit

\* A step that leaves the tables alone keeps the log.
LEMMA DurableSame ==
  ASSUME UNCHANGED durable
  PROVE  SameLog
BY DEF durable, SameLog

\* failProcessing keeps the log.
LEMMA FailSame ==
  ASSUME TypeInv, NEW seq \in Nat, NEW failures \in Nat, NEW handlerFailure \in BOOLEAN,
         inbox' = Fail(seq, failures, handlerFailure), UNCHANGED <<applied, pending>>
  PROVE  SameLog
<1>1. inbox \in Seq(Rows)
  BY HeadNow
<1> QED BY <1>1, FailKeepsEvents DEF SameLog

\* The retry deadline of the head changes one mark of one row.
LEMMA RetrySame ==
  ASSUME TypeInv, RetryDue
  PROVE  /\ SameLog /\ UNCHANGED jobs
         /\ \A i \in DOMAIN inbox : inbox'[i].blocked = inbox[i].blocked
<1>1. NextInput \in DOMAIN inbox /\ inbox \in Seq(Rows) /\ inbox[NextInput] \in Rows
  BY HeadNow DEF RetryDue
<1> DEFINE row == [inbox[NextInput] EXCEPT !.waiting = FALSE]
<1>2. /\ row.event = inbox[NextInput].event
      /\ row.consumed = inbox[NextInput].consumed
      /\ row.blocked = inbox[NextInput].blocked
  BY <1>1 DEF Rows
<1>3. inbox' = [inbox EXCEPT ![NextInput] = row]
  BY <1>1 DEF RetryDue, Rows
<1> HIDE DEF row
<1>4. UNCHANGED <<applied, pending, jobs>>
  BY DEF RetryDue, world
<1> QED BY <1>1, <1>2, <1>3, <1>4 DEF SameLog

\* The kinds cover every step of the specification.
LEMMA StepIsOfAKind ==
  ASSUME AccountInv, [Next]_vars
  PROVE  StepKinds
<1>0. TypeInv
  BY DEF AccountInv
<1>1. ASSUME UNCHANGED <<durable, jobs>> PROVE StepKinds
  BY <1>1, DurableSame DEF StepKinds
<1>2. /\ NextInput # 0 => inbox[NextInput].failures \in Nat
      /\ NextInput \in Nat
      /\ work.plan.seq \in Nat /\ work.failures \in Nat
  <2>1. NextInput # 0 => inbox[NextInput] \in Rows
    BY <1>0, HeadNow
  <2>2. NextInput \in Nat
    BY <1>0, HeadNow
  <2>3. work.plan.seq \in Nat /\ work.failures \in Nat
    BY <1>0 DEF TypeInv, TypeOK, MemoryTypes, Transitions
  <2> QED BY <2>1, <2>2, <2>3 DEF Rows
<1>3. CASE UNCHANGED vars
  BY <1>1, <1>3 DEF vars, world
<1>4. CASE Admission
  <2>1. CASE Initialize
    BY <2>1 DEF Initialize, world, StepKinds, SameLog
  <2>2. ASSUME NEW id \in InputIds, NEW body \in Bodies, AppendArm(id, body)
        PROVE  StepKinds
    BY <1>1, <2>2 DEF AppendArm, Arm, world
  <2>3. CASE AppendNew
    <3>1. admission.event.kind = "input"
      BY <2>3 DEF AccountInv, AdmissionTells, AppendNew
    <3> QED BY <2>3, <3>1 DEF AppendNew, world, StepKinds, Grows
  <2>4. CASE AppendDuplicate \/ AppendRefused \/ ResumeRefused
    BY <1>1, <2>4 DEF AppendDuplicate, AppendRefused, ResumeRefused, world
  <2>5. ASSUME NEW op \in DOMAIN jobs, CompletionArm(op) PROVE StepKinds
    BY <1>1, <2>5 DEF CompletionArm, Arm, world
  <2>6. ASSUME NEW op, CompletionRefused(op) PROVE StepKinds
    BY <1>1, <2>6 DEF CompletionRefused, world
  <2>7. CASE CompletionCommit
    <3>1. admission.event.kind = "completed"
      BY <2>7 DEF AccountInv, AdmissionTells, CompletionCommit
    <3>2. CASE FindInput("completed", admission.event.id) = {}
      BY <2>7, <3>1, <3>2 DEF CompletionCommit, world, StepKinds, Grows
    <3>3. CASE FindInput("completed", admission.event.id) # {}
      BY <1>1, <2>7, <3>3 DEF CompletionCommit, world, durable
    <3> QED BY <3>2, <3>3
  <2>8. CASE ResumeArm
    BY <1>1, <2>8 DEF ResumeArm, Arm, world
  <2>9. CASE ResumeCommit
    BY <1>0, <2>9, ResetKeepsEvents DEF ResumeCommit, world, StepKinds, SameLog
  <2> QED BY <1>4, <2>1, <2>2, <2>3, <2>4, <2>5, <2>6, <2>7, <2>8, <2>9 DEF Admission
<1>5. CASE Drain
  <2>1. CASE DrainArm \/ SliceEnd \/ LoopStop
    BY <1>1, <2>1 DEF DrainArm, SliceEnd, LoopStop, world
  <2>2. CASE LoopPrepare
    BY <1>1, <2>2 DEF LoopPrepare, world
  <2>3. CASE LoopPrepareFails
    <3>1. SameLog
      <4>1. inbox[NextInput].failures \in Nat
        BY <1>2, <2>3 DEF LoopPrepareFails, Runnable
      <4> QED BY <1>0, <1>2, <2>3, <4>1, FailSame DEF LoopPrepareFails
    <3> QED BY <2>3, <3>1 DEF LoopPrepareFails, StepKinds
  <2>4. ASSUME NEW op \in todo, SubmitSend(op) PROVE StepKinds
    BY <2>4, DurableSame DEF SubmitSend, StepKinds
  <2>5. ASSUME NEW op \in flight, SubmitAnswer(op) PROVE StepKinds
    BY <1>1, <2>5 DEF SubmitAnswer, world
  <2>6. ASSUME NEW op \in flight, SubmitError(op) PROVE StepKinds
    BY <1>1, <2>6 DEF SubmitError
  <2>7. CASE SubmitDone \/ Final \/ DrainThrows \/ Ending
    BY <1>1, <2>7 DEF SubmitDone, Final, DrainThrows, Ending, world
  <2>8. CASE SubmitFails \/ CommitFails
    <3>1. SameLog
      BY <1>0, <1>2, <2>8, FailSame DEF SubmitFails, CommitFails
    <3> QED BY <2>8, <3>1 DEF SubmitFails, CommitFails, world, StepKinds
  <2>9. CASE Commit
    BY <2>9 DEF StepKinds
  <2> QED BY <1>5, <2>1, <2>2, <2>3, <2>4, <2>5, <2>6, <2>7, <2>8, <2>9 DEF Drain
<1>6. CASE Environment
  <2>1. CASE AlarmFire \/ AlarmArm \/ Run \/ Crash
    BY <1>1, <2>1 DEF AlarmFire, AlarmArm, Run, Crash, world
  <2>2. CASE RetryDue
    BY <1>0, <2>2, RetrySame DEF StepKinds
  <2>3. ASSUME NEW op \in DOMAIN jobs, ProviderDecides(op) PROVE StepKinds
    BY <2>3, DurableSame DEF ProviderDecides, StepKinds
  <2>4. ASSUME NEW op \in DOMAIN jobs, JobFinishes(op) PROVE StepKinds
    BY <2>4, DurableSame DEF JobFinishes, StepKinds
  <2> QED BY <1>6, <2>1, <2>2, <2>3, <2>4 DEF Environment
<1> QED BY <1>3, <1>4, <1>5, <1>6 DEF Next

-----------------------------------------------------------------------------
(* The books under each kind of step *)

\* A step that keeps the log keeps the head, its plan and what findInput finds.
LEMMA SameView ==
  ASSUME TypeInv, TypeInv', SameLog
  PROVE  /\ NextInput' = NextInput
         /\ DOMAIN inbox' = DOMAIN inbox
         /\ \A kind, id : FindInput(kind, id)' = FindInput(kind, id)
         /\ NextInput # 0 => inbox'[NextInput].event = inbox[NextInput].event
         /\ HeadTransition' = HeadTransition
<1>1. DOMAIN inbox' = DOMAIN inbox
  BY HeadNow, HeadThen DEF SameLog
<1>2. NextInput' = NextInput
  BY HeadNow, HeadThen DEF SameLog
<1>3. \A kind, id : FindInput(kind, id)' = FindInput(kind, id)
  BY <1>1 DEF FindInput, SameLog
<1>4. NextInput # 0 => inbox'[NextInput].event = inbox[NextInput].event
  BY HeadNow DEF SameLog
<1>5. applied' = applied
  BY DEF SameLog
<1>6. HeadTransition' = HeadTransition
  BY <1>2, <1>4, <1>5 DEF HeadTransition
<1> QED BY <1>1, <1>2, <1>3, <1>4, <1>6

\* Marking rows keeps the books.
LEMMA BooksSame ==
  ASSUME TypeInv, TypeInv', Books, SameLog, UNCHANGED jobs
  PROVE  Books'
<1> USE DEF Books
<1>0. /\ NextInput' = NextInput
      /\ DOMAIN inbox' = DOMAIN inbox
      /\ \A kind, id : FindInput(kind, id)' = FindInput(kind, id)
      /\ NextInput # 0 => inbox'[NextInput].event = inbox[NextInput].event
      /\ HeadTransition' = HeadTransition
  BY SameView
<1>1. Distinct'
  BY <1>0 DEF Distinct, SameLog
<1>2. RowsTell'
  BY <1>0 DEF RowsTell, Told, SameLog
<1>3. NotAhead'
  BY DEF NotAhead, SameLog
<1>00. \A op \in DOMAIN jobs : op[1] # 0
  BY DEF TypeInv, TypeOK, WorldTypes, Op
<1>4. SentAsPlanned'
  BY <1>0, <1>00 DEF SentAsPlanned, SameLog
<1>5. NoOrphanJob'
  BY <1>0, <1>00 DEF NoOrphanJob, SameLog
<1>6. PendingIsOpenJobs'
  <2>1. \A op, i : i \in FindInput("completed", op) => i \in DOMAIN inbox
    BY DEF FindInput
  <2> QED BY <1>0, <2>1 DEF PendingIsOpenJobs, SameLog
<1> QED BY <1>1, <1>2, <1>3, <1>4, <1>5, <1>6

\* A new row at the end: what the views of the inbox become.
LEMMA GrownView ==
  ASSUME TypeInv, TypeInv', Grows
  PROVE  /\ Len(inbox') = Len(inbox) + 1
         /\ DOMAIN inbox' = DOMAIN inbox \cup {Len(inbox) + 1}
         /\ Len(inbox) + 1 \notin DOMAIN inbox
         /\ \A i \in DOMAIN inbox : inbox'[i] = inbox[i]
         /\ inbox'[Len(inbox) + 1] = NewRow(admission.event)
         /\ inbox'[Len(inbox) + 1].event = admission.event
         /\ ~inbox'[Len(inbox) + 1].consumed
         /\ admission.event \in Events
         /\ NextInput # 0 => NextInput' = NextInput /\ HeadTransition' = HeadTransition
         /\ NextInput = 0 => NextInput' = Len(inbox) + 1 /\ Len(applied) = Len(inbox)
         /\ \A kind, id : \A i \in DOMAIN inbox :
              i \in FindInput(kind, id)' <=> i \in FindInput(kind, id)
<1>1. admission.event \in Events
  BY DEF Grows, TypeInv, TypeOK, SchedulerTypes
<1>2. /\ inbox'[Len(inbox) + 1] = NewRow(admission.event)
      /\ \A i \in DOMAIN inbox : inbox'[i] = inbox[i]
      /\ Len(inbox') = Len(inbox) + 1
  BY <1>1, HeadNow, NewRowType DEF Grows
<1>3. /\ DOMAIN inbox' = DOMAIN inbox \cup {Len(inbox) + 1}
      /\ Len(inbox) + 1 \notin DOMAIN inbox
  BY <1>2, HeadNow, HeadThen
<1>4. /\ inbox'[Len(inbox) + 1].event = admission.event
      /\ ~inbox'[Len(inbox) + 1].consumed
  BY <1>1, <1>2, NewRowType
<1>5. applied' = applied
  BY DEF Grows
<1>6. /\ NextInput # 0 => NextInput' = NextInput
      /\ NextInput = 0 => NextInput' = Len(inbox) + 1 /\ Len(applied) = Len(inbox)
  BY <1>2, <1>5, HeadNow, HeadThen
<1>7. NextInput # 0 => HeadTransition' = HeadTransition
  <2>1. NextInput # 0 => inbox'[NextInput] = inbox[NextInput]
    BY <1>2, HeadNow
  <2> QED BY <1>5, <1>6, <2>1 DEF HeadTransition
<1>8. \A kind, id : \A i \in DOMAIN inbox :
        i \in FindInput(kind, id)' <=> i \in FindInput(kind, id)
  BY <1>2, <1>3 DEF FindInput
<1> QED BY <1>1, <1>2, <1>3, <1>4, <1>6, <1>7, <1>8

\* An admission keeps the books: the ID is new, a completion is decided, and an
\* event that becomes the head at once has had nothing sent for it.
LEMMA BooksGrow ==
  ASSUME TypeInv, TypeInv', Books, AdmissionTells, Grows
  PROVE  Books'
<1> USE DEF Books
<1>0. /\ Len(inbox') = Len(inbox) + 1
      /\ DOMAIN inbox' = DOMAIN inbox \cup {Len(inbox) + 1}
      /\ Len(inbox) + 1 \notin DOMAIN inbox
      /\ \A i \in DOMAIN inbox : inbox'[i] = inbox[i]
      /\ inbox'[Len(inbox) + 1].event = admission.event
      /\ ~inbox'[Len(inbox) + 1].consumed
      /\ admission.event \in Events
  BY GrownView
<1>1. /\ NextInput # 0 => NextInput' = NextInput /\ HeadTransition' = HeadTransition
      /\ NextInput = 0 => NextInput' = Len(inbox) + 1 /\ Len(applied) = Len(inbox)
      /\ \A kind, id : \A i \in DOMAIN inbox :
           i \in FindInput(kind, id)' <=> i \in FindInput(kind, id)
  BY GrownView
<1>2. /\ FindInput(admission.event.kind, admission.event.id) = {}
      /\ UNCHANGED <<applied, pending, jobs>>
      /\ admission.event.kind = "completed" =>
           Told(admission.event.id, admission.event.body)
  BY DEF Grows, AdmissionTells
<1>3. Len(inbox) \in Nat /\ Len(applied) \in Nat /\ DOMAIN inbox = 1 .. Len(inbox)
  BY HeadNow
<1>4. \A op \in DOMAIN jobs : op[1] \in Nat \ {0}
  BY DEF TypeInv, TypeOK, WorldTypes, Op
<1>5. Distinct'
  <2>1. \A i \in DOMAIN inbox :
          ~(inbox[i].event.kind = admission.event.kind /\ inbox[i].event.id = admission.event.id)
    BY <1>2 DEF FindInput
  <2> QED BY <1>0, <2>1 DEF Distinct
<1>6. RowsTell'
  <2>1. admission.event.kind = "completed" => admission.event.id[1] < Len(inbox) + 1
    BY <1>2, <1>3, <1>4 DEF Told, NotAhead
  <2> QED BY <1>0, <1>2, <2>1 DEF RowsTell, Told
<1>7. NotAhead'
  BY <1>0, <1>2, <1>3, <1>4 DEF NotAhead
<1>8. NextInput = 0 => \A op \in DOMAIN jobs : op[1] # NextInput'
  BY <1>1, <1>3, <1>4 DEF NotAhead
<1>9. NextInput # 0 => inbox'[NextInput] = inbox[NextInput]
  BY <1>0, HeadNow
<1>10. SentAsPlanned'
  BY <1>1, <1>2, <1>8, <1>9 DEF SentAsPlanned
<1>11. NoOrphanJob'
  <2>1. \A op : FindInput("completed", op) # {} => FindInput("completed", op)' # {}
    <3> SUFFICES ASSUME NEW op, NEW i \in FindInput("completed", op)
                 PROVE  FindInput("completed", op)' # {}
      OBVIOUS
    <3>1. i \in DOMAIN inbox
      BY DEF FindInput
    <3> QED BY <1>1, <3>1
  <2> QED BY <1>1, <1>2, <1>4, <1>9, <2>1 DEF NoOrphanJob
<1>12. PendingIsOpenJobs'
  <2>1. ASSUME NEW op
        PROVE  (\A i \in FindInput("completed", op) : ~inbox[i].consumed)
                 <=> (\A i \in FindInput("completed", op)' : ~inbox'[i].consumed)
    <3>1. \A i \in FindInput("completed", op) : i \in DOMAIN inbox
      BY DEF FindInput
    <3>2. \A i \in FindInput("completed", op)' : i \in DOMAIN inbox \/ i = Len(inbox) + 1
      BY <1>0 DEF FindInput
    <3> QED BY <1>0, <1>1, <3>1, <3>2
  <2> QED BY <1>2, <2>1 DEF PendingIsOpenJobs
<1> QED BY <1>5, <1>6, <1>7, <1>10, <1>11, <1>12

\* An operation enters the providers' view, or changes there, while the log stays:
\* what has to be said of the one operation for the books to hold.
LEMMA BooksOneJob ==
  ASSUME TypeInv, TypeInv', Books, SameLog, NEW op,
         op \in Op, DOMAIN jobs' = DOMAIN jobs \cup {op},
         \A o \in DOMAIN jobs : o # op => jobs'[o] = jobs[o],
         \A body : ~Told(op, body),
         op \notin DOMAIN jobs => op \in HeadTransition.ops /\ NextInput # 0
                                    /\ op[1] = NextInput
                                    /\ Plan(applied, inbox[NextInput].event) \subseteq Keys,
         jobs'[op].status = "sent" => op[1] = Len(applied) + 1,
         op[1] <= Len(applied) => /\ op \in DOMAIN jobs
                                  /\ jobs[op].status \in {"accepted", "finished"}
                                  /\ jobs'[op].status \in {"accepted", "finished"}
                                  /\ jobs'[op].job = jobs[op].job
  PROVE  Books'
<1> USE DEF Books
<1>0. /\ NextInput' = NextInput
      /\ DOMAIN inbox' = DOMAIN inbox
      /\ \A kind, id : FindInput(kind, id)' = FindInput(kind, id)
      /\ NextInput # 0 => inbox'[NextInput].event = inbox[NextInput].event
      /\ HeadTransition' = HeadTransition
  BY SameView
<1>1. Distinct'
  BY <1>0 DEF Distinct, SameLog
<1>2. RowsTell'
  <2> SUFFICES ASSUME NEW i \in DOMAIN inbox, inbox[i].event.kind = "completed"
               PROVE  Told(inbox[i].event.id, inbox[i].event.body)' /\ inbox'[i].event.id[1] < i
    BY <1>0 DEF RowsTell, SameLog
  <2>1. Told(inbox[i].event.id, inbox[i].event.body) /\ inbox[i].event.id[1] < i
    BY DEF RowsTell
  <2>2. inbox[i].event.id # op /\ inbox[i].event.id \in DOMAIN jobs
    BY <2>1 DEF Told
  <2>3. inbox'[i].event = inbox[i].event
    BY DEF SameLog
  <2> QED BY <2>1, <2>2, <2>3 DEF Told
<1>3. op[1] \in Nat /\ NextInput = IF Len(applied) < Len(inbox) THEN Len(applied) + 1 ELSE 0
  BY HeadNow DEF Op
<1>4. NotAhead'
  <2>1. op[1] <= Len(applied) + 1 /\ op[1] <= Len(inbox)
    <3>1. CASE op \in DOMAIN jobs
      BY <3>1 DEF NotAhead
    <3>2. CASE op \notin DOMAIN jobs
      BY <1>3, <3>2, HeadNow
    <3> QED BY <3>1, <3>2
  <2> QED BY <2>1 DEF NotAhead, SameLog
<1>5. \A o \in DOMAIN jobs' : o[1] # 0
  BY DEF TypeInv, TypeOK, WorldTypes, Op
<1>6. SentAsPlanned'
  BY <1>0, <1>5 DEF SentAsPlanned, SameLog
<1>7. NoOrphanJob'
  <2>1. op \notin DOMAIN jobs =>
          op[1] = NextInput /\ op[2] \in Plan(applied, inbox[NextInput].event)
    BY DEF HeadTransition
  <2> QED BY <1>0, <1>5, <2>1 DEF NoOrphanJob, SameLog
<1>8. PendingIsOpenJobs'
  <2>0. \A o, i : i \in FindInput("completed", o) => i \in DOMAIN inbox
    BY DEF FindInput
  <2>1. op \notin DOMAIN jobs => op \notin DOMAIN pending
    BY DEF PendingIsOpenJobs
  <2>2. op \in DOMAIN pending => op[1] <= Len(applied)
    BY DEF PendingIsOpenJobs
  <2>3. ASSUME NEW o \in DOMAIN jobs' \cup DOMAIN pending'
        PROVE  (\A i \in FindInput("completed", o) : ~inbox[i].consumed)
                 <=> (\A i \in FindInput("completed", o)' : ~inbox'[i].consumed)
    BY <1>0, <2>0 DEF SameLog
  <2>4. ASSUME NEW o \in DOMAIN jobs' \cup DOMAIN pending'
        PROVE  o \in DOMAIN pending <=>
                 /\ o \in DOMAIN jobs'
                 /\ jobs'[o].status \in {"accepted", "finished"}
                 /\ o[1] <= Len(applied)
                 /\ \A i \in FindInput("completed", o) : ~inbox[i].consumed
                 /\ o \in DOMAIN pending => pending[o] = jobs'[o].job
    <3>1. CASE o # op
      BY <2>4, <3>1 DEF PendingIsOpenJobs, SameLog
    <3>2. CASE o = op
      BY <2>1, <2>2, <3>2 DEF PendingIsOpenJobs, SameLog
    <3> QED BY <3>1, <3>2
  <2> QED BY <2>3, <2>4 DEF PendingIsOpenJobs, SameLog
<1> QED BY <1>1, <1>2, <1>4, <1>6, <1>7, <1>8

\* The operations of the head's transition carry its sequence.
LEMMA HeadOps ==
  ASSUME TypeInv, NextInput # 0
  PROVE  /\ HeadTransition.seq = NextInput
         /\ HeadTransition.ops = {NextInput} \X Plan(applied, inbox[NextInput].event)
         /\ \A op \in HeadTransition.ops :
              op[1] = NextInput /\ op[2] \in Plan(applied, inbox[NextInput].event)
         /\ HeadTransition # NoTransition
<1>1. /\ HeadTransition.seq = NextInput
      /\ HeadTransition.ops = {NextInput} \X Plan(applied, inbox[NextInput].event)
  BY DEF HeadTransition
<1> QED BY <1>1 DEF NoTransition

\* submit() sends an operation of the plan in memory, so one of the head.
LEMMA BooksSend ==
  ASSUME AccountInv, TypeInv', SameLog, NEW op \in todo, SubmitSend(op)
  PROVE  Books'
<1>0. TypeInv /\ Books
  BY DEF AccountInv
<1>1. CASE op \in DOMAIN jobs
  BY <1>0, <1>1, BooksSame DEF SubmitSend
<1>2. CASE op \notin DOMAIN jobs
  <2>1. jobs' = Put(jobs, op, [status |-> "sent", job |-> "none", outcome |-> "none"])
    BY <1>2 DEF SubmitSend
  <2>2. /\ DOMAIN jobs' = DOMAIN jobs \cup {op}
        /\ jobs'[op] = [status |-> "sent", job |-> "none", outcome |-> "none"]
        /\ \A o \in DOMAIN jobs : o # op => jobs'[o] = jobs[o]
    BY <2>1 DEF Put
  <2>3. op \in prepared.ops /\ prepared.seq # 0 /\ NextInput # 0
    BY DEF AccountInv, Hands, InHand, Guarded, AtWork, AtWorkSteps, SubmitSend
  <2>4. prepared = HeadTransition /\ Plan(applied, inbox[NextInput].event) \subseteq Keys
    BY <2>3 DEF AccountInv, Hands, PlanInMemory, NoTransition
  <2>5. op \in HeadTransition.ops /\ op[1] = NextInput /\ NextInput = Len(applied) + 1
    BY <1>0, <2>3, <2>4, HeadOps, HeadNow
  <2>6. op \in Op /\ ~(op[1] <= Len(applied))
    BY <1>0, <2>5, HeadNow DEF TypeInv, TypeOK, MemoryTypes
  <2>7. \A body : ~Told(op, body)
    BY <1>2 DEF Told
  <2> QED BY <1>0, <1>2, <2>2, <2>3, <2>4, <2>5, <2>6, <2>7, BooksOneJob
<1> QED BY <1>1, <1>2

\* The provider's decision concerns an operation of the head, still unanswered.
LEMMA BooksDecide ==
  ASSUME AccountInv, TypeInv', SameLog, NEW op \in DOMAIN jobs, ProviderDecides(op)
  PROVE  Books'
<1>0. TypeInv /\ Books
  BY DEF AccountInv
<1>1. /\ DOMAIN jobs' = DOMAIN jobs \cup {op}
      /\ \A o \in DOMAIN jobs : o # op => jobs'[o] = jobs[o]
      /\ jobs'[op].status # "sent"
  BY DEF ProviderDecides
<1>2. op[1] = Len(applied) + 1 /\ op \in Op
  BY <1>0 DEF Books, NotAhead, ProviderDecides, TypeInv, TypeOK, WorldTypes
<1>3. ~(op[1] <= Len(applied))
  BY <1>0, <1>2, HeadNow
<1>4. \A body : ~Told(op, body)
  BY DEF Told, ProviderDecides
<1> QED BY <1>0, <1>1, <1>2, <1>3, <1>4, BooksOneJob

\* A job that finishes keeps its identity.
LEMMA BooksFinish ==
  ASSUME AccountInv, TypeInv', SameLog, NEW op \in DOMAIN jobs, JobFinishes(op)
  PROVE  Books'
<1>0. TypeInv /\ Books
  BY DEF AccountInv
<1>1. op \in Op /\ jobs[op] \in Jobs
  BY <1>0 DEF TypeInv, TypeOK, WorldTypes
<1>2. /\ DOMAIN jobs' = DOMAIN jobs \cup {op}
      /\ \A o \in DOMAIN jobs : o # op => jobs'[o] = jobs[o]
      /\ jobs[op].status = "accepted"
      /\ jobs'[op].status = "finished"
      /\ jobs'[op].job = jobs[op].job
  BY <1>1 DEF JobFinishes, Jobs
<1>3. \A body : ~Told(op, body)
  BY <1>2 DEF Told
<1> QED BY <1>0, <1>1, <1>2, <1>3, BooksOneJob

-----------------------------------------------------------------------------
(* The books under a commit *)

\* What the driver knows once every operation of the plan in memory is answered:
\* the plan is the head's, and the answers agree with the provider.
LEMMA AllAnswered ==
  ASSUME AccountInv, NextInput # 0, NextInput = prepared.seq,
         prepared.ops \subseteq DOMAIN receipts
  PROVE  /\ NextInput # 0 /\ NextInput = Len(applied) + 1
         /\ prepared.ops = {NextInput} \X Plan(applied, inbox[NextInput].event)
         /\ prepared.ops \subseteq DOMAIN receipts
         /\ prepared.ops \subseteq DOMAIN jobs
         /\ \A op \in prepared.ops :
              /\ op[1] = NextInput
              /\ receipts[op] \in Answers
              /\ jobs[op] \in Jobs
              /\ receipts[op].job = jobs[op].job
              /\ receipts[op].status # "rejected" => jobs[op].status \in {"accepted", "finished"}
              /\ receipts[op].status = "rejected" => jobs[op].status = "rejected"
              /\ receipts[op].status # "accepted" =>
                   /\ jobs[op].status \in {"finished", "rejected"}
                   /\ receipts[op].outcome = jobs[op].outcome
         /\ \A op \in DOMAIN jobs : op[1] = NextInput => op \in prepared.ops
<1>0. TypeInv
  BY DEF AccountInv
<1>1. NextInput # 0 /\ NextInput = prepared.seq /\ prepared.ops \subseteq DOMAIN receipts
  OBVIOUS
<1>2. prepared = HeadTransition
  BY <1>1 DEF AccountInv, Hands, PlanInMemory, NoTransition
<1>3. NextInput = Len(applied) + 1
  BY <1>0, <1>1, HeadNow
<1>4. /\ prepared.ops = {NextInput} \X Plan(applied, inbox[NextInput].event)
      /\ \A op \in prepared.ops : op[1] = NextInput
  BY <1>0, <1>1, <1>2, HeadOps
<1>5. ReceiptsTell
  BY DEF AccountInv, Hands
<1>6. prepared.ops \subseteq DOMAIN jobs
  BY <1>1, <1>5 DEF ReceiptsTell
<1>7. \A op \in prepared.ops : receipts[op] \in Answers /\ jobs[op] \in Jobs
  BY <1>0, <1>1, <1>6 DEF TypeInv, TypeOK, MemoryTypes, WorldTypes
<1>8. ASSUME NEW op \in prepared.ops
      PROVE  /\ receipts[op].job = jobs[op].job
             /\ receipts[op].status # "rejected" => jobs[op].status \in {"accepted", "finished"}
             /\ receipts[op].status = "rejected" => jobs[op].status = "rejected"
             /\ receipts[op].status # "accepted" =>
                   /\ jobs[op].status \in {"finished", "rejected"}
                   /\ receipts[op].outcome = jobs[op].outcome
  <2>1. /\ receipts[op].job = jobs[op].job
        /\ receipts[op].status = "accepted" => jobs[op].status \in {"accepted", "finished"}
        /\ receipts[op].status = "rejected" => jobs[op].status = "rejected"
        /\ receipts[op].status = "completed" =>
             jobs[op].status = "finished" /\ receipts[op].outcome = jobs[op].outcome
    BY <1>1, <1>5 DEF ReceiptsTell
  <2>2. receipts[op].status \in {"accepted", "completed", "rejected"}
    BY <1>7 DEF Answers
  <2>3. receipts[op].status = "rejected" => receipts[op].outcome = jobs[op].outcome
    BY <1>7, <2>1 DEF Answers, Jobs
  <2> QED BY <2>1, <2>2, <2>3
<1>9. \A op \in DOMAIN jobs : op[1] = NextInput => op \in prepared.ops
  BY <1>2 DEF AccountInv, Books, SentAsPlanned
<1> QED BY <1>1, <1>3, <1>4, <1>6, <1>7, <1>8, <1>9

\* What a commit knows.
LEMMA CommitKnows ==
  ASSUME AccountInv, Commit
  PROVE  /\ NextInput # 0 /\ NextInput = Len(applied) + 1
         /\ prepared.ops = {NextInput} \X Plan(applied, inbox[NextInput].event)
         /\ prepared.ops \subseteq DOMAIN receipts
         /\ prepared.ops \subseteq DOMAIN jobs
         /\ \A op \in prepared.ops :
              /\ op[1] = NextInput
              /\ receipts[op] \in Answers
              /\ jobs[op] \in Jobs
              /\ receipts[op].job = jobs[op].job
              /\ receipts[op].status # "rejected" => jobs[op].status \in {"accepted", "finished"}
              /\ receipts[op].status = "rejected" => jobs[op].status = "rejected"
              /\ receipts[op].status # "accepted" =>
                   /\ jobs[op].status \in {"finished", "rejected"}
                   /\ receipts[op].outcome = jobs[op].outcome
         /\ \A op \in DOMAIN jobs : op[1] = NextInput => op \in prepared.ops
BY AllAnswered DEF Commit, CommitAllowed

\* What a commit does to the rows, for the list q of completions it queues.
CommitRows(q) ==
  /\ Len(q) \in Nat
  /\ Len(inbox') = Len(inbox) + Len(q)
  /\ Len(applied') = Len(applied) + 1
  /\ DOMAIN inbox' = 1 .. (Len(inbox) + Len(q))
  /\ \A i \in DOMAIN inbox :
       /\ inbox'[i].event = inbox[i].event
       /\ inbox'[i].consumed <=> (inbox[i].consumed \/ i = NextInput)
       /\ i # NextInput => inbox'[i] = inbox[i]
  /\ \A k \in 1 .. Len(q) :
       /\ ~inbox'[Len(inbox) + k].consumed
       /\ inbox'[Len(inbox) + k].event = q[k]
       /\ q[k].kind = "completed"
       /\ q[k].id \in prepared.ops
       /\ Told(q[k].id, q[k].body)
       /\ FindInput("completed", q[k].id) = {}
  /\ \A k, m \in 1 .. Len(q) : q[k].id = q[m].id => k = m
  /\ \A op \in prepared.ops :
       receipts[op].status = "rejected" =>
         \/ FindInput("completed", op) # {}
         \/ \E k \in 1 .. Len(q) : q[k].id = op

\* The rows after a commit: the head is consumed, and the completions it queues are
\* new, of operations of the head, decided, one for each operation.
LEMMA CommitWrites ==
  ASSUME AccountInv, TypeInv', Commit
  PROVE  \E q \in Seq(Events) : CommitRows(q)
<1>0. TypeInv
  BY DEF AccountInv
<1>1. PICK q \in Seq(Events) :
        /\ inbox' = Consume(inbox, NextInput) \o [i \in DOMAIN q |-> NewRow(q[i])]
        /\ \A i \in 1 .. Len(q) :
             /\ q[i] \in QueuedCompletions(prepared.ops)
             /\ FindInput("completed", q[i].id) = {}
        /\ \A i, j \in 1 .. Len(q) : q[i] = q[j] => i = j
        /\ \A event \in QueuedCompletions(prepared.ops) :
             \/ FindInput("completed", event.id) # {}
             \/ \E i \in 1 .. Len(q) : q[i] = event
  BY <1>0, CommitQueues
<1>2. applied' = Append(applied, inbox[NextInput].event)
  BY Zenon DEF Commit
<1>3. NextInput # 0 /\ prepared.ops \subseteq DOMAIN receipts
  BY <1>0, CommitQueues
<1>4. /\ Len(inbox') = Len(inbox) + Len(q)
      /\ Len(applied') = Len(applied) + 1
      /\ \A i \in 1 .. Len(inbox) :
           /\ inbox'[i].event = inbox[i].event
           /\ i # NextInput => inbox'[i] = inbox[i]
      /\ inbox'[NextInput].consumed
      /\ \A i \in 1 .. Len(q) : inbox'[Len(inbox) + i] = NewRow(q[i])
  BY <1>0, <1>1, <1>2, <1>3, CommitInbox
<1>5. Len(q) \in Nat /\ \A k \in 1 .. Len(q) : q[k] \in Events
  BY <1>1
<1>6. /\ DOMAIN inbox = 1 .. Len(inbox)
      /\ DOMAIN inbox' = 1 .. (Len(inbox) + Len(q))
      /\ NextInput \in DOMAIN inbox
  BY <1>0, <1>3, <1>4, HeadNow, HeadThen
<1>7. \A k \in 1 .. Len(q) :
        /\ ~inbox'[Len(inbox) + k].consumed
        /\ inbox'[Len(inbox) + k].event = q[k]
  BY <1>4, <1>5, NewRowType
<1>8. ASSUME NEW k \in 1 .. Len(q)
      PROVE  /\ q[k].kind = "completed"
             /\ q[k].id \in prepared.ops
             /\ q[k] = Completion(q[k].id, receipts[q[k].id].job, receipts[q[k].id].outcome)
             /\ Told(q[k].id, q[k].body)
  <2>1. PICK op \in prepared.ops :
          /\ receipts[op].status # "accepted"
          /\ q[k] = Completion(op, receipts[op].job, receipts[op].outcome)
    BY <1>1 DEF QueuedCompletions
  <2>2. /\ q[k].kind = "completed" /\ q[k].id = op
        /\ q[k].body = [job |-> receipts[op].job, outcome |-> receipts[op].outcome]
    BY <2>1 DEF Completion
  <2>3. /\ op \in DOMAIN jobs
        /\ receipts[op].job = jobs[op].job
        /\ jobs[op].status \in {"finished", "rejected"}
        /\ receipts[op].outcome = jobs[op].outcome
    BY <2>1, CommitKnows
  <2> QED BY <2>1, <2>2, <2>3 DEF Told
<1>9. \A k, m \in 1 .. Len(q) : q[k].id = q[m].id => k = m
  <2> SUFFICES ASSUME NEW k \in 1 .. Len(q), NEW m \in 1 .. Len(q), q[k].id = q[m].id
               PROVE  k = m
    OBVIOUS
  <2>1. /\ q[k] = Completion(q[k].id, receipts[q[k].id].job, receipts[q[k].id].outcome)
        /\ q[m] = Completion(q[m].id, receipts[q[m].id].job, receipts[q[m].id].outcome)
    BY <1>8
  <2>2. q[k] = q[m]
    BY <2>1
  <2> QED BY <1>1, <2>2
<1>10. ASSUME NEW op \in prepared.ops, receipts[op].status = "rejected"
       PROVE  \/ FindInput("completed", op) # {}
              \/ \E k \in 1 .. Len(q) : q[k].id = op
  <2>1. Completion(op, receipts[op].job, receipts[op].outcome) \in QueuedCompletions(prepared.ops)
    BY <1>10 DEF QueuedCompletions
  <2>2. Completion(op, receipts[op].job, receipts[op].outcome).id = op
    BY DEF Completion
  <2> QED BY <1>1, <2>1, <2>2
<1>11. \A i \in DOMAIN inbox :
         inbox'[i].consumed <=> (inbox[i].consumed \/ i = NextInput)
  BY <1>4, <1>6
<1>12. CommitRows(q)
  BY <1>1, <1>4, <1>5, <1>6, <1>7, <1>8, <1>9, <1>10, <1>11 DEF CommitRows
<1> QED BY <1>12

\* What a commit records as pending.
LEMMA CommitRecords ==
  ASSUME AccountInv, Commit
  PROVE  LET event  == inbox[NextInput].event
             closed == IF event.kind = "completed" THEN {event.id} ELSE {}
         IN  /\ DOMAIN pending' = (DOMAIN pending \cup Accepted(prepared.ops)) \ closed
             /\ \A op \in DOMAIN pending' :
                  pending'[op] = IF op \in Accepted(prepared.ops) THEN receipts[op].job
                                                                   ELSE pending[op]
<1>1. pending' = CommittedPending(prepared.ops, inbox[NextInput].event)
  BY Zenon DEF Commit
<1> QED BY <1>1 DEF CommittedPending

\* A commit keeps the books: the accepted operations of the head become pending,
\* the rejected ones have a completion, and the operation whose completion this was
\* is closed.
LEMMA BooksCommit ==
  ASSUME AccountInv, TypeInv', Commit
  PROVE  Books'
<1>0. TypeInv /\ Books
  BY DEF AccountInv
<1>1. /\ NextInput # 0 /\ NextInput = Len(applied) + 1
      /\ prepared.ops \subseteq DOMAIN receipts
      /\ prepared.ops \subseteq DOMAIN jobs
      /\ \A op \in prepared.ops :
           /\ op[1] = NextInput
           /\ jobs[op] \in Jobs
           /\ receipts[op].job = jobs[op].job
           /\ receipts[op].status # "rejected" => jobs[op].status \in {"accepted", "finished"}
           /\ receipts[op].status = "rejected" => jobs[op].status = "rejected"
      /\ \A op \in DOMAIN jobs : op[1] = NextInput => op \in prepared.ops
  BY CommitKnows
<1>2. PICK q \in Seq(Events) : CommitRows(q)
  BY CommitWrites
<1>3. jobs' = jobs
  BY DEF Commit, world
<1>4. /\ Len(inbox) \in Nat /\ Len(applied) \in Nat /\ Len(q) \in Nat
      /\ DOMAIN inbox = 1 .. Len(inbox) /\ NextInput \in DOMAIN inbox
  BY <1>0, <1>1, <1>2, HeadNow DEF CommitRows
<1>5. \A op \in DOMAIN jobs : op[1] \in Nat \ {0} /\ op[1] <= NextInput
  BY <1>0, <1>1 DEF TypeInv, TypeOK, WorldTypes, Op, Books, NotAhead
<1>6. \A i \in DOMAIN inbox' :
        \/ i \in DOMAIN inbox
        \/ \E k \in 1 .. Len(q) : i = Len(inbox) + k
  <2> SUFFICES ASSUME NEW i \in DOMAIN inbox', i \notin DOMAIN inbox
               PROVE  \E k \in 1 .. Len(q) : i = Len(inbox) + k
    OBVIOUS
  <2>1. i - Len(inbox) \in 1 .. Len(q) /\ i = Len(inbox) + (i - Len(inbox))
    BY <1>2, <1>4 DEF CommitRows
  <2> QED BY <2>1
<1>7. \A k \in 1 .. Len(q) : Len(inbox) + k \in DOMAIN inbox' /\ Len(inbox) + k > Len(inbox)
  BY <1>2, <1>4 DEF CommitRows
<1>8. \A i \in DOMAIN inbox : i \in DOMAIN inbox'
  BY <1>2, <1>4 DEF CommitRows
<1>9. \A k \in 1 .. Len(q) : \A i \in DOMAIN inbox :
        ~(inbox[i].event.kind = q[k].kind /\ inbox[i].event.id = q[k].id)
  BY <1>2 DEF CommitRows, FindInput
<1>10. Distinct'
  <2> SUFFICES ASSUME NEW i \in DOMAIN inbox', NEW j \in DOMAIN inbox',
                      inbox'[i].event.kind = inbox'[j].event.kind,
                      inbox'[i].event.id = inbox'[j].event.id
               PROVE  i = j
    BY DEF Distinct
  <2>1. CASE i \in DOMAIN inbox /\ j \in DOMAIN inbox
    BY <1>0, <1>2, <2>1 DEF CommitRows, Books, Distinct
  <2>2. CASE i \in DOMAIN inbox /\ j \notin DOMAIN inbox
    BY <1>2, <1>6, <1>9, <2>2 DEF CommitRows
  <2>3. CASE i \notin DOMAIN inbox /\ j \in DOMAIN inbox
    <3>1. PICK k \in 1 .. Len(q) : i = Len(inbox) + k
      BY <1>6, <2>3
    <3>2. inbox'[i].event = q[k] /\ inbox'[j].event = inbox[j].event
      BY <1>2, <2>3, <3>1 DEF CommitRows
    <3> QED BY <1>9, <2>3, <3>2
  <2>4. CASE i \notin DOMAIN inbox /\ j \notin DOMAIN inbox
    BY <1>2, <1>6, <2>4 DEF CommitRows
  <2> QED BY <2>1, <2>2, <2>3, <2>4
<1>11. RowsTell'
  <2> SUFFICES ASSUME NEW i \in DOMAIN inbox', inbox'[i].event.kind = "completed"
               PROVE  /\ Told(inbox[i].event.id, inbox[i].event.body)'
                      /\ inbox'[i].event.id[1] < i
    BY DEF RowsTell
  <2>1. CASE i \in DOMAIN inbox
    BY <1>0, <1>2, <1>3, <2>1 DEF CommitRows, Books, RowsTell, Told
  <2>2. CASE i \notin DOMAIN inbox
    <3>1. PICK k \in 1 .. Len(q) : i = Len(inbox) + k
      BY <1>6, <2>2
    <3>2. /\ inbox'[i].event = q[k] /\ Told(q[k].id, q[k].body)
          /\ q[k].id[1] = NextInput
      BY <1>1, <1>2, <3>1 DEF CommitRows
    <3>3. NextInput < i
      BY <1>4, <3>1
    <3> QED BY <1>3, <3>2, <3>3 DEF Told
  <2> QED BY <2>1, <2>2
<1>12. NotAhead'
  <2>1. \A op \in DOMAIN jobs : jobs[op].status # "sent"
    BY <1>0, <1>1 DEF Books, NotAhead
  <2>2. Len(applied') = Len(applied) + 1 /\ Len(inbox') = Len(inbox) + Len(q)
    BY <1>2 DEF CommitRows
  <2> QED BY <1>1, <1>3, <1>4, <1>5, <2>1, <2>2 DEF NotAhead
<1>13. \A op \in DOMAIN jobs' : op[1] # NextInput'
  <2>1. NextInput' = 0 \/ NextInput' = NextInput + 1
    BY <1>1, <1>2, HeadThen DEF CommitRows
  <2> QED BY <1>3, <1>4, <1>5, <2>1
<1>14. SentAsPlanned'
  BY <1>13 DEF SentAsPlanned
<1> DEFINE event  == inbox[NextInput].event
           closed == IF event.kind = "completed" THEN {event.id} ELSE {}
<1>15. /\ DOMAIN pending' = (DOMAIN pending \cup Accepted(prepared.ops)) \ closed
       /\ \A op \in DOMAIN pending' :
            pending'[op] = IF op \in Accepted(prepared.ops) THEN receipts[op].job
                                                             ELSE pending[op]
  BY CommitRecords
<1>16. \A op \in closed : op \in DOMAIN jobs /\ op[1] < NextInput
  BY <1>0, <1>4 DEF Books, RowsTell, Told
<1>17. \A op : op \in closed => FindInput("completed", op)' # {}
  BY <1>2, <1>4, <1>8 DEF CommitRows, FindInput
<1>18. \A op : FindInput("completed", op) # {} => FindInput("completed", op)' # {}
  <2> SUFFICES ASSUME NEW op, NEW i \in FindInput("completed", op)
               PROVE  i \in FindInput("completed", op)'
    OBVIOUS
  <2> QED BY <1>2, <1>8 DEF CommitRows, FindInput
<1>19. \A op : \A k \in 1 .. Len(q) : q[k].id = op => FindInput("completed", op)' # {}
  <2> SUFFICES ASSUME NEW k \in 1 .. Len(q)
               PROVE  Len(inbox) + k \in FindInput("completed", q[k].id)'
    OBVIOUS
  <2>1. /\ inbox'[Len(inbox) + k].event = q[k] /\ q[k].kind = "completed"
        /\ Len(inbox) + k \in DOMAIN inbox'
    BY <1>2, <1>7 DEF CommitRows
  <2> QED BY <2>1 DEF FindInput
<1>20. NoOrphanJob'
  <2> SUFFICES ASSUME NEW op \in DOMAIN jobs
               PROVE  op \in DOMAIN pending' \/ FindInput("completed", op)' # {}
    BY <1>3 DEF NoOrphanJob
  <2>1. CASE op[1] = NextInput
    <3>1. op \in prepared.ops /\ op \notin closed
      BY <1>1, <1>5, <1>16, <2>1
    <3>2. CASE receipts[op].status # "rejected"
      BY <1>15, <3>1, <3>2 DEF Accepted
    <3>3. CASE receipts[op].status = "rejected"
      <4>1. FindInput("completed", op) # {} \/ \E k \in 1 .. Len(q) : q[k].id = op
        BY <1>2, <3>1, <3>3 DEF CommitRows
      <4> QED BY <1>18, <1>19, <4>1
    <3> QED BY <3>2, <3>3
  <2>2. CASE op[1] # NextInput
    <3>1. op \in DOMAIN pending \/ FindInput("completed", op) # {}
      BY <1>0, <2>2 DEF Books, NoOrphanJob
    <3> QED BY <1>15, <1>17, <1>18, <3>1
  <2> QED BY <2>1, <2>2
<1>21. ASSUME NEW op
       PROVE  (\A i \in FindInput("completed", op)' : ~inbox'[i].consumed) <=>
                /\ \A i \in FindInput("completed", op) : ~inbox[i].consumed
                /\ op \notin closed
  <2>1. ASSUME NEW i \in FindInput("completed", op)', inbox'[i].consumed
        PROVE  i \in FindInput("completed", op) /\ (inbox[i].consumed \/ i = NextInput)
    <3>1. i \in DOMAIN inbox'
      BY DEF FindInput
    <3>2. i \in DOMAIN inbox
      BY <1>2, <1>6, <2>1, <3>1 DEF CommitRows
    <3> QED BY <1>2, <2>1, <3>2 DEF CommitRows, FindInput
  <2>2. ASSUME NEW i \in FindInput("completed", op), inbox[i].consumed \/ i = NextInput
        PROVE  i \in FindInput("completed", op)' /\ inbox'[i].consumed
    BY <1>2, <1>8, <2>2 DEF CommitRows, FindInput
  <2>3. op \in closed <=> NextInput \in FindInput("completed", op)
    BY <1>4 DEF FindInput
  <2> QED BY <2>1, <2>2, <2>3
<1>22. PendingIsOpenJobs'
  <2> DEFINE open(op) == \A i \in FindInput("completed", op) : ~inbox[i].consumed
  <2>0. Len(applied') = Len(applied) + 1
    BY <1>2 DEF CommitRows
  <2>1. \A op \in DOMAIN pending' : op \in DOMAIN jobs
    <3>1. \A op \in DOMAIN pending : op \in DOMAIN jobs
      BY <1>0 DEF Books, PendingIsOpenJobs
    <3> QED BY <1>1, <1>15, <3>1 DEF Accepted
  <2>2. ASSUME NEW op \in DOMAIN jobs
        PROVE  op \in DOMAIN pending' <=>
                 /\ jobs[op].status \in {"accepted", "finished"}
                 /\ op[1] <= Len(applied')
                 /\ open(op) /\ op \notin closed
                 /\ op \in DOMAIN pending' => pending'[op] = jobs[op].job
    <3>1. CASE op[1] = NextInput
      <4>1. op \in prepared.ops /\ op \notin closed /\ op \notin DOMAIN pending
        BY <1>0, <1>1, <1>4, <1>5, <1>16, <3>1 DEF Books, PendingIsOpenJobs
      <4>2. open(op)
        <5> SUFFICES ASSUME NEW i \in FindInput("completed", op), inbox[i].consumed
                     PROVE  FALSE
          OBVIOUS
        <5>1. i \in DOMAIN inbox /\ op[1] < i
          BY <1>0 DEF FindInput, Books, RowsTell
        <5>2. i <= Len(applied)
          BY <1>0, <5>1 DEF TypeInv, InOrderExactlyOnce
        <5> QED BY <1>1, <1>4, <3>1, <5>1, <5>2
      <4>3. op \in DOMAIN pending' <=> receipts[op].status # "rejected"
        BY <1>15, <4>1 DEF Accepted
      <4>4. op \in DOMAIN pending' => pending'[op] = jobs[op].job
        BY <1>1, <1>15, <4>1 DEF Accepted
      <4>5. receipts[op].status # "rejected" <=> jobs[op].status \in {"accepted", "finished"}
        BY <1>1, <4>1
      <4>6. op[1] <= Len(applied')
        BY <1>1, <1>4, <2>0, <3>1
      <4> HIDE DEF open, closed
      <4> QED BY <4>1, <4>2, <4>3, <4>4, <4>5, <4>6
    <3>2. CASE op[1] # NextInput
      <4>1. op \notin Accepted(prepared.ops)
        BY <1>1, <3>2 DEF Accepted
      <4>2. op[1] <= Len(applied) /\ op[1] <= Len(applied')
        BY <1>1, <1>4, <1>5, <2>0, <3>2
      <4>3. op \in DOMAIN pending <=>
              /\ jobs[op].status \in {"accepted", "finished"}
              /\ open(op)
              /\ op \in DOMAIN pending => pending[op] = jobs[op].job
        BY <1>0, <4>2 DEF Books, PendingIsOpenJobs
      <4>4. op \in DOMAIN pending' <=> op \in DOMAIN pending /\ op \notin closed
        BY <1>15, <4>1
      <4>5. op \in DOMAIN pending' => pending'[op] = pending[op]
        BY <1>15, <4>1
      <4> HIDE DEF open, closed
      <4> QED BY <4>2, <4>3, <4>4, <4>5
    <3> QED BY <3>1, <3>2
  <2>3. ASSUME NEW op \in DOMAIN jobs
        PROVE  op \in DOMAIN pending' <=>
                 /\ jobs[op].status \in {"accepted", "finished"}
                 /\ op[1] <= Len(applied')
                 /\ \A i \in FindInput("completed", op)' : ~inbox'[i].consumed
                 /\ op \in DOMAIN pending' => pending'[op] = jobs[op].job
    BY <1>21, <2>2
  <2> QED BY <1>3, <2>1, <2>3 DEF PendingIsOpenJobs
<1> QED BY <1>10, <1>11, <1>12, <1>14, <1>20, <1>22 DEF Books

\* Every step keeps the books.
LEMMA BooksStep ==
  ASSUME AccountInv, TypeInv', [Next]_vars
  PROVE  Books'
<1>0. TypeInv /\ Books /\ AdmissionTells
  BY DEF AccountInv
<1>1. StepKinds
  BY StepIsOfAKind
<1>2. CASE SameLog /\ UNCHANGED jobs
  BY <1>0, <1>2, BooksSame
<1>3. CASE Grows
  BY <1>0, <1>3, BooksGrow
<1>4. CASE SameLog /\ \E op \in todo : SubmitSend(op)
  BY <1>4, BooksSend
<1>5. CASE SameLog /\ \E op \in DOMAIN jobs : ProviderDecides(op)
  BY <1>5, BooksDecide
<1>6. CASE SameLog /\ \E op \in DOMAIN jobs : JobFinishes(op)
  BY <1>6, BooksFinish
<1>7. CASE Commit
  BY <1>7, BooksCommit
<1> QED BY <1>1, <1>2, <1>3, <1>4, <1>5, <1>6, <1>7 DEF StepKinds

-----------------------------------------------------------------------------
(* Admissions, and what they tell *)

\* No step changes a decided job, or forgets one.
LEMMA DecidedStays ==
  ASSUME AccountInv, [Next]_vars
  PROVE  /\ DOMAIN jobs \subseteq DOMAIN jobs'
         /\ \A op \in DOMAIN jobs :
              /\ jobs[op].status \in {"finished", "rejected"} => jobs'[op] = jobs[op]
              /\ jobs[op].status = "accepted" =>
                   jobs'[op].status \in {"accepted", "finished"} /\ jobs'[op].job = jobs[op].job
<1>1. StepKinds
  BY StepIsOfAKind
<1>2. CASE jobs' = jobs
  BY <1>2
<1>3. ASSUME NEW op \in todo, SubmitSend(op), op \notin DOMAIN jobs
      PROVE  DOMAIN jobs \subseteq DOMAIN jobs' /\ \A o \in DOMAIN jobs : jobs'[o] = jobs[o]
  BY <1>3 DEF SubmitSend, Put
<1>4. CASE \E op \in todo : SubmitSend(op)
  BY <1>2, <1>3, <1>4 DEF SubmitSend
<1>5. CASE \E op \in DOMAIN jobs : ProviderDecides(op)
  BY <1>5 DEF ProviderDecides
<1>6. CASE \E op \in DOMAIN jobs : JobFinishes(op)
  <2>1. \A op \in DOMAIN jobs : jobs[op] \in Jobs
    BY DEF AccountInv, TypeInv, TypeOK, WorldTypes
  <2> QED BY <1>6, <2>1 DEF JobFinishes, Jobs
<1>7. CASE Grows \/ Commit
  BY <1>2, <1>7 DEF Grows, Commit, world
<1> QED BY <1>1, <1>2, <1>4, <1>5, <1>6, <1>7 DEF StepKinds

\* The lock is taken by an admission that tells the truth, kept or released.
LEMMA AdmissionChanges ==
  ASSUME AccountInv, [Next]_vars
  PROVE  \/ UNCHANGED admission
         \/ admission' = NoAdmission
         \/ admission'.call = "append" /\ admission'.event.kind = "input"
         \/ admission'.call = "resume"
         \/ /\ admission'.call = "completion" /\ admission'.event.kind = "completed"
            /\ Told(admission'.event.id, admission'.event.body)
<1>1. CASE UNCHANGED vars
  BY <1>1 DEF vars, scheduler
<1>2. CASE Admission
  <2>1. CASE Initialize
    BY <2>1 DEF Initialize, scheduler
  <2>2. ASSUME NEW id \in InputIds, NEW body \in Bodies, AppendArm(id, body)
        PROVE  admission'.call = "append" /\ admission'.event.kind = "input"
    BY <2>2 DEF AppendArm, Arm
  <2>3. CASE AppendNew \/ AppendDuplicate \/ AppendRefused \/ CompletionCommit
               \/ ResumeCommit \/ ResumeRefused
    BY <2>3 DEF AppendNew, AppendDuplicate, AppendRefused, CompletionCommit,
                ResumeCommit, ResumeRefused, Admitted, Refused
  <2>4. ASSUME NEW op \in DOMAIN jobs, CompletionArm(op)
        PROVE  /\ admission'.call = "completion" /\ admission'.event.kind = "completed"
               /\ Told(admission'.event.id, admission'.event.body)
    BY <2>4 DEF CompletionArm, Arm, Callback, Completion, Told
  <2>5. ASSUME NEW op, CompletionRefused(op) PROVE UNCHANGED admission
    BY <2>5 DEF CompletionRefused, scheduler
  <2>6. CASE ResumeArm
    BY <2>6 DEF ResumeArm, Arm
  <2> QED BY <1>2, <2>1, <2>2, <2>3, <2>4, <2>5, <2>6 DEF Admission
<1>3. CASE Drain
  BY <1>3 DEF Drain, DrainArm, SliceEnd, LoopStop, LoopPrepare, LoopPrepareFails,
              SubmitSend, SubmitAnswer, SubmitError, SubmitDone, SubmitFails, Commit,
              CommitFails, Final, DrainThrows, Ending, scheduler
<1>4. CASE Environment
  BY <1>4 DEF Environment, AlarmFire, AlarmArm, Run, Crash, RetryDue, ProviderDecides,
              JobFinishes, scheduler
<1> QED BY <1>1, <1>2, <1>3, <1>4 DEF Next

\* Every step keeps what the admission under way tells.
LEMMA AdmissionTellsStep ==
  ASSUME AccountInv, [Next]_vars
  PROVE  AdmissionTells'
<1>1. ASSUME NEW op, NEW body, Told(op, body) PROVE Told(op, body)'
  BY <1>1, DecidedStays DEF Told
<1>2. CASE UNCHANGED admission
  BY <1>1, <1>2 DEF AccountInv, AdmissionTells
<1>3. CASE admission' = NoAdmission
  BY <1>3 DEF NoAdmission, AdmissionTells
<1>4. CASE admission'.call = "append" /\ admission'.event.kind = "input"
  BY <1>4 DEF AdmissionTells
<1>5. CASE admission'.call = "resume"
  BY <1>5 DEF AdmissionTells
<1>6. CASE /\ admission'.call = "completion" /\ admission'.event.kind = "completed"
           /\ Told(admission'.event.id, admission'.event.body)
  BY <1>6, DecidedStays DEF AdmissionTells, Told
<1> QED BY <1>2, <1>3, <1>4, <1>5, <1>6, AdmissionChanges

-----------------------------------------------------------------------------
(* The alarm, and the mark of a blocked head *)

\* Only the end of a drain may leave the object without an alarm.
LEMMA AlarmStays ==
  ASSUME [Next]_vars, alarm \/ firing, ~Final
  PROVE  alarm' \/ firing'
<1>1. CASE UNCHANGED vars
  BY <1>1 DEF vars, world
<1>2. CASE Admission
  BY <1>2 DEF Admission, Initialize, AppendArm, Arm, AppendNew, AppendDuplicate,
              AppendRefused, CompletionArm, CompletionRefused, CompletionCommit,
              ResumeArm, ResumeCommit, ResumeRefused, world
<1>3. CASE Drain
  BY <1>3 DEF Drain, DrainArm, SliceEnd, LoopStop, LoopPrepare, LoopPrepareFails,
              SubmitSend, SubmitAnswer, SubmitError, SubmitDone, SubmitFails, Commit,
              CommitFails, DrainThrows, Ending, world
<1>4. CASE Environment
  BY <1>4 DEF Environment, AlarmFire, AlarmArm, Run, Crash, RetryDue, ProviderDecides,
              JobFinishes, world
<1> QED BY <1>1, <1>2, <1>3, <1>4 DEF Next

\* The drain enters its work only from the loop, with a runnable head.
LEMMA WorkStarts ==
  ASSUME [Next]_vars, pc' \in AtWorkSteps
  PROVE  /\ pc \in AtWorkSteps \/ LoopPrepare
         /\ ~Commit
<1> USE DEF AtWorkSteps
<1>0. ~Commit
  BY DEF Commit
<1>1. CASE UNCHANGED vars
  BY <1>0, <1>1 DEF vars, scheduler
<1>2. CASE Admission
  BY <1>0, <1>2
     DEF Admission, Initialize, AppendArm, Arm, AppendNew, AppendDuplicate,
         AppendRefused, CompletionArm, CompletionRefused, CompletionCommit,
         ResumeArm, ResumeCommit, ResumeRefused, scheduler, Admitted, Refused, Kick, Start
<1>3. CASE Drain
  BY <1>0, <1>3
     DEF Drain, DrainArm, SliceEnd, LoopStop, LoopPrepareFails,
         SubmitSend, SubmitAnswer, SubmitError, SubmitDone, SubmitFails, Commit,
         CommitFails, Final, DrainThrows, Ending, scheduler
<1>4. CASE Environment
  BY <1>0, <1>4
     DEF Environment, AlarmFire, AlarmArm, Run, Crash, RetryDue, ProviderDecides,
         JobFinishes, scheduler, Start
<1> QED BY <1>1, <1>2, <1>3, <1>4 DEF Next

\* A row is blocked only when work on an unblocked head ends, and unblocked only by
\* resumeProcessing or by a commit of it.
LEMMA MarksChange ==
  ASSUME AccountInv, [Next]_vars
  PROVE  \/ \A i \in DOMAIN inbox : inbox'[i].blocked = inbox[i].blocked
         \/ /\ admission.call = "resume"
            /\ \A i \in DOMAIN inbox : inbox'[i].blocked => inbox[i].blocked
         \/ /\ pc' \notin AtWorkSteps
            /\ NextInput # 0 /\ ~inbox[NextInput].blocked
<1>0. TypeInv /\ AtWork
  BY DEF AccountInv, Guarded
<1>1. CASE inbox' = inbox
  BY <1>1
<1>2. CASE Admission
  <2>1. CASE Grows
    <3>1. admission.event \in Events
      BY <1>0, <2>1 DEF Grows, TypeInv, TypeOK, SchedulerTypes
    <3>2. \A i \in DOMAIN inbox : inbox'[i] = inbox[i]
      BY <1>0, <2>1, <3>1, HeadNow, NewRowType DEF Grows
    <3> QED BY <3>2
  <2>2. CASE AppendNew \/ CompletionCommit
    <3>1. AppendNew => Grows
      BY DEF AppendNew, Grows, AccountInv, AdmissionTells, world
    <3>2. CompletionCommit => Grows \/ inbox' = inbox
      BY DEF CompletionCommit, Grows, AccountInv, AdmissionTells, world
    <3> QED BY <1>1, <2>1, <2>2, <3>1, <3>2
  <2>3. CASE ResumeCommit
    <3>1. inbox' = ResetHead /\ admission.call = "resume"
      BY <2>3 DEF ResumeCommit
    <3>2. \A i \in DOMAIN inbox : i # NextInput => inbox'[i] = inbox[i]
      BY <1>0, <3>1, ResetKeepsEvents
    <3>3. NextInput # 0 => (inbox'[NextInput].blocked => inbox[NextInput].blocked)
      <4>1. NextInput # 0 => NextInput \in DOMAIN inbox /\ inbox[NextInput] \in Rows
        BY <1>0, HeadNow
      <4> QED BY <3>1, <4>1 DEF ResetHead, Rows
    <3>4. \A i \in DOMAIN inbox : i # 0
      BY <1>0, HeadNow
    <3> QED BY <3>1, <3>2, <3>3, <3>4
  <2> QED
    BY <1>1, <1>2, <2>2, <2>3
       DEF Admission, Initialize, AppendArm, Arm, AppendDuplicate,
           AppendRefused, CompletionArm, CompletionRefused, ResumeArm, ResumeRefused, durable
<1>3. CASE Drain
  <2>1. CASE LoopPrepareFails
    BY <2>1 DEF LoopPrepareFails, Runnable, AtWorkSteps
  <2>2. CASE SubmitFails \/ CommitFails \/ Commit
    BY <1>0, <2>2 DEF SubmitFails, CommitFails, Commit, AtWork, AtWorkSteps
  <2> QED
    BY <1>1, <1>3, <2>1, <2>2
       DEF Drain, DrainArm, SliceEnd, LoopStop, LoopPrepare, SubmitSend, SubmitAnswer,
           SubmitError, SubmitDone, Final, DrainThrows, Ending, durable
<1>4. CASE Environment
  <2>1. CASE RetryDue
    BY <1>0, <2>1, RetrySame
  <2> QED
    BY <1>1, <1>4, <2>1
       DEF Environment, AlarmFire, AlarmArm, Run, Crash, ProviderDecides, JobFinishes, durable
<1>5. CASE UNCHANGED vars
  BY <1>1, <1>5 DEF vars, durable
<1> QED BY <1>2, <1>3, <1>4, <1>5 DEF Next

\* Until its commit the head stays the head.
LEMMA HeadStays ==
  ASSUME AccountInv, TypeInv', [Next]_vars, NextInput # 0, ~Commit
  PROVE  /\ NextInput' = NextInput
         /\ HeadTransition' = HeadTransition
         /\ NextInput \in DOMAIN inbox
         /\ inbox'[NextInput].event = inbox[NextInput].event
         /\ applied' = applied
<1>0. TypeInv
  BY DEF AccountInv
<1>1. StepKinds /\ NextInput \in DOMAIN inbox
  BY <1>0, StepIsOfAKind, HeadNow
<1>2. CASE SameLog
  BY <1>0, <1>1, <1>2, SameView DEF SameLog
<1>3. CASE Grows
  BY <1>0, <1>1, <1>3, GrownView DEF Grows
<1> QED BY <1>1, <1>2, <1>3 DEF StepKinds

\* What BlockedUntilResumed says of one step.
LEMMA BlockedStays ==
  ASSUME AccountInv, TypeInv', [Next]_vars, NextInput # 0, inbox[NextInput].blocked
  PROVE  /\ applied' = applied
         /\ NextInput' = NextInput
         /\ inbox'[NextInput].blocked \/ admission.call = "resume"
<1>1. ~Commit
  BY DEF Commit, AccountInv, Guarded, AtWork, AtWorkSteps
<1> QED BY <1>1, HeadStays, MarksChange

\* Every step keeps the alarm's guard.
LEMMA GuardedStep ==
  ASSUME AccountInv, TypeInv', [Next]_vars
  PROVE  Guarded'
<1>0. TypeInv /\ Armed /\ AtWork /\ Protected
  BY DEF AccountInv, Guarded
<1>1. Armed'
  <2>1. CASE Final
    BY <2>1 DEF Final, Armed, LockFree
  <2>2. CASE ~Final /\ ~LockFree
    BY <1>0, <2>2, AlarmStays DEF Armed
  <2>3. CASE LockFree
    <3>1. CASE UNCHANGED admission
      BY <2>3, <3>1 DEF LockFree, Armed
    <3>2. CASE Admission
      BY <2>3, <3>1, <3>2
         DEF Admission, Initialize, AppendArm, Arm, AppendNew, AppendDuplicate,
             AppendRefused, CompletionArm, CompletionRefused, CompletionCommit,
             ResumeArm, ResumeCommit, ResumeRefused, scheduler, Admitted, Refused,
             Armed, LockFree
    <3>3. CASE Drain \/ Environment \/ UNCHANGED vars
      BY <3>1, <3>3
         DEF Drain, DrainArm, SliceEnd, LoopStop, LoopPrepare, LoopPrepareFails,
             SubmitSend, SubmitAnswer, SubmitError, SubmitDone, SubmitFails, Commit,
             CommitFails, Final, DrainThrows, Ending, scheduler, vars,
             Environment, AlarmFire, AlarmArm, Run, Crash, RetryDue, ProviderDecides,
             JobFinishes, Armed, LockFree
    <3> QED BY <3>2, <3>3 DEF Next
  <2> QED BY <2>1, <2>2, <2>3
<1>2. AtWork'
  <2> SUFFICES ASSUME pc' \in AtWorkSteps
               PROVE  NextInput' # 0 /\ ~inbox'[NextInput'].blocked
    BY DEF AtWork
  <2>1. (pc \in AtWorkSteps \/ LoopPrepare) /\ ~Commit
    BY WorkStarts
  <2>2. NextInput # 0 /\ ~inbox[NextInput].blocked
    BY <1>0, <2>1 DEF AtWork, LoopPrepare, Runnable
  <2>3. NextInput' = NextInput /\ NextInput \in DOMAIN inbox
    BY <2>1, <2>2, HeadStays
  <2>4. CASE /\ pc' \notin AtWorkSteps
    BY <2>4
  <2>5. CASE \A i \in DOMAIN inbox : inbox'[i].blocked = inbox[i].blocked
    BY <2>2, <2>3, <2>5
  <2>6. CASE \A i \in DOMAIN inbox : inbox'[i].blocked => inbox[i].blocked
    BY <2>2, <2>3, <2>6
  <2> QED BY <2>4, <2>5, <2>6, MarksChange
<1>3. Protected'
  <2>1. CASE Final
    <3>1. NextInput' = NextInput /\ inbox' = inbox
      BY <2>1 DEF Final, durable, NextInput, Unconsumed
    <3> QED BY <2>1, <3>1 DEF Final, Protected
  <2>2. CASE ~Final /\ (alarm \/ firing)
    BY <2>2, AlarmStays DEF Protected
  <2>3. CASE ~(alarm \/ firing)
    <3>1. admission = NoAdmission
      BY <1>0, <2>3 DEF Armed, LockFree
    <3>2. CASE NextInput # 0
      <4>1. inbox[NextInput].blocked
        BY <1>0, <2>3, <3>2 DEF Protected
      <4>2. admission.call # "resume"
        BY <3>1 DEF NoAdmission
      <4>3. NextInput' = NextInput /\ inbox'[NextInput].blocked
        BY <3>2, <4>1, <4>2, BlockedStays
      <4> QED BY <4>3 DEF Protected
    <3>3. CASE NextInput = 0
      <4>1. StepKinds /\ ~Grows /\ ~Commit
        <5>1. ~Grows
          BY <3>1 DEF Grows, NoAdmission
        <5>2. ~Commit
          BY <3>3 DEF Commit, CommitAllowed
        <5> QED BY <5>1, <5>2, StepIsOfAKind
      <4>2. SameLog
        BY <4>1 DEF StepKinds
      <4>3. NextInput' = 0
        BY <1>0, <3>3, <4>2, SameView
      <4> QED BY <4>3 DEF Protected
    <3> QED BY <3>2, <3>3
  <2> QED BY <2>1, <2>2, <2>3
<1> QED BY <1>1, <1>2, <1>3 DEF Guarded

-----------------------------------------------------------------------------
(* The plan and the receipts in memory *)

\* #receipts changes when a provider answers, or is dropped.
LEMMA ReceiptsChange ==
  ASSUME [Next]_vars
  PROVE  \/ UNCHANGED receipts
         \/ receipts' = <<>>
         \/ \E op \in flight : SubmitAnswer(op)
<1>1. CASE UNCHANGED vars
  BY <1>1 DEF vars, memory, submission
<1>2. CASE Admission
  BY <1>2
     DEF Admission, Initialize, AppendArm, Arm, AppendNew, AppendDuplicate,
         AppendRefused, CompletionArm, CompletionRefused, CompletionCommit,
         ResumeArm, ResumeCommit, ResumeRefused, memory, submission
<1>3. CASE Drain
  BY <1>3
     DEF Drain, DrainArm, SliceEnd, LoopStop, LoopPrepare, LoopPrepareFails,
         SubmitSend, SubmitError, SubmitDone, SubmitFails, Commit,
         CommitFails, Final, DrainThrows, Ending, memory, submission
<1>4. CASE Environment
  BY <1>4
     DEF Environment, AlarmFire, AlarmArm, Run, Crash, RetryDue, ProviderDecides,
         JobFinishes, memory, submission
<1> QED BY <1>1, <1>2, <1>3, <1>4 DEF Next

\* Receipts stay true: a provider answers from its job and decisions are final.
LEMMA ReceiptsTellStep ==
  ASSUME AccountInv, TypeInv', [Next]_vars
  PROVE  ReceiptsTell'
<1>0. /\ ReceiptsTell
      /\ \A op \in DOMAIN receipts : receipts[op] \in Answers
      /\ \A op \in DOMAIN jobs : jobs[op] \in Jobs
  BY DEF AccountInv, Hands, TypeInv, TypeOK, MemoryTypes, WorldTypes
<1>1. CASE UNCHANGED receipts
  <2> SUFFICES ASSUME NEW op \in DOMAIN receipts
               PROVE  /\ op \in DOMAIN jobs'
                      /\ receipts[op].job = jobs'[op].job
                      /\ receipts[op].status = "accepted" => jobs'[op].status \in {"accepted", "finished"}
                      /\ receipts[op].status = "rejected" => jobs'[op].status = "rejected"
                      /\ receipts[op].status = "completed" =>
                           jobs'[op].status = "finished" /\ receipts[op].outcome = jobs'[op].outcome
    BY <1>1 DEF ReceiptsTell
  <2>1. /\ op \in DOMAIN jobs
        /\ receipts[op].job = jobs[op].job
        /\ receipts[op].status = "accepted" => jobs[op].status \in {"accepted", "finished"}
        /\ receipts[op].status = "rejected" => jobs[op].status = "rejected"
        /\ receipts[op].status = "completed" =>
             jobs[op].status = "finished" /\ receipts[op].outcome = jobs[op].outcome
        /\ receipts[op].status \in {"accepted", "rejected", "completed"}
    BY <1>0 DEF ReceiptsTell, Answers
  <2>2. /\ op \in DOMAIN jobs'
        /\ jobs[op].status \in {"finished", "rejected"} => jobs'[op] = jobs[op]
        /\ jobs[op].status = "accepted" =>
             jobs'[op].status \in {"accepted", "finished"} /\ jobs'[op].job = jobs[op].job
    BY <2>1, DecidedStays
  <2> QED BY <2>1, <2>2
<1>2. CASE receipts' = <<>>
  BY <1>2 DEF ReceiptsTell
<1>3. ASSUME NEW op \in flight, SubmitAnswer(op) PROVE ReceiptsTell'
  <2>1. jobs' = jobs /\ op \in DOMAIN jobs
    BY <1>3 DEF SubmitAnswer, world
  <2>2. PICK answer \in AnswersFor(jobs[op]) : receipts' = Put(receipts, op, answer)
    BY <1>3 DEF SubmitAnswer
  <2>3. /\ DOMAIN receipts' = DOMAIN receipts \cup {op}
        /\ receipts'[op] = answer
        /\ \A o \in DOMAIN receipts : o # op => receipts'[o] = receipts[o]
    BY <2>2 DEF Put
  <2>4. /\ answer.job = jobs[op].job
        /\ answer.status = "accepted" => jobs[op].status \in {"accepted", "finished"}
        /\ answer.status = "rejected" => jobs[op].status = "rejected"
        /\ answer.status = "completed" =>
             jobs[op].status = "finished" /\ answer.outcome = jobs[op].outcome
    BY <1>0, <2>1, AnswersType
  <2> QED BY <1>0, <2>1, <2>3, <2>4 DEF ReceiptsTell
<1> QED BY <1>1, <1>2, <1>3, ReceiptsChange

\* #prepared changes by #prepare, or is dropped.
LEMMA PreparedChanges ==
  ASSUME [Next]_vars
  PROVE  \/ UNCHANGED prepared /\ ~Commit
         \/ prepared' = NoTransition
         \/ ~PrepareThrows /\ prepared' = Prepare /\ ~Commit
<1>1. CASE Commit
  BY <1>1 DEF Commit
<1>2. CASE UNCHANGED vars /\ ~Commit
  BY <1>2 DEF vars, memory
<1>3. CASE Admission /\ ~Commit
  BY <1>3
     DEF Admission, Initialize, AppendArm, Arm, AppendNew, AppendDuplicate,
         AppendRefused, CompletionArm, CompletionRefused, CompletionCommit,
         ResumeArm, ResumeCommit, ResumeRefused, memory, CheckPrepares
<1>4. CASE Drain /\ ~Commit
  BY <1>4
     DEF Drain, DrainArm, SliceEnd, LoopStop, LoopPrepare, LoopPrepareFails,
         SubmitSend, SubmitAnswer, SubmitError, SubmitDone, SubmitFails,
         CommitFails, Final, DrainThrows, Ending, memory
<1>5. CASE Environment /\ ~Commit
  BY <1>5
     DEF Environment, AlarmFire, AlarmArm, Run, Crash, RetryDue, ProviderDecides,
         JobFinishes, memory
<1> QED BY <1>1, <1>2, <1>3, <1>4, <1>5 DEF Next

\* What #prepare returns is the plan of the head, whichever way it got it.
LEMMA PrepareIsHead ==
  ASSUME AccountInv, ~PrepareThrows
  PROVE  /\ Prepare = HeadTransition
         /\ NextInput # 0 => Plan(applied, inbox[NextInput].event) \subseteq Keys
<1>1. CASE prepared # NoTransition
  BY <1>1 DEF AccountInv, Hands, PlanInMemory, Prepare
<1>2. CASE prepared = NoTransition
  BY <1>2 DEF Prepare, PrepareThrows
<1> QED BY <1>1, <1>2

\* Every step keeps the plan in memory that of the head.
LEMMA PlanInMemoryStep ==
  ASSUME AccountInv, TypeInv', [Next]_vars
  PROVE  PlanInMemory'
<1> SUFFICES ASSUME prepared' # NoTransition
             PROVE  /\ prepared' = HeadTransition'
                    /\ (Plan(applied, inbox[NextInput].event))' \subseteq Keys
  BY DEF PlanInMemory
<1>1. /\ ~Commit
      /\ prepared' = HeadTransition
      /\ NextInput # 0 => Plan(applied, inbox[NextInput].event) \subseteq Keys
  BY PreparedChanges, PrepareIsHead DEF AccountInv, Hands, PlanInMemory
<1>2. NextInput # 0
  BY <1>1 DEF HeadTransition
<1>3. /\ NextInput' = NextInput /\ HeadTransition' = HeadTransition
      /\ inbox'[NextInput].event = inbox[NextInput].event
      /\ applied' = applied
  BY <1>1, <1>2, HeadStays
<1> QED BY <1>1, <1>2, <1>3

\* Every step keeps the drain's hold on the operations of its plan.
LEMMA InHandStep ==
  ASSUME AccountInv, TypeInv', [Next]_vars
  PROVE  InHand'
<1> SUFFICES ASSUME pc' \in AtWorkSteps PROVE InHand'
  BY DEF InHand
<1>0. InHand /\ AtWork /\ TypeInv
  BY DEF AccountInv, Hands, Guarded
<1>1. (pc \in AtWorkSteps \/ LoopPrepare) /\ ~Commit
  BY WorkStarts
<1>2. CASE LoopPrepare
  <2>1. NextInput # 0 /\ ~PrepareThrows
    BY <1>2 DEF LoopPrepare, Runnable
  <2>2. Prepare = HeadTransition /\ Prepare.seq # 0
    BY <1>0, <2>1, PrepareIsHead, HeadOps
  <2>3. /\ prepared' = Prepare /\ work'.plan = Prepare /\ pc' = "submit"
        /\ todo' = Prepare.ops \ DOMAIN receipts' /\ flight' = {}
    BY <1>2 DEF LoopPrepare
  <2> QED BY <2>2, <2>3 DEF InHand
<1>3. CASE pc \in AtWorkSteps /\ ~LoopPrepare
  <2>0. /\ prepared.seq # 0
        /\ work.plan = prepared
        /\ todo \cup flight \subseteq prepared.ops
        /\ flight \subseteq DOMAIN jobs
        /\ pc = "submit" /\ ~failed =>
             prepared.ops \subseteq todo \cup flight \cup DOMAIN receipts
        /\ pc = "commit" => prepared.ops \subseteq DOMAIN receipts
    BY <1>0, <1>3 DEF InHand
  <2>1. prepared # NoTransition /\ Prepare = prepared
    BY <2>0 DEF NoTransition, Prepare
  <2>2. DOMAIN jobs \subseteq DOMAIN jobs'
    BY DecidedStays
  <2>3. ASSUME UNCHANGED <<prepared, receipts, work, todo, flight, failed, pc>>
        PROVE  InHand'
    BY <1>0, <2>2, <2>3 DEF InHand
  <2>4. CASE Admission
    <3>1. UNCHANGED <<receipts, work, todo, flight, failed>>
      BY <2>4
         DEF Admission, Initialize, AppendArm, Arm, AppendNew, AppendDuplicate,
             AppendRefused, CompletionArm, CompletionRefused, CompletionCommit,
             ResumeArm, ResumeCommit, ResumeRefused, memory, submission
    <3>2. UNCHANGED prepared
      BY <2>1, <2>4
         DEF Admission, Initialize, AppendArm, Arm, AppendNew, AppendDuplicate,
             AppendRefused, CompletionArm, CompletionRefused, CompletionCommit,
             ResumeArm, ResumeCommit, ResumeRefused, memory, CheckPrepares
    <3>3. UNCHANGED pc
      BY <1>3, <2>4
         DEF Admission, Initialize, AppendArm, Arm, AppendNew, AppendDuplicate,
             AppendRefused, CompletionArm, CompletionRefused, CompletionCommit,
             ResumeArm, ResumeCommit, ResumeRefused, scheduler, Admitted, Refused,
             Kick, Start, AtWorkSteps
    <3> QED BY <2>3, <3>1, <3>2, <3>3
  <2>5. CASE Drain
    <3>1. ASSUME NEW op \in todo, SubmitSend(op) PROVE InHand'
      <4>1. /\ todo' = todo \ {op} /\ flight' = flight \cup {op}
            /\ UNCHANGED <<prepared, receipts, work, failed, pc>>
        BY <3>1 DEF SubmitSend, scheduler
      <4>2. op \in DOMAIN jobs'
        BY <3>1 DEF SubmitSend, Put
      <4> QED BY <2>0, <2>2, <4>1, <4>2 DEF InHand
    <3>2. ASSUME NEW op \in flight, SubmitAnswer(op) PROVE InHand'
      <4>1. /\ flight' = flight \ {op}
            /\ UNCHANGED <<prepared, work, todo, failed, pc>>
            /\ pc = "submit"
        BY <3>2 DEF SubmitAnswer, scheduler
      <4>2. DOMAIN receipts' = DOMAIN receipts \cup {op}
        BY <3>2 DEF SubmitAnswer, Put
      <4> QED BY <2>0, <2>2, <4>1, <4>2 DEF InHand
    <3>3. ASSUME NEW op \in flight, SubmitError(op) PROVE InHand'
      BY <2>0, <2>2, <3>3 DEF InHand, SubmitError, scheduler
    <3>4. CASE SubmitDone
      BY <2>0, <2>2, <3>4 DEF InHand, SubmitDone, memory, submission
    <3> QED
      BY <1>1, <1>3, <2>5, <3>1, <3>2, <3>3, <3>4
         DEF Drain, DrainArm, SliceEnd, LoopStop, LoopPrepareFails, SubmitFails,
             CommitFails, Final, DrainThrows, Ending, AtWorkSteps
  <2>6. CASE Environment
    <3>1. ~Crash
      BY DEF Crash, AtWorkSteps
    <3>2. UNCHANGED <<prepared, receipts, work, todo, flight, failed, pc>>
      BY <1>3, <2>6, <3>1
         DEF Environment, AlarmFire, AlarmArm, Run, RetryDue, ProviderDecides,
             JobFinishes, memory, submission, scheduler, Start, AtWorkSteps
    <3> QED BY <2>3, <3>2
  <2>7. CASE UNCHANGED vars
    BY <2>3, <2>7 DEF vars, memory, submission, scheduler
  <2> QED BY <2>4, <2>5, <2>6, <2>7 DEF Next
<1> QED BY <1>1, <1>2, <1>3

-----------------------------------------------------------------------------
(* The invariant *)

\* A session starts with nothing sent, nothing planned and nothing to protect.
LEMMA AccountInit == Init => AccountInv
<1> SUFFICES ASSUME Init PROVE AccountInv
  OBVIOUS
<1>1. TypeInv
  BY TypeInvInit
<1>2. DOMAIN inbox = {} /\ DOMAIN jobs = {} /\ DOMAIN pending = {} /\ DOMAIN receipts = {}
  BY DEF Init
<1>3. NextInput = 0
  BY <1>2 DEF NextInput, Unconsumed
<1>4. Guarded
  BY <1>3 DEF Init, Guarded, Armed, LockFree, AtWork, AtWorkSteps, Protected
<1>5. Books
  BY <1>2 DEF Books, Distinct, RowsTell, NotAhead, SentAsPlanned, NoOrphanJob, PendingIsOpenJobs
<1>6. AdmissionTells
  BY DEF Init, NoAdmission, AdmissionTells
<1>7. Hands
  BY <1>2 DEF Init, Hands, ReceiptsTell, PlanInMemory, InHand, AtWorkSteps
<1> QED BY <1>1, <1>4, <1>5, <1>6, <1>7 DEF AccountInv

\* Every step of the driver, the providers and the platform keeps the invariant.
LEMMA AccountStep == AccountInv /\ [Next]_vars => AccountInv'
<1> SUFFICES ASSUME AccountInv, [Next]_vars PROVE AccountInv'
  OBVIOUS
<1>1. TypeInv'
  BY TypeInvStep DEF AccountInv
<1>2. Guarded' /\ Books' /\ AdmissionTells'
  BY <1>1, GuardedStep, BooksStep, AdmissionTellsStep
<1>3. Hands'
  BY <1>1, ReceiptsTellStep, PlanInMemoryStep, InHandStep DEF Hands
<1> QED BY <1>1, <1>2, <1>3 DEF AccountInv

\* The invariant holds in every reachable state.
LEMMA AccountInvariant == Spec => []AccountInv
BY AccountInit, AccountStep, PTL DEF Spec

\* A head that may be processed always has an alarm stored or being invoked: no loss
\* of the activation, wherever it falls in an admission or a drain, strands it.
THEOREM AlwaysProtected == Spec => []Protected
<1>1. AccountInv => Protected
  BY DEF AccountInv, Guarded
<1> QED BY <1>1, AccountInvariant, PTL

\* A blocked head stays blocked, and nothing overtakes it, until resumeProcessing.
THEOREM BlockedHeadStays == Spec => BlockedUntilResumed
<1>1. AccountInv /\ AccountInv' /\ [Next]_vars =>
        [NextInput # 0 /\ inbox[NextInput].blocked =>
           /\ applied' = applied
           /\ inbox'[NextInput].blocked \/ admission.call = "resume"]_vars
  <2> SUFFICES ASSUME AccountInv, AccountInv', [Next]_vars,
                      NextInput # 0, inbox[NextInput].blocked
               PROVE  /\ applied' = applied
                      /\ inbox'[NextInput].blocked \/ admission.call = "resume"
    OBVIOUS
  <2>1. TypeInv'
    BY DEF AccountInv
  <2> QED BY <2>1, BlockedStays
<1> QED BY <1>1, AccountInvariant, PTL DEF Spec, BlockedUntilResumed

\* A row of a completion carries exactly what the provider would report.
LEMMA RowIsCallback ==
  ASSUME AccountInv, NEW op, NEW i \in FindInput("completed", op)
  PROVE  /\ i \in DOMAIN inbox
         /\ inbox[i].event = Completion(op, jobs[op].job, jobs[op].outcome)
<1>1. i \in DOMAIN inbox /\ inbox[i].event.kind = "completed" /\ inbox[i].event.id = op
  BY DEF FindInput
<1>2. inbox[i].event \in Events
  <2>1. inbox[i] \in Rows
    BY <1>1, HeadNow DEF AccountInv
  <2> QED BY <2>1 DEF Rows
<1>3. inbox[i].event.body = [job |-> jobs[op].job, outcome |-> jobs[op].outcome]
  BY <1>1 DEF AccountInv, Books, RowsTell, Told
<1> QED BY <1>1, <1>2, <1>3 DEF Events, Completion

\* A completion at the head never conflicts with the committed acceptance.
LEMMA NoHeadConflict ==
  ASSUME AccountInv, NextInput # 0
  PROVE  ~CompletionConflict(inbox[NextInput].event)
<1> DEFINE event == inbox[NextInput].event
           op    == event.id
<1>0. TypeInv /\ Books
  BY DEF AccountInv
<1> SUFFICES ASSUME event.kind = "completed", event.body.outcome # "rejected"
             PROVE  op \in DOMAIN pending /\ pending[op] = event.body.job
  BY DEF CompletionConflict
<1>1. NextInput \in DOMAIN inbox /\ NextInput = Len(applied) + 1 /\ Len(applied) \in Nat
  BY <1>0, HeadNow
<1>2. /\ op \in DOMAIN jobs /\ jobs[op].status \in {"finished", "rejected"}
      /\ event.body = [job |-> jobs[op].job, outcome |-> jobs[op].outcome]
      /\ op[1] < NextInput
  BY <1>0, <1>1 DEF Books, RowsTell, Told
<1>3. op[1] \in Nat /\ jobs[op] \in Jobs
  BY <1>0, <1>2 DEF TypeInv, TypeOK, WorldTypes, Op
<1>4. jobs[op].status = "finished" /\ op[1] <= Len(applied)
  BY <1>1, <1>2, <1>3 DEF Jobs
<1>5. \A i \in FindInput("completed", op) : ~inbox[i].consumed
  <2>1. \A i \in FindInput("completed", op) : i = NextInput
    BY <1>0, <1>1 DEF FindInput, Books, Distinct
  <2>2. ~inbox[NextInput].consumed
    BY <1>0, <1>1 DEF TypeInv, InOrderExactlyOnce
  <2> QED BY <2>1, <2>2
<1>6. op \in DOMAIN pending /\ pending[op] = jobs[op].job
  BY <1>0, <1>2, <1>4, <1>5 DEF Books, PendingIsOpenJobs
<1> QED BY <1>2, <1>6

\* commit never throws on its own checks: the plan, the receipts and the head agree,
\* and a callback that overtook it wrote what it would queue.
LEMMA CommitIsAllowed ==
  ASSUME AccountInv, pc = "commit"
  PROVE  CommitAllowed
<1>0. TypeInv
  BY DEF AccountInv
<1>1. /\ NextInput # 0 /\ prepared.seq # 0 /\ work.plan = prepared
      /\ prepared.ops \subseteq DOMAIN receipts
  BY DEF AccountInv, Guarded, AtWork, Hands, InHand, AtWorkSteps
<1>2. NextInput = prepared.seq
  BY <1>0, <1>1, HeadOps DEF AccountInv, Hands, PlanInMemory, NoTransition
<1>3. ~QueueConflict(prepared.ops)
  <2> SUFFICES ASSUME NEW event \in QueuedCompletions(prepared.ops),
                      FindInput("completed", event.id) # {}
               PROVE  MatchesRow(event)
    BY DEF QueueConflict
  <2>1. PICK op \in prepared.ops :
          /\ receipts[op].status # "accepted"
          /\ event = Completion(op, receipts[op].job, receipts[op].outcome)
    BY DEF QueuedCompletions
  <2>2. receipts[op].job = jobs[op].job /\ receipts[op].outcome = jobs[op].outcome
    BY <1>1, <1>2, <2>1, AllAnswered
  <2>3. event.id = op
    BY <2>1 DEF Completion
  <2>4. PICK i \in FindInput("completed", op) : TRUE
    BY <2>3
  <2>5. inbox[i].event = event
    BY <2>1, <2>2, <2>4, RowIsCallback
  <2> QED BY <2>3, <2>4, <2>5 DEF MatchesRow
<1> QED BY <1>1, <1>2, <1>3 DEF CommitAllowed

\* prepareCompletion finds a finished job in the inbox, among the pending operations
\* or in the plan of the head.
LEMMA CallbackIsAdmissible ==
  ASSUME AccountInv, NEW op \in DOMAIN jobs, jobs[op].status = "finished"
  PROVE  Admissible(Callback(op))
<1>0. TypeInv /\ Books
  BY DEF AccountInv
<1>1. /\ Callback(op) = Completion(op, jobs[op].job, jobs[op].outcome)
      /\ Callback(op).id = op /\ Callback(op).body.job = jobs[op].job
  BY DEF Callback, Completion
<1>2. CASE FindInput("completed", op) # {}
  BY <1>1, <1>2, RowIsCallback DEF Admissible, MatchesRow
<1>3. CASE FindInput("completed", op) = {} /\ op \in DOMAIN pending
  <2>1. pending[op] = jobs[op].job
    BY <1>0, <1>3 DEF Books, PendingIsOpenJobs
  <2> QED BY <1>1, <1>3, <2>1 DEF Admissible, MatchesPending
<1>4. CASE FindInput("completed", op) = {} /\ op \notin DOMAIN pending
  <2>1. op[1] = NextInput
    BY <1>0, <1>4 DEF Books, NoOrphanJob
  <2>2. NextInput # 0
    BY <1>0, <2>1 DEF TypeInv, TypeOK, WorldTypes, Op
  <2>3. op \in HeadTransition.ops /\ Plan(applied, inbox[NextInput].event) \subseteq Keys
    BY <1>0, <2>1 DEF Books, SentAsPlanned
  <2>4. ~PrepareThrows
    BY <2>2, <2>3, NoHeadConflict DEF PrepareThrows
  <2>5. Prepare.seq = op[1] /\ op \in Prepare.ops
    BY <1>0, <2>1, <2>2, <2>3, <2>4, PrepareIsHead, HeadOps
  <2> QED BY <1>1, <1>4, <2>4, <2>5 DEF Admissible, MatchesPlan
<1> QED BY <1>2, <1>3, <1>4

\* Through losses of the activation, replays, timeouts and callbacks that overtake
\* their commit, everything sent to a provider stays accounted for, no result is
\* refused, and no commit conflicts with a callback.
THEOREM AllWorkAccounted == Spec => []WorkAccounted
<1>1. AccountInv => WorkAccounted
  <2> SUFFICES ASSUME AccountInv PROVE WorkAccounted
    OBVIOUS
  <2>1. JobsAccounted
    BY DEF AccountInv, Books, JobsAccounted
  <2>2. CallbackAdmissible
    BY CallbackIsAdmissible DEF CallbackAdmissible
  <2>3. NoSpuriousConflict
    BY NoHeadConflict, CommitIsAllowed DEF NoSpuriousConflict, AccountInv, Books, RowsTell
  <2>4. ReplaySamePlan
    BY DEF ReplaySamePlan, AccountInv, Hands, PlanInMemory, Books, SentAsPlanned
  <2> QED BY <2>1, <2>2, <2>3, <2>4 DEF WorkAccounted, CallbacksSafe
<1> QED BY <1>1, AccountInvariant, PTL

-----------------------------------------------------------------------------
(* Refinement: the tables implement the SessionLog *)

\* The log the inbox stands for.
Log == [i \in DOMAIN inbox |-> inbox[i].event]

\* The log is as long as the inbox, and its processed prefix is what was applied.
LEMMA LogIsSequence ==
  ASSUME TypeInv
  PROVE  /\ Log \in Seq(Events)
         /\ Len(Log) = Len(inbox)
         /\ DOMAIN Log = DOMAIN inbox
         /\ \A i \in DOMAIN inbox : Log[i] = inbox[i].event
         /\ SubSeq(Log, 1, Len(applied)) = applied
<1>1. \A i \in DOMAIN inbox : inbox[i].event \in Events
  <2>1. \A i \in DOMAIN inbox : inbox[i] \in Rows
    BY HeadNow
  <2> QED BY <2>1 DEF Rows
<1>2. /\ Log \in Seq(Events) /\ Len(Log) = Len(inbox)
      /\ DOMAIN Log = DOMAIN inbox
      /\ \A i \in DOMAIN inbox : Log[i] = inbox[i].event
  BY <1>1, HeadNow DEF Log
<1>3. \A i \in 1 .. Len(applied) : applied[i] = Log[i]
  BY <1>2, HeadNow DEF TypeInv, InOrderExactlyOnce
<1>4. SubSeq(Log, 1, Len(applied)) = applied
  <2>1. /\ SubSeq(Log, 1, Len(applied)) \in Seq(Events)
        /\ Len(SubSeq(Log, 1, Len(applied))) = Len(applied)
        /\ \A i \in 1 .. Len(applied) : SubSeq(Log, 1, Len(applied))[i] = Log[i]
    BY <1>2, HeadNow, SubSeqProperties
  <2> QED BY <1>3, <2>1, HeadNow, SeqEqual
<1> QED BY <1>2, <1>4

\* What the head starts in the contract is what #prepare plans for it.
LEMMA ContractHead ==
  ASSUME TypeInv
  PROVE  Contract!HeadOps =
           IF NextInput # 0 THEN {NextInput} \X Plan(applied, inbox[NextInput].event) ELSE {}
<1>1. Contract!HeadOps =
        IF Len(applied) < Len(Log)
        THEN {Len(applied) + 1} \X Plan(SubSeq(Log, 1, Len(applied)), Log[Len(applied) + 1])
        ELSE {}
  BY Zenon DEF Contract!HeadOps, Log
<1>2. CASE NextInput # 0
  BY <1>1, <1>2, LogIsSequence, HeadNow
<1>3. CASE NextInput = 0
  BY <1>1, <1>3, LogIsSequence, HeadNow
<1> QED BY <1>2, <1>3

\* A findInput that finds nothing is an event the log does not have.
LEMMA ContractLogged ==
  ASSUME TypeInv, NEW kind, NEW id
  PROVE  Contract!Logged(kind, id) <=> FindInput(kind, id) # {}
<1>1. Contract!Logged(kind, id) <=> \E i \in DOMAIN Log : Log[i].kind = kind /\ Log[i].id = id
  BY Zenon DEF Contract!Logged, Log
<1> QED BY <1>1, LogIsSequence DEF FindInput

\* The same of the log after a step.
LEMMA LogThen ==
  ASSUME TypeInv'
  PROVE  /\ Log' \in Seq(Events)
         /\ Len(Log') = Len(inbox')
         /\ DOMAIN Log' = DOMAIN inbox'
         /\ \A i \in DOMAIN inbox' : Log'[i] = inbox'[i].event
<1>1. \A i \in DOMAIN inbox' : inbox'[i].event \in Events
  <2>1. \A i \in DOMAIN inbox' : inbox'[i] \in Rows
    BY HeadThen
  <2> QED BY <2>1 DEF Rows
<1> QED BY <1>1, HeadThen DEF Log

\* Marks, memory, alarms and providers do not show in the contract.
LEMMA SameStutters ==
  ASSUME TypeInv, TypeInv', SameLog
  PROVE  UNCHANGED Contract!vars
<1>1. Log' = Log
  BY SameView DEF Log, SameLog
<1>2. UNCHANGED <<applied, pending>>
  BY DEF SameLog
<1> QED BY <1>1, <1>2 DEF Contract!vars, Log

\* The commit of an admission is an Admit.
LEMMA GrowAdmits ==
  ASSUME AccountInv, TypeInv', Grows
  PROVE  Contract!Next
<1>0. TypeInv /\ Books
  BY DEF AccountInv
<1> DEFINE event == admission.event
<1>1. /\ Len(inbox') = Len(inbox) + 1
      /\ DOMAIN inbox' = DOMAIN inbox \cup {Len(inbox) + 1}
      /\ \A i \in DOMAIN inbox : inbox'[i] = inbox[i]
      /\ inbox'[Len(inbox) + 1].event = event
      /\ event \in Events
  BY <1>0, GrownView
<1>2. Log' = Append(Log, event) /\ Len(Log') = Len(Log) + 1 /\ Log'[Len(Log')] = event
  <2>1. /\ Append(Log, event) \in Seq(Events)
        /\ Len(Append(Log, event)) = Len(Log) + 1
        /\ \A i \in 1 .. Len(Log) : Append(Log, event)[i] = Log[i]
        /\ Append(Log, event)[Len(Log) + 1] = event
    BY <1>0, <1>1, LogIsSequence, AppendProperties
  <2>2. \A i \in 1 .. Len(Log') : Log'[i] = Append(Log, event)[i]
    <3> SUFFICES ASSUME NEW i \in 1 .. Len(Log') PROVE Log'[i] = Append(Log, event)[i]
      OBVIOUS
    <3>1. Log'[i] = inbox'[i].event /\ i \in DOMAIN inbox'
      BY LogThen, HeadThen
    <3>2. CASE i \in DOMAIN inbox
      BY <1>0, <1>1, <2>1, <3>1, <3>2, LogIsSequence, HeadNow
    <3>3. CASE i = Len(inbox) + 1
      BY <1>0, <1>1, <2>1, <3>1, <3>3, LogIsSequence
    <3> QED BY <1>1, <3>1, <3>2, <3>3
  <2>3. Len(Log') = Len(Log) + 1
    BY <1>0, <1>1, LogIsSequence, LogThen
  <2>4. Log' = Append(Log, event)
    BY <2>1, <2>2, <2>3, LogThen, SeqEqual
  <2> QED BY <2>1, <2>3, <2>4
<1>3. FindInput(event.kind, event.id) = {} /\ UNCHANGED <<applied, pending, jobs>>
  BY DEF Grows
<1>4. ~Contract!Logged(event.kind, event.id)
  BY <1>0, <1>3, ContractLogged
<1>5. event.kind = "completed" => event.id \in DOMAIN pending \cup Contract!HeadOps
  <2> SUFFICES ASSUME event.kind = "completed", event.id \notin DOMAIN pending
               PROVE  event.id \in Contract!HeadOps
    OBVIOUS
  <2>1. event.id \in DOMAIN jobs
    BY DEF Grows, AccountInv, AdmissionTells, Told
  <2>2. event.id[1] = NextInput /\ event.id \in Op
    BY <1>0, <1>3, <2>1 DEF Books, NoOrphanJob, TypeInv, TypeOK, WorldTypes
  <2>3. NextInput # 0
    BY <2>2 DEF Op
  <2>4. event.id \in HeadTransition.ops
    BY <1>0, <2>1, <2>2 DEF Books, SentAsPlanned
  <2> QED BY <1>0, <2>3, <2>4, HeadOps, ContractHead
<1>6. Len(Log) \in Nat
  BY <1>0, LogIsSequence, HeadNow
<1>7. Contract!Admit(Log'[Len(Log')])
  <2> HIDE DEF event
  <2> QED BY <1>2, <1>3, <1>4, <1>5 DEF Contract!Admit, Log
<1> QED BY <1>2, <1>6, <1>7 DEF Contract!Next, Log

\* A commit is a Transition of the contract.
LEMMA CommitTransits ==
  ASSUME AccountInv, TypeInv', Commit
  PROVE  Contract!Next
<1>0. TypeInv /\ Books
  BY DEF AccountInv
<1>1. PICK q \in Seq(Events) : CommitRows(q)
  BY CommitWrites
<1>2. /\ NextInput # 0 /\ NextInput = Len(applied) + 1
      /\ prepared.ops = {NextInput} \X Plan(applied, inbox[NextInput].event)
      /\ \A op \in prepared.ops : op[1] = NextInput
  BY CommitKnows
<1>3. Contract!HeadOps = prepared.ops
  BY <1>0, <1>2, ContractHead
<1>4. /\ Len(Log) = Len(inbox) /\ DOMAIN Log = DOMAIN inbox
      /\ Len(inbox) \in Nat /\ Len(applied) \in Nat /\ DOMAIN inbox = 1 .. Len(inbox)
      /\ \A i \in DOMAIN inbox : Log[i] = inbox[i].event
      /\ NextInput \in DOMAIN inbox /\ Len(applied) < Len(inbox)
  BY <1>0, <1>2, LogIsSequence, HeadNow
<1>5. /\ Len(Log') = Len(inbox') /\ DOMAIN Log' = DOMAIN inbox'
      /\ \A i \in DOMAIN inbox' : Log'[i] = inbox'[i].event
  BY LogThen
<1>6. Len(Log) <= Len(Log')
  BY <1>1, <1>4, <1>5 DEF CommitRows
<1>7. \A i \in DOMAIN Log : Log'[i] = Log[i]
  BY <1>1, <1>4, <1>5 DEF CommitRows
<1>8. \A i \in DOMAIN Log' \ DOMAIN Log :
        /\ Log'[i].kind = "completed"
        /\ Log'[i].id \in prepared.ops
        /\ ~Contract!Logged("completed", Log'[i].id)
  <2> SUFFICES ASSUME NEW i \in DOMAIN Log' \ DOMAIN Log
               PROVE  /\ Log'[i].kind = "completed"
                      /\ Log'[i].id \in prepared.ops
                      /\ FindInput("completed", Log'[i].id) = {}
    BY <1>0, ContractLogged
  <2>1. i - Len(inbox) \in 1 .. Len(q) /\ i = Len(inbox) + (i - Len(inbox))
    BY <1>1, <1>4, <1>5 DEF CommitRows
  <2>2. PICK k \in 1 .. Len(q) : i = Len(inbox) + k
    BY <2>1
  <2>3. Log'[i] = q[k]
    BY <1>1, <1>5, <2>2 DEF CommitRows
  <2>4. /\ q[k].kind = "completed" /\ q[k].id \in prepared.ops
        /\ FindInput("completed", q[k].id) = {}
    BY <1>1 DEF CommitRows
  <2> QED BY <2>3, <2>4
<1>9. Contract!Queue(Contract!HeadOps)
  BY <1>3, <1>6, <1>7, <1>8 DEF Contract!Queue, Log
<1> DEFINE event  == inbox[NextInput].event
           closed == IF event.kind = "completed" THEN {event.id} ELSE {}
<1>10. DOMAIN pending' = (DOMAIN pending \cup Accepted(prepared.ops)) \ closed
  BY CommitRecords
<1>11. /\ DOMAIN pending \ closed \subseteq DOMAIN pending'
       /\ DOMAIN pending' \subseteq (DOMAIN pending \cup prepared.ops) \ closed
  BY <1>10 DEF Accepted
<1>12. \A op \in prepared.ops \ DOMAIN pending' : Contract!Logged("completed", op)'
  <2> SUFFICES ASSUME NEW op \in prepared.ops, op \notin DOMAIN pending'
               PROVE  \E i \in DOMAIN Log' : Log'[i].kind = "completed" /\ Log'[i].id = op
    BY DEF Contract!Logged, Log
  <2>1. op \notin closed
    BY <1>0, <1>2, <1>4 DEF Books, RowsTell
  <2>2. receipts[op].status = "rejected"
    BY <1>10, <2>1 DEF Accepted
  <2>3. CASE FindInput("completed", op) # {}
    <3>1. PICK i \in DOMAIN inbox : inbox[i].event.kind = "completed" /\ inbox[i].event.id = op
      BY <2>3 DEF FindInput
    <3>2. i \in DOMAIN inbox' /\ inbox'[i].event = inbox[i].event
      BY <1>1, <1>4, <3>1 DEF CommitRows
    <3> QED BY <1>5, <3>1, <3>2
  <2>4. CASE \E k \in 1 .. Len(q) : q[k].id = op
    <3>1. PICK k \in 1 .. Len(q) : q[k].id = op
      BY <2>4
    <3>2. Len(inbox) + k \in DOMAIN inbox'
      BY <1>1, <1>4, <3>1 DEF CommitRows
    <3>3. inbox'[Len(inbox) + k].event = q[k] /\ q[k].kind = "completed"
      BY <1>1, <3>1 DEF CommitRows
    <3> QED BY <1>5, <3>1, <3>2, <3>3
  <2> QED BY <1>1, <2>2, <2>3, <2>4 DEF CommitRows
<1>13. Len(applied') = Len(applied) + 1
  BY <1>1 DEF CommitRows
<1>14. Log[Len(applied) + 1] = event
  BY <1>2, <1>4
<1>15. Contract!Transition
  <2> HIDE DEF event
  <2> QED BY <1>3, <1>4, <1>9, <1>11, <1>12, <1>13, <1>14 DEF Contract!Transition, Log, closed
<1> QED BY <1>15 DEF Contract!Next

\* Every step is an admission, a transition of the head, or invisible.
LEMMA ContractStep ==
  ASSUME AccountInv, TypeInv', [Next]_vars
  PROVE  [Contract!Next]_(Contract!vars)
<1>0. TypeInv
  BY DEF AccountInv
<1>1. CASE SameLog
  BY <1>0, <1>1, SameStutters
<1>2. CASE Grows
  BY <1>2, GrowAdmits
<1>3. CASE Commit
  BY <1>3, CommitTransits
<1> QED BY <1>1, <1>2, <1>3, StepIsOfAKind DEF StepKinds

\* A new session is an empty log.
LEMMA ContractInit == Init => Contract!Init
<1> SUFFICES ASSUME Init PROVE Contract!Init
  OBVIOUS
<1>1. Log = <<>> /\ Len(applied) = 0 /\ DOMAIN pending = {}
  BY DEF Init, Log
<1> QED BY <1>1 DEF Contract!Init, Log

\* The durable tables of a session, read as a log, implement SessionLog: crashes,
\* retries, replays and early callbacks are invisible to who reads the tables.
THEOREM ImplementsSessionLog == Spec => RefinesSessionLog
<1>1. AccountInv /\ AccountInv' /\ [Next]_vars => [Contract!Next]_(Contract!vars)
  BY ContractStep DEF AccountInv
<1> QED BY <1>1, AccountInvariant, ContractInit, PTL DEF Spec, RefinesSessionLog, Contract!Spec

=============================================================================
