-------------------------- MODULE ToolWorkersProofs --------------------------
(***************************************************************************)
(* What the model is told of a tool call is true, a rejected call has not  *)
(* run, and a result is let go of only where it was admitted, for every    *)
(* number of attempts, deliveries, restarts and faults.                    *)
(*                                                                         *)
(* The argument.  What a call can end as is settled by three things that   *)
(* never change once they are there: its input, the generation the session *)
(* has pinned, and the result in the daemon's journal.  An input that is   *)
(* not plain has one outcome of its own and never gets to the daemon; a    *)
(* plain one has the outcome of its result, unless management took the     *)
(* machine or its routes away.  Everything on the way (attempts that were  *)
(* given up, frames, deliveries, the image) is related to these three.     *)
(*                                                                         *)
(* The output that a tool observes comes second: what clients read through *)
(* cursors and what the result of a run says of its file and its preview   *)
(* is true, for every capacity, every size of a read and any number of     *)
(* clients.  The journal and the tail kept for the preview are sequences   *)
(* of chunks, cut anywhere by the reads; what the proof shows of them is   *)
(* that together they always hold one stretch of the output, up to the     *)
(* last byte captured.  A cut through the chunks is a cut through that     *)
(* stretch (FlattenCut), popping loses nothing (FlattenPopped), and so a   *)
(* read gives the stretch between its cursor and its end.                  *)
(*                                                                         *)
(* Last come the views that the output and a file are cut to: what the     *)
(* loops of the truncations take is determined by the lengths of the       *)
(* beginnings of a text, and of its ends, which are beginnings of the text *)
(* read backwards.                                                         *)
(***************************************************************************)
EXTENDS ToolWorkers, ExecutionOutput, BoundedViews, SequenceTheorems, NaturalsInduction,
        WellFoundedInduction, TLAPS

-----------------------------------------------------------------------------
(* The inductive invariant *)

Receipts == [status : {"applied", "rejected", "partial"}, exact : BOOLEAN, changes : 0 .. 1]

Natives ==
  [status : {"error"}, code : Contents, uncertain : BOOLEAN]
  \cup [status : {"ok"}, result : Contents \cup Receipts]

AttemptRecords ==
  [stage : {"free", "discover", "call", "sent", "dispatched", "replied"}, gen : Nat,
   answer : Answers \cup {None, Thrown}]

DeliveryRecords ==
  [stage : {"free", "lookup", "upload", "recover", "formatted", "confirmed"},
   outcome : Outcomes \cup {None}]

Machines ==
  [gen : Nat, online : BOOLEAN, deleted : BOOLEAN, authorized : BOOLEAN, routed : BOOLEAN,
   unrouted : BOOLEAN]

JournalRows ==
  [state : {"absent", "active", "pending", "quarantined", "delivered"}, gen : Nat,
   native : Natives \cup {None}]

ToolTypes ==
  /\ op \in [kind : Kinds, input : {"plain", "invalid", "huge", "unsupported"}]
  /\ bound \in Nat
  /\ attempts \in [Attempts -> AttemptRecords]
  /\ admitted \in Outcomes \cup {None}
  /\ machine \in Machines
  /\ row \in JournalRows
  /\ deliveries \in [Deliveries -> DeliveryRecords]
  /\ image \in BOOLEAN

\* The outcome that an answer makes of the operation, and the one that an input which is
\* not plain has whatever the machine does.
AnswerOutcome(x) == IF x.status = "completed" THEN x.outcome ELSE Rejection(x.code)

OwnOutcome(o) ==
  IF o.input = "unsupported" THEN Rejection("INVALID_REQUEST")
  ELSE AnswerOutcome(LocalAnswer(o.kind, o.input))

\* How a run may have ended, a restart of the daemon included.
AllEnds(kind) ==
  Ends(kind) \cup {<<NativeError("DAEMON_RESTARTED"), done>> : done \in {"none", "some"}}

Ended(r) == r.state \in {"pending", "quarantined", "delivered"}

\* An answer other than an acceptance is the input's own, or management's rejection.
AnswerFits(x, o, managed) ==
  x # Thrown /\ x.status # "accepted" =>
    \/ o.input # "plain" /\ AnswerOutcome(x) = OwnOutcome(o)
    \/ managed /\ x.status = "rejected"

\* An attempt goes to the pinned generation, and only a plain input gets to the daemon.
AttemptFits(t, o, b, managed) ==
  /\ t.stage \in {"call", "sent", "dispatched"} => t.gen = b /\ b # 0
  /\ t.stage = "sent" => o.input \in {"plain", "unsupported"}
  /\ t.stage = "dispatched" => o.input = "plain"
  /\ t.stage = "replied" => t.answer \in Answers \cup {Thrown} /\ AnswerFits(t.answer, o, managed)

AttemptsFit == \A a \in Attempts : AttemptFits(attempts[a], op, bound, Managed)

\* The journal's row is the plain input's, of the pinned generation, with a result that
\* tells what was done.
RowFits ==
  /\ row.state = "absent" => effect = "none"
  /\ row.state # "absent" => op.input = "plain" /\ row.gen = bound /\ bound # 0
  /\ Ended(row) => <<row.native, effect>> \in AllEnds(op.kind)
  /\ row.state = "delivered" => admitted # None /\ admitted.origin = "execution"

\* What the session holds is the input's own outcome, management's rejection, or the
\* outcome of the result.
AdmittedFits ==
  admitted # None =>
    \/ op.input # "plain" /\ admitted = OwnOutcome(op)
    \/ Managed /\ admitted.origin = "submission"
    \/ Ended(row) /\ admitted = TerminalOutcome(op.kind, row.native)

\* A delivery carries the outcome of the result, and one that is confirmed was admitted.
DeliveryFits(t, o, r, img, adm) ==
  /\ t.stage # "free" => Ended(r)
  /\ t.stage \in {"lookup", "upload", "recover"} =>
       o.kind = "read" /\ r.native \in {NativeOk("image"), NativeOk("bad_image")}
  /\ t.stage = "recover" => img \/ r.native = NativeOk("bad_image")
  /\ t.stage = "formatted" => t.outcome \in Outcomes /\ t.outcome = TerminalOutcome(o.kind, r.native)
  /\ t.stage = "confirmed" => adm # None /\ adm.origin = "execution"

DeliveriesFit == \A d \in Deliveries : DeliveryFits(deliveries[d], op, row, image, admitted)

ManagementTells ==
  /\ ~machine.routed => machine.unrouted
  /\ blocked => Managed

ToolInv ==
  /\ ToolTypes /\ AttemptsFit /\ RowFits /\ AdmittedFits /\ DeliveriesFit /\ ManagementTells
-----------------------------------------------------------------------------
(* Operators: what the workers make of results, inputs and refusals *)

\* The fields of the native results and of an outcome.
LEMMA NativeFields ==
  /\ \A code \in Contents :
       /\ NativeError(code) \in Natives /\ NativeError(code).status = "error"
       /\ NativeError(code).code = code
       /\ NativeError(code).uncertain <=> code \in UncertainCodes
  /\ \A result \in Contents \cup Receipts :
       /\ NativeOk(result) \in Natives
       /\ NativeOk(result).status = "ok" /\ NativeOk(result).result = result
<1>1. ASSUME NEW code \in Contents
      PROVE  /\ NativeError(code) \in [status : {"error"}, code : Contents, uncertain : BOOLEAN]
             /\ NativeError(code).status = "error" /\ NativeError(code).code = code
             /\ NativeError(code).uncertain <=> code \in UncertainCodes
  <2> DEFINE u == code \in UncertainCodes
  <2>1. u \in BOOLEAN
    OBVIOUS
  <2>2. NativeError(code) = [status |-> "error", code |-> code, uncertain |-> u]
    BY DEF NativeError
  <2> HIDE DEF u
  <2>3. /\ NativeError(code) \in [status : {"error"}, code : Contents, uncertain : BOOLEAN]
        /\ NativeError(code).status = "error" /\ NativeError(code).code = code
        /\ NativeError(code).uncertain = u
    BY <2>1, <2>2
  <2> QED BY <2>3 DEF u
<1>2. ASSUME NEW result \in Contents \cup Receipts
      PROVE  /\ NativeOk(result) \in Natives
             /\ NativeOk(result).status = "ok" /\ NativeOk(result).result = result
  BY DEF NativeOk, Natives
<1> QED BY <1>1, <1>2 DEF Natives

\* The fields of an outcome.
LEMMA OutcomeFields ==
  ASSUME NEW status \in {"succeeded", "failed"}, NEW tells \in {"done", "maybe", "nothing"},
         NEW content \in Contents
  PROVE  /\ Outcome(status, tells, content) \in Outcomes
         /\ Outcome(status, tells, content).origin = "execution"
         /\ Outcome(status, tells, content).tells = tells
BY DEF Outcome, Outcomes

\* A rejection is an outcome of the submission.
LEMMA RejectionFields ==
  ASSUME NEW code \in Codes
  PROVE  Rejection(code) \in Outcomes /\ Rejection(code).origin = "submission"
BY DEF Rejection, Outcomes

\* The fields of the answers of submit.
LEMMA AnswerFields ==
  /\ Accepted \in Answers /\ Accepted.status = "accepted"
  /\ \A code \in Codes :
       Rejected(code) \in Answers /\ Rejected(code).status = "rejected" /\ Rejected(code).code = code
  /\ \A outcome \in Outcomes :
       /\ Completed(outcome) \in Answers
       /\ Completed(outcome).status = "completed" /\ Completed(outcome).outcome = outcome
BY DEF Answers, Accepted, Rejected, Completed

\* The ends of a run, by the result they leave.
EndShape(kind, native, done) ==
  \/ \E code \in Contents :
       /\ native = NativeError(code) /\ done \in {"none", "some"}
       /\ code \notin UncertainCodes => done = "none"
  \/ /\ kind = "bash"
     /\ \E r \in {"exited", "timed_out", "terminated", "start_failed", "lost"} :
          /\ native = NativeOk(r)
          /\ r = "start_failed" => done = "none"
          /\ r \in {"exited", "timed_out", "terminated"} => done = "all"
  \/ /\ kind = "read" /\ done = "all"
     /\ \E r \in {"text", "too_large", "image", "bad_image", "bad_bmp"} : native = NativeOk(r)
  \/ /\ kind = "edit"
     /\ \/ native = NativeOk(PatchReceipt("applied", TRUE, 1)) /\ done = "all"
        \/ native = NativeOk(PatchReceipt("rejected", TRUE, 0)) /\ done = "none"
        \/ native = NativeOk(PatchReceipt("partial", FALSE, 0))
  \/ /\ kind = "write" /\ done = "all"
     /\ \E r \in {"applied", "already_applied"} : native = NativeOk(r)

\* Every end of a run has such a shape.
LEMMA EndShapes ==
  ASSUME NEW kind \in Kinds, NEW native, NEW done, <<native, done>> \in AllEnds(kind)
  PROVE  EndShape(kind, native, done)
<1> USE DEF EndShape
<1> DEFINE end == <<native, done>>
           restarted == {<<NativeError("DAEMON_RESTARTED"), d>> : d \in {"none", "some"}}
           unsure == {<<NativeError(code), d>> : code \in NativeCodes \cap UncertainCodes,
                        d \in IF kind = "read" THEN {"none"} ELSE {"none", "some"}}
           clean == {<<NativeError(code), "none">> : code \in NativeCodes \ UncertainCodes}
           patched == {<<NativeOk(PatchReceipt("applied", TRUE, 1)), "all">>,
                       <<NativeOk(PatchReceipt("rejected", TRUE, 0)), "none">>}
                        \cup {<<NativeOk(PatchReceipt("partial", FALSE, 0)), d>> : d \in {"none", "some"}}
<1>1. CASE end \in restarted
  <2>1. native = NativeError("DAEMON_RESTARTED") /\ done \in {"none", "some"}
    BY <1>1
  <2>2. "DAEMON_RESTARTED" \in UncertainCodes
    BY DEF UncertainCodes
  <2>3. \E code \in Contents :
          /\ native = NativeError(code) /\ done \in {"none", "some"}
          /\ code \notin UncertainCodes => done = "none"
    <3>1. "DAEMON_RESTARTED" \in Contents
      BY DEF Contents
    <3> QED BY <2>1, <2>2, <3>1
  <2> QED BY <2>3
<1>2. CASE end \in unsure
  <2>1. PICK code \in NativeCodes \cap UncertainCodes :
          native = NativeError(code) /\ done \in {"none", "some"}
    BY <1>2
  <2> QED BY <2>1 DEF Contents
<1>3. CASE end \in clean
  <2>1. PICK code \in NativeCodes \ UncertainCodes : native = NativeError(code) /\ done = "none"
    BY <1>3
  <2> QED BY <2>1 DEF Contents
<1>4. CASE /\ kind = "bash"
           /\ end \in {<<NativeOk(reason), "all">> : reason \in {"exited", "timed_out", "terminated"}}
                \cup {<<NativeOk("start_failed"), "none">>,
                      <<NativeOk("lost"), "none">>, <<NativeOk("lost"), "some">>}
  <2>1. \/ \E reason \in {"exited", "timed_out", "terminated"} : native = NativeOk(reason) /\ done = "all"
        \/ native = NativeOk("start_failed") /\ done = "none"
        \/ native = NativeOk("lost")
    BY <1>4
  <2> QED BY <1>4, <2>1
<1>5. CASE /\ kind = "read"
           /\ end \in {<<NativeOk(content), "all">> :
                         content \in {"text", "too_large", "image", "bad_image", "bad_bmp"}}
  BY <1>5
<1>6. CASE kind = "edit" /\ end \in patched
  BY <1>6
<1>7. CASE /\ kind = "write"
           /\ end \in {<<NativeOk(disposition), "all">> : disposition \in {"applied", "already_applied"}}
  BY <1>7
<1> HIDE DEF end
<1>8. kind \in {"bash", "read", "edit", "write"} /\ end \in AllEnds(kind)
  BY ToolAssumption DEF end
<1>9. CASE kind = "bash"
  BY <1>1, <1>2, <1>3, <1>4, <1>8, <1>9 DEF AllEnds, Ends, ErrorResults, BashResults
<1>10. CASE kind = "read"
  BY <1>1, <1>2, <1>3, <1>5, <1>8, <1>10 DEF AllEnds, Ends, ErrorResults, ReadResults
<1>11. CASE kind = "edit"
  <2> HIDE DEF restarted, unsure, clean, patched
  <2>1. Ends(kind) = unsure \cup clean \cup patched
    BY <1>11 DEF Ends, ErrorResults, EditResults, unsure, clean, patched
  <2>2. AllEnds(kind) = Ends(kind) \cup restarted
    BY DEF AllEnds, restarted
  <2> QED BY <1>1, <1>2, <1>3, <1>6, <1>8, <1>11, <2>1, <2>2
<1>12. CASE kind = "write"
  BY <1>1, <1>2, <1>3, <1>7, <1>8, <1>12 DEF AllEnds, Ends, ErrorResults, WriteResults
<1> QED BY <1>8, <1>9, <1>10, <1>11, <1>12

\* An end of a run is a pair of a result and what was done.
LEMMA EndsArePairs ==
  ASSUME NEW kind \in Kinds, NEW end \in AllEnds(kind)
  PROVE  end = <<end[1], end[2]>>
<1>0. kind \in {"bash", "read", "edit", "write"}
  BY ToolAssumption
<1>1. CASE kind = "bash"
  BY <1>1 DEF AllEnds, Ends, ErrorResults, BashResults
<1>2. CASE kind = "read"
  BY <1>2 DEF AllEnds, Ends, ErrorResults, ReadResults
<1>3. CASE kind = "edit"
  <2> DEFINE applied  == NativeOk(PatchReceipt("applied", TRUE, 1))
             rejected == NativeOk(PatchReceipt("rejected", TRUE, 0))
             partial  == NativeOk(PatchReceipt("partial", FALSE, 0))
             errors == {<<NativeError(code), d>> : code \in NativeCodes \cap UncertainCodes,
                          d \in IF kind = "read" THEN {"none"} ELSE {"none", "some"}}
                         \cup {<<NativeError(code), "none">> : code \in NativeCodes \ UncertainCodes}
  <2>1. Ends(kind) = errors \cup ({<<applied, "all">>, <<rejected, "none">>}
                                     \cup {<<partial, d>> : d \in {"none", "some"}})
    BY <1>3 DEF Ends, ErrorResults, EditResults
  <2> HIDE DEF applied, rejected, partial
  <2>2. CASE end \in errors
    BY <2>2
  <2> HIDE DEF errors
  <2> QED BY <2>1, <2>2 DEF AllEnds
<1>4. CASE kind = "write"
  BY <1>4 DEF AllEnds, Ends, ErrorResults, WriteResults
<1> QED BY <1>0, <1>1, <1>2, <1>3, <1>4

\* terminalOutcome of the four workers: the outcome that a result becomes is true of what
\* the run did.
LEMMA OutcomesAreTrue ==
  ASSUME NEW kind \in Kinds, NEW native, NEW done, <<native, done>> \in AllEnds(kind)
  PROVE  /\ native \in Natives
         /\ TerminalOutcome(kind, native) \in Outcomes
         /\ TerminalOutcome(kind, native).origin = "execution"
         /\ TerminalOutcome(kind, native).tells = "done" => done = "all"
         /\ TerminalOutcome(kind, native).tells = "nothing" /\ kind # "read" => done = "none"
<1> DEFINE o == TerminalOutcome(kind, native)
<1>0. kind \in {"bash", "read", "edit", "write"}
  BY ToolAssumption
<1>1. ASSUME NEW code \in Contents, native = NativeError(code), done \in {"none", "some"},
             code \notin UncertainCodes => done = "none"
      PROVE  /\ native \in Natives /\ o \in Outcomes /\ o.origin = "execution"
             /\ o.tells = "done" => done = "all"
             /\ o.tells = "nothing" /\ kind # "read" => done = "none"
  <2>1. /\ native \in Natives /\ native.status = "error" /\ native.code = code
        /\ native.uncertain <=> code \in UncertainCodes
    BY <1>1, NativeFields
  <2>2. o \in {FailedOutcome(native), Outcome("succeeded", "nothing", code)}
    BY <1>0, <2>1 DEF TerminalOutcome, BashOutcome, ReadOutcome, EditOutcome, WriteOutcome
  <2>3. o # FailedOutcome(native) => kind = "read" \/ ~native.uncertain
    BY <1>0, <2>1 DEF TerminalOutcome, BashOutcome, ReadOutcome, EditOutcome, WriteOutcome
  <2> HIDE DEF o
  <2>4. /\ FailedOutcome(native) \in Outcomes /\ FailedOutcome(native).origin = "execution"
        /\ FailedOutcome(native).tells = IF native.uncertain THEN "maybe" ELSE "nothing"
    BY <2>1, OutcomeFields DEF FailedOutcome
  <2>5. /\ Outcome("succeeded", "nothing", code) \in Outcomes
        /\ Outcome("succeeded", "nothing", code).origin = "execution"
        /\ Outcome("succeeded", "nothing", code).tells = "nothing"
    BY OutcomeFields
  <2> QED BY <1>1, <2>1, <2>2, <2>3, <2>4, <2>5
<1>2. ASSUME kind = "bash",
             NEW r \in {"exited", "timed_out", "terminated", "start_failed", "lost"},
             native = NativeOk(r), r = "start_failed" => done = "none",
             r \in {"exited", "timed_out", "terminated"} => done = "all"
      PROVE  /\ native \in Natives /\ o \in Outcomes /\ o.origin = "execution"
             /\ o.tells = "done" => done = "all"
             /\ o.tells = "nothing" /\ kind # "read" => done = "none"
  <2>1. r \in Contents
    BY DEF Contents
  <2>2. native \in Natives /\ native.status = "ok" /\ native.result = r
    BY <1>2, <2>1, NativeFields
  <2>3. o = IF r = "lost" THEN Outcome("failed", "maybe", "lost")
            ELSE Outcome("succeeded", IF r = "start_failed" THEN "nothing" ELSE "done", r)
    BY <1>2, <2>2 DEF TerminalOutcome, BashOutcome
  <2> HIDE DEF o
  <2> QED BY <1>2, <2>1, <2>2, <2>3, OutcomeFields
<1>3. ASSUME kind = "read", done = "all",
             NEW r \in {"text", "too_large", "image", "bad_image", "bad_bmp"}, native = NativeOk(r)
      PROVE  native \in Natives /\ o \in Outcomes /\ o.origin = "execution"
  <2>1. r \in Contents
    BY DEF Contents
  <2>2. native \in Natives /\ native.status = "ok" /\ native.result = r
    BY <1>3, <2>1, NativeFields
  <2>3. o = Outcome("succeeded", IF r \in {"text", "image"} THEN "done" ELSE "nothing", r)
    BY <1>3, <2>2 DEF TerminalOutcome, ReadOutcome
  <2> HIDE DEF o
  <2> QED BY <2>1, <2>2, <2>3, OutcomeFields
<1>4. ASSUME kind = "edit", NEW status \in {"applied", "rejected", "partial"}, NEW exact \in BOOLEAN,
             NEW changes \in 0 .. 1, native = NativeOk(PatchReceipt(status, exact, changes)),
             status = "applied" => exact /\ changes = 1 /\ done = "all",
             status = "rejected" => exact /\ changes = 0 /\ done = "none",
             status = "partial" => ~exact
      PROVE  /\ native \in Natives /\ o \in Outcomes /\ o.origin = "execution"
             /\ o.tells = "done" => done = "all"
             /\ o.tells = "nothing" /\ kind # "read" => done = "none"
  <2> DEFINE receipt_ == PatchReceipt(status, exact, changes)
  <2>1. /\ receipt_ \in Receipts /\ receipt_.status = status
        /\ receipt_.exact = exact /\ receipt_.changes = changes
    BY DEF PatchReceipt, Receipts
  <2> HIDE DEF receipt_
  <2>2. native \in Natives /\ native.status = "ok" /\ native.result = receipt_
    BY <1>4, <2>1, NativeFields DEF receipt_
  <2>3. EditReceiptParses(receipt_)
    BY <1>4, <2>1 DEF EditReceiptParses
  <2>4. o = Outcome("succeeded", EditTells[status], status)
    BY <1>4, <2>1, <2>2, <2>3 DEF TerminalOutcome, EditOutcome
  <2> HIDE DEF o
  <2>5. /\ status \in Contents /\ EditTells[status] \in {"done", "maybe", "nothing"}
        /\ EditTells[status] = "done" => status = "applied"
        /\ EditTells[status] = "nothing" => status = "rejected"
    BY DEF Contents, EditTells
  <2> QED BY <1>4, <2>2, <2>4, <2>5, OutcomeFields
<1>5. ASSUME kind = "write", done = "all", NEW r \in {"applied", "already_applied"},
             native = NativeOk(r)
      PROVE  native \in Natives /\ o \in Outcomes /\ o.origin = "execution" /\ o.tells = "done"
  <2>1. r \in Contents
    BY DEF Contents
  <2>2. native \in Natives /\ native.status = "ok" /\ native.result = r
    BY <1>5, <2>1, NativeFields
  <2>3. o = Outcome("succeeded", "done", r)
    BY <1>5, <2>2 DEF TerminalOutcome, WriteOutcome
  <2> HIDE DEF o
  <2> QED BY <2>1, <2>2, <2>3, OutcomeFields
<1> HIDE DEF o
<1>6. ASSUME kind = "edit",
             \/ native = NativeOk(PatchReceipt("applied", TRUE, 1)) /\ done = "all"
             \/ native = NativeOk(PatchReceipt("rejected", TRUE, 0)) /\ done = "none"
             \/ native = NativeOk(PatchReceipt("partial", FALSE, 0))
      PROVE  /\ native \in Natives /\ o \in Outcomes /\ o.origin = "execution"
             /\ o.tells = "done" => done = "all"
             /\ o.tells = "nothing" /\ kind # "read" => done = "none"
  <2>1. 0 \in 0 .. 1 /\ 1 \in 0 .. 1
    OBVIOUS
  <2>2. CASE native = NativeOk(PatchReceipt("applied", TRUE, 1)) /\ done = "all"
    BY <1>4, <1>6, <2>1, <2>2
  <2>3. CASE native = NativeOk(PatchReceipt("rejected", TRUE, 0)) /\ done = "none"
    BY <1>4, <1>6, <2>1, <2>3
  <2>4. CASE native = NativeOk(PatchReceipt("partial", FALSE, 0))
    BY <1>4, <1>6, <2>1, <2>4
  <2> QED BY <1>6, <2>2, <2>3, <2>4
<1>7. /\ native \in Natives /\ o \in Outcomes /\ o.origin = "execution"
      /\ o.tells = "done" => done = "all"
      /\ o.tells = "nothing" /\ kind # "read" => done = "none"
  <2>1. CASE \E code \in Contents :
              /\ native = NativeError(code) /\ done \in {"none", "some"}
              /\ code \notin UncertainCodes => done = "none"
    BY <1>1, <2>1
  <2>2. CASE /\ kind = "bash"
             /\ \E r \in {"exited", "timed_out", "terminated", "start_failed", "lost"} :
                 /\ native = NativeOk(r)
                 /\ r = "start_failed" => done = "none"
                 /\ r \in {"exited", "timed_out", "terminated"} => done = "all"
    BY <1>2, <2>2
  <2>3. CASE /\ kind = "read" /\ done = "all"
             /\ \E r \in {"text", "too_large", "image", "bad_image", "bad_bmp"} : native = NativeOk(r)
    BY <1>3, <2>3
  <2>4. CASE /\ kind = "write" /\ done = "all"
             /\ \E r \in {"applied", "already_applied"} : native = NativeOk(r)
    BY <1>5, <2>4
  <2>5. CASE /\ kind = "edit"
             /\ \/ native = NativeOk(PatchReceipt("applied", TRUE, 1)) /\ done = "all"
                \/ native = NativeOk(PatchReceipt("rejected", TRUE, 0)) /\ done = "none"
                \/ native = NativeOk(PatchReceipt("partial", FALSE, 0))
    BY <1>6, <2>5
  <2>6. EndShape(kind, native, done)
    BY EndShapes
  <2> QED BY <2>1, <2>2, <2>3, <2>4, <2>5, <2>6 DEF EndShape
<1> QED BY <1>7 DEF o

\* submit of the four workers: an input that is not plain is answered without the
\* gateway, except one that only the gateway refuses, and has one outcome, which says
\* that nothing was done.
LEMMA OwnOutcomes ==
  ASSUME NEW o \in [kind : Kinds, input : {"plain", "invalid", "huge", "unsupported"}]
  PROVE  /\ o.input \in {"plain", "unsupported"} => LocalAnswer(o.kind, o.input) = None
         /\ o.input \in {"invalid", "huge"} =>
              /\ LocalAnswer(o.kind, o.input) \in Answers
              /\ AnswerOutcome(LocalAnswer(o.kind, o.input)) = OwnOutcome(o)
         /\ o.input # "plain" =>
              /\ OwnOutcome(o) \in Outcomes
              /\ OwnOutcome(o).origin = "execution" => OwnOutcome(o).tells = "nothing"
<1> DEFINE answer == LocalAnswer(o.kind, o.input)
<1>0. o.kind \in {"bash", "read", "edit", "write"}
  BY ToolAssumption
<1>1. CASE o.input \in {"plain", "unsupported"}
  <2>1. answer = None
    BY <1>0, <1>1 DEF LocalAnswer, BashSubmit, ReadSubmit, EditSubmit, WriteSubmit
  <2>2. OwnOutcome(o) = Rejection("INVALID_REQUEST") \/ o.input = "plain"
    BY <1>1 DEF OwnOutcome
  <2>3. "INVALID_REQUEST" \in Codes
    BY DEF Codes
  <2> QED BY <1>1, <2>1, <2>2, <2>3, RejectionFields
<1>2. CASE o.input \in {"invalid", "huge"}
  <2>1. \/ \E code \in Codes : answer = Rejected(code)
        \/ \E content \in Contents : answer = Completed(Outcome("succeeded", "nothing", content))
    BY <1>0, <1>2 DEF LocalAnswer, BashSubmit, ReadSubmit, EditSubmit, WriteSubmit, Codes, Contents
  <2>2. OwnOutcome(o) = AnswerOutcome(answer)
    BY <1>2 DEF OwnOutcome
  <2> HIDE DEF answer
  <2>3. ASSUME NEW code \in Codes, answer = Rejected(code)
        PROVE  /\ answer \in Answers /\ OwnOutcome(o) \in Outcomes
               /\ OwnOutcome(o).origin = "execution" => OwnOutcome(o).tells = "nothing"
    BY <2>2, <2>3, AnswerFields, RejectionFields DEF AnswerOutcome
  <2>4. ASSUME NEW content \in Contents, answer = Completed(Outcome("succeeded", "nothing", content))
        PROVE  /\ answer \in Answers /\ OwnOutcome(o) \in Outcomes
               /\ OwnOutcome(o).origin = "execution" => OwnOutcome(o).tells = "nothing"
    BY <2>2, <2>4, AnswerFields, OutcomeFields DEF AnswerOutcome
  <2> QED BY <1>2, <2>1, <2>2, <2>3, <2>4 DEF answer
<1> QED BY <1>1, <1>2

\* The errors of the gateway become a rejection only for an input that it does not
\* support, or after management: everything else is retried.
LEMMA RefusalsTell ==
  ASSUME ToolTypes, ManagementTells, NEW gen, NEW e \in Refusals(gen)
  PROVE  Answer(e) \in Answers \cup {Thrown} /\ AnswerFits(Answer(e), op, Managed)
<1>1. \/ Managed /\ e.code \in {"MACHINE_DELETED", "CALLBACK_CONFIGURATION"}
      \/ op.input = "unsupported" /\ e.code = "INVALID_REQUEST"
      \/ ~Rejects(e)
  BY DEF Refusals, GatewayError, Rejects, ManagementTells, Managed
<1>2. CASE ~Rejects(e)
  BY <1>2 DEF Answer, AnswerFits
<1>3. CASE Rejects(e) /\ e.code \in Codes
  <2>1. /\ Answer(e) = Rejected(e.code) /\ Answer(e) \in Answers
        /\ Answer(e).status = "rejected" /\ Answer(e).code = e.code
    BY <1>3, AnswerFields DEF Answer
  <2>2. AnswerOutcome(Answer(e)) = Rejection(e.code)
    BY <2>1 DEF AnswerOutcome
  <2>3. op.input = "unsupported" => OwnOutcome(op) = Rejection("INVALID_REQUEST")
    BY DEF OwnOutcome
  <2> QED BY <1>1, <1>3, <2>1, <2>2, <2>3 DEF AnswerFits
<1> QED BY <1>1, <1>2, <1>3 DEF Codes

\* What the gateway dispatches is supported.
LEMMA DispatchedIsSupported ==
  ASSUME ToolTypes, NEW gen, Refusals(gen) = {}
  PROVE  op.input # "unsupported"
<1>1. SUFFICES ASSUME op.input = "unsupported" PROVE FALSE
  OBVIOUS
<1>2. ASSUME NEW e, e \in Refusals(gen) PROVE FALSE
  BY <1>2
<1>3. CASE machine.deleted
  <2>1. GatewayError(410, "MACHINE_DELETED", FALSE, FALSE) \in Refusals(gen)
    BY <1>3 DEF Refusals
  <2> QED BY <1>2, <2>1
<1>4. CASE ~machine.deleted /\ ~machine.authorized
  <2>1. GatewayError(401, "INVALID_SECRET", FALSE, FALSE) \in Refusals(gen)
    BY <1>4 DEF Refusals
  <2> QED BY <1>2, <2>1
<1>5. CASE ~machine.deleted /\ machine.authorized /\ ~machine.routed
  <2>1. GatewayError(503, "CALLBACK_CONFIGURATION", FALSE, FALSE) \in Refusals(gen)
    BY <1>5 DEF Refusals
  <2> QED BY <1>2, <2>1
<1>6. CASE ~machine.deleted /\ machine.authorized /\ machine.routed /\ ~machine.online
  <2>1. GatewayError(503, "MACHINE_OFFLINE", TRUE, FALSE) \in Refusals(gen)
    BY <1>6 DEF Refusals
  <2> QED BY <1>2, <2>1
<1>7. CASE /\ ~machine.deleted /\ machine.authorized /\ machine.routed /\ machine.online
           /\ machine.gen # gen
  <2>1. GatewayError(409, "RUNTIME_GENERATION_MISMATCH", FALSE, FALSE) \in Refusals(gen)
    BY <1>7 DEF Refusals
  <2> QED BY <1>2, <2>1
<1>8. CASE /\ ~machine.deleted /\ machine.authorized /\ machine.routed /\ machine.online
           /\ machine.gen = gen
  <2>1. GatewayError(400, "INVALID_REQUEST", FALSE, FALSE) \in Refusals(gen)
    BY <1>1, <1>8 DEF Refusals
  <2> QED BY <1>2, <2>1
<1> QED BY <1>3, <1>4, <1>5, <1>6, <1>7, <1>8

-----------------------------------------------------------------------------
(* What a step has to show, by the state it touches *)

\* The attempts that a step leaves alone still fit: a pinned generation stays pinned and
\* management is not undone.
LEMMA AttemptsMove ==
  ASSUME AttemptsFit, UNCHANGED op, bound' = bound \/ bound = 0, Managed => Managed',
         \A a \in Attempts : \/ attempts'[a] = attempts[a]
                             \/ AttemptFits(attempts'[a], op, bound', Managed')
  PROVE  AttemptsFit'
<1>1. ASSUME NEW t, AttemptFits(t, op, bound, Managed)
      PROVE  AttemptFits(t, op, bound', Managed')
  BY <1>1 DEF AttemptFits, AnswerFits
<1>2. ASSUME NEW a \in Attempts PROVE AttemptFits(attempts'[a], op, bound', Managed')
  BY <1>1, <1>2 DEF AttemptsFit
<1> QED BY <1>2 DEF AttemptsFit

\* The deliveries that a step leaves alone still fit: the result of a run that has ended,
\* the stored image and the admitted outcome stay.
LEMMA DeliveriesMove ==
  ASSUME DeliveriesFit, UNCHANGED op,
         row' = row \/ ~Ended(row) \/ (Ended(row') /\ row'.native = row.native),
         image => image', admitted' = admitted \/ admitted = None,
         \A d \in Deliveries : \/ deliveries'[d] = deliveries[d]
                               \/ DeliveryFits(deliveries'[d], op, row', image', admitted')
  PROVE  DeliveriesFit'
<1>1. ASSUME NEW t, DeliveryFits(t, op, row, image, admitted)
      PROVE  DeliveryFits(t, op, row', image', admitted')
  BY <1>1 DEF DeliveryFits
<1>2. ASSUME NEW d \in Deliveries
      PROVE  DeliveryFits(deliveries'[d], op, row', image', admitted')
  BY <1>1, <1>2 DEF DeliveriesFit
<1> QED BY <1>2 DEF DeliveriesFit

\* A step of one attempt that leaves everything else alone.
LEMMA AttemptOnly ==
  ASSUME ToolInv, NEW a \in Attempts, NEW t \in AttemptRecords,
         attempts' = [attempts EXCEPT ![a] = t], AttemptFits(t, op, bound, Managed),
         UNCHANGED <<op, bound, admitted, blocked, machine, row, effect, deliveries, image>>
  PROVE  ToolInv'
<1>1. /\ attempts' \in [Attempts -> AttemptRecords] /\ attempts'[a] = t
      /\ \A b \in Attempts : b # a => attempts'[b] = attempts[b]
  BY DEF ToolInv, ToolTypes
<1>2. Managed' <=> Managed
  BY DEF Managed
<1>3. AttemptsFit'
  BY <1>1, <1>2, AttemptsMove DEF ToolInv
<1>4. ToolTypes'
  BY <1>1 DEF ToolInv, ToolTypes
<1>5. RowFits' /\ AdmittedFits' /\ ManagementTells'
  BY <1>2 DEF ToolInv, RowFits, AdmittedFits, ManagementTells
<1>6. DeliveriesFit'
  BY DEF ToolInv, DeliveriesFit
<1> QED BY <1>3, <1>4, <1>5, <1>6 DEF ToolInv

\* A step of one delivery that leaves everything else but the image alone.
LEMMA DeliveryOnly ==
  ASSUME ToolInv, NEW d \in Deliveries, NEW t \in DeliveryRecords,
         deliveries' = [deliveries EXCEPT ![d] = t],
         DeliveryFits(t, op, row, image', admitted), image => image', image' \in BOOLEAN,
         UNCHANGED <<op, bound, attempts, admitted, blocked, machine, row, effect>>
  PROVE  ToolInv'
<1>1. /\ deliveries' \in [Deliveries -> DeliveryRecords] /\ deliveries'[d] = t
      /\ \A b \in Deliveries : b # d => deliveries'[b] = deliveries[b]
  BY DEF ToolInv, ToolTypes
<1>2. Managed' <=> Managed
  BY DEF Managed
<1>3. DeliveriesFit'
  BY <1>1, DeliveriesMove DEF ToolInv
<1>4. ToolTypes'
  BY <1>1 DEF ToolInv, ToolTypes
<1>5. RowFits' /\ AdmittedFits' /\ ManagementTells'
  BY <1>2 DEF ToolInv, RowFits, AdmittedFits, ManagementTells
<1>6. AttemptsFit'
  BY <1>2 DEF ToolInv, AttemptsFit
<1> QED BY <1>3, <1>4, <1>5, <1>6 DEF ToolInv

-----------------------------------------------------------------------------
(* Submission *)

\* An attempt that is over relies on nothing.
LEMMA FreeAttempt ==
  NoAttempt \in AttemptRecords /\ AttemptFits(NoAttempt, op, bound, Managed)
BY DEF NoAttempt, AttemptRecords, AttemptFits

\* Attempt: a submission starts at the pinned generation, or waits for one.
LEMMA AttemptStep ==
  ASSUME ToolInv, NEW a \in Attempts, Attempt(a)
  PROVE  ToolInv'
<1> DEFINE t == [stage |-> IF bound = 0 THEN "discover" ELSE "call", gen |-> bound, answer |-> None]
<1>1. attempts' = [attempts EXCEPT ![a] = t]
      /\ UNCHANGED <<op, bound, admitted, blocked, machine, row, effect, deliveries, image>>
  BY DEF Attempt
<1>2. t \in AttemptRecords /\ AttemptFits(t, op, bound, Managed)
  BY DEF ToolInv, ToolTypes, AttemptRecords, AttemptFits
<1> HIDE DEF t
<1> QED BY <1>1, <1>2, AttemptOnly

\* The worker, the gateway and the daemon: an answer fits the input and what management did.
LEMMA ProceedsStep ==
  ASSUME ToolInv, NEW a \in Attempts, Submit(a) \/ Dispatch(a)
  PROVE  ToolInv'
<1>0. /\ attempts[a] \in AttemptRecords /\ AttemptFits(attempts[a], op, bound, Managed)
      /\ ToolTypes /\ ManagementTells
      /\ op \in [kind : Kinds, input : {"plain", "invalid", "huge", "unsupported"}]
  BY DEF ToolInv, ToolTypes, AttemptsFit
<1>1. UNCHANGED <<op, bound, admitted, blocked, machine, row, effect, deliveries, image>>
  BY DEF Submit, Dispatch
<1>2. ASSUME NEW x \in Answers \cup {Thrown}, Answered(a, x), AnswerFits(x, op, Managed)
      PROVE  ToolInv'
  <2> DEFINE t == [attempts[a] EXCEPT !.stage = "replied", !.answer = x]
  <2>1. attempts' = [attempts EXCEPT ![a] = t]
    BY <1>0, <1>2 DEF Answered, ToolTypes
  <2>2. t \in AttemptRecords /\ t.stage = "replied" /\ t.answer = x
    BY <1>0 DEF AttemptRecords
  <2> HIDE DEF t
  <2>3. AttemptFits(t, op, bound, Managed)
    BY <1>2, <2>2 DEF AttemptFits
  <2> QED BY <1>1, <2>1, <2>2, <2>3, AttemptOnly
<1>3. ASSUME NEW stage \in {"sent", "dispatched"}, attempts[a].stage \in {"call", "sent"},
             attempts' = [attempts EXCEPT ![a].stage = stage],
             op.input \in {"plain", "unsupported"}, stage = "dispatched" => op.input = "plain"
      PROVE  ToolInv'
  <2> DEFINE t == [attempts[a] EXCEPT !.stage = stage]
  <2>1. attempts' = [attempts EXCEPT ![a] = t]
    BY <1>0, <1>3 DEF ToolTypes
  <2>2. t \in AttemptRecords /\ t.stage = stage /\ t.gen = attempts[a].gen
    BY <1>0 DEF AttemptRecords
  <2> HIDE DEF t
  <2>3. AttemptFits(t, op, bound, Managed)
    BY <1>0, <1>3, <2>2 DEF AttemptFits
  <2> QED BY <1>1, <2>1, <2>2, <2>3, AttemptOnly
<1>4. CASE Submit(a)
  <2> DEFINE answer == LocalAnswer(op.kind, op.input)
  <2>1. CASE op.input \in {"plain", "unsupported"}
    <3>1. answer = None
      BY <1>0, <2>1, OwnOutcomes
    <3> QED BY <1>3, <1>4, <2>1, <3>1 DEF Submit
  <2>2. CASE op.input \in {"invalid", "huge"}
    <3>1. answer \in Answers /\ AnswerOutcome(answer) = OwnOutcome(op)
      BY <1>0, <2>2, OwnOutcomes
    <3>2. answer # None
      BY <3>1, ToolAssumption
    <3>3. AnswerFits(answer, op, Managed)
      BY <2>2, <3>1 DEF AnswerFits
    <3>4. Answered(a, answer)
      BY <1>4, <3>2 DEF Submit
    <3> HIDE DEF answer
    <3> QED BY <1>2, <3>1, <3>3, <3>4
  <2> QED BY <1>0, <2>1, <2>2
<1>5. CASE Dispatch(a)
  <2>1. CASE \E e \in Refusals(attempts[a].gen) : Answered(a, Answer(e))
    <3>1. PICK e \in Refusals(attempts[a].gen) : Answered(a, Answer(e))
      BY <2>1
    <3> QED BY <1>0, <1>2, <3>1, RefusalsTell
  <2>2. CASE /\ Refusals(attempts[a].gen) = {}
             /\ attempts' = [attempts EXCEPT ![a].stage = "dispatched"]
    <3>1. op.input # "unsupported"
      BY <1>0, <2>2, DispatchedIsSupported
    <3>2. attempts[a].stage = "sent" /\ op.input = "plain"
      BY <1>0, <1>5, <3>1 DEF Dispatch, AttemptFits
    <3> QED BY <1>3, <2>2, <3>2
  <2> QED BY <1>5, <2>1, <2>2 DEF Dispatch
<1> QED BY <1>4, <1>5

\* The daemon's admission: a new row is the plain input's, in the pinned generation; a
\* repetition keeps the result.
LEMMA AcceptStep ==
  ASSUME ToolInv, NEW a \in Attempts, Accept(a)
  PROVE  ToolInv'
<1>0. /\ attempts[a] \in AttemptRecords /\ AttemptFits(attempts[a], op, bound, Managed)
      /\ ToolTypes /\ attempts \in [Attempts -> AttemptRecords] /\ row \in JournalRows
      /\ attempts[a].stage = "dispatched"
      /\ UNCHANGED <<op, bound, admitted, blocked, machine, effect, deliveries, image>>
  BY DEF ToolInv, ToolTypes, AttemptsFit, Accept
<1>1. op.input = "plain" /\ attempts[a].gen = bound /\ bound # 0
  BY <1>0 DEF AttemptFits
<1> DEFINE x == IF machine.online /\ machine.gen = attempts[a].gen THEN Accepted ELSE Thrown
           t == [attempts[a] EXCEPT !.stage = "replied", !.answer = x]
<1>2. Answered(a, x)
  BY DEF Accept
<1>3. x \in Answers \cup {Thrown} /\ AnswerFits(x, op, Managed)
  BY AnswerFields DEF AnswerFits
<1> HIDE DEF x
<1>4. attempts' = [attempts EXCEPT ![a] = t]
  BY <1>0, <1>2 DEF Answered
<1>5. t \in AttemptRecords /\ t.stage = "replied" /\ t.answer = x
  BY <1>0, <1>3 DEF AttemptRecords
<1> HIDE DEF t
<1>6. AttemptFits(t, op, bound, Managed)
  BY <1>3, <1>5 DEF AttemptFits
<1>7. \/ row' = row
      \/ row.state = "absent" /\ row' = [state |-> "active", gen |-> bound, native |-> None]
      \/ row.state \in {"delivered", "quarantined"} /\ row' = [row EXCEPT !.state = "pending"]
  BY <1>0, <1>1 DEF Accept
<1>8. /\ row' \in JournalRows
      /\ row' = row \/ ~Ended(row) \/ (Ended(row') /\ row'.native = row.native)
  BY <1>0, <1>7 DEF JournalRows, Ended, ToolTypes
<1>9. /\ attempts' \in [Attempts -> AttemptRecords] /\ attempts'[a] = t
      /\ \A b \in Attempts : b # a => attempts'[b] = attempts[b]
  BY <1>0, <1>4, <1>5
<1>10. Managed' <=> Managed
  BY <1>0 DEF Managed
<1>11. AttemptsFit'
  BY <1>0, <1>6, <1>9, <1>10, AttemptsMove DEF ToolInv
<1>12. DeliveriesFit'
  BY <1>0, <1>8, DeliveriesMove DEF ToolInv
<1>13. ToolTypes'
  BY <1>0, <1>8, <1>9 DEF ToolTypes
<1>14. RowFits'
  BY <1>0, <1>1, <1>7 DEF ToolInv, RowFits, Ended, JournalRows
<1>15. AdmittedFits' /\ ManagementTells'
  BY <1>0, <1>8, <1>10 DEF ToolInv, AdmittedFits, ManagementTells, Ended
<1> QED BY <1>11, <1>12, <1>13, <1>14, <1>15 DEF ToolInv

\* The driver's commit: what is queued is the input's own outcome or management's
\* rejection, and meets another outcome only after management.
LEMMA CommitStep ==
  ASSUME ToolInv, NEW a \in Attempts, Commit(a)
  PROVE  ToolInv'
<1> DEFINE x == attempts[a].answer
<1>0. /\ AttemptFits(attempts[a], op, bound, Managed) /\ ToolTypes
      /\ attempts \in [Attempts -> AttemptRecords] /\ admitted \in Outcomes \cup {None}
      /\ op \in [kind : Kinds, input : {"plain", "invalid", "huge", "unsupported"}]
      /\ attempts[a].stage = "replied"
      /\ attempts' = [attempts EXCEPT ![a] = NoAttempt]
      /\ UNCHANGED <<op, bound, machine, row, effect, deliveries, image>>
  BY DEF ToolInv, ToolTypes, AttemptsFit, Commit
<1>1. x \in Answers \cup {Thrown} /\ AnswerFits(x, op, Managed)
  BY <1>0 DEF AttemptFits
<1>2. Managed' <=> Managed
  BY <1>0 DEF Managed
<1>3. CASE UNCHANGED <<admitted, blocked>>
  BY <1>0, <1>3, FreeAttempt, AttemptOnly
<1>4. ASSUME NEW outcome \in Outcomes, Queue(outcome),
             \/ op.input # "plain" /\ outcome = OwnOutcome(op)
             \/ Managed /\ outcome.origin = "submission"
      PROVE  ToolInv'
  <2>1. /\ admitted' \in Outcomes \cup {None}
        /\ admitted' = admitted \/ (admitted = None /\ admitted' = outcome)
        /\ blocked' => blocked \/ (admitted # None /\ admitted # outcome)
    BY <1>0, <1>4 DEF Queue
  <2>2. /\ attempts' \in [Attempts -> AttemptRecords] /\ attempts'[a] = NoAttempt
        /\ \A b \in Attempts : b # a => attempts'[b] = attempts[b]
    BY <1>0, FreeAttempt
  <2>3. AttemptsFit'
    BY <1>0, <1>2, <2>2, FreeAttempt, AttemptsMove DEF ToolInv
  <2>4. DeliveriesFit'
    BY <1>0, <2>1, DeliveriesMove DEF ToolInv
  <2>5. ToolTypes'
    BY <1>0, <2>1, <2>2 DEF ToolTypes
  <2>6. RowFits'
    BY <1>0, <2>1 DEF ToolInv, RowFits
  <2>7. AdmittedFits'
    BY <1>0, <1>2, <1>4, <2>1 DEF ToolInv, AdmittedFits
  <2>8. admitted # None /\ admitted # outcome => Managed
    <3>1. CASE op.input # "plain"
      <4>1. row.state = "absent"
        BY <3>1 DEF ToolInv, RowFits
      <4> QED BY <1>4, <3>1, <4>1 DEF ToolInv, AdmittedFits, Ended
    <3>2. CASE op.input = "plain"
      BY <1>4, <3>2
    <3> QED BY <3>1, <3>2
  <2>9. ManagementTells'
    BY <1>0, <1>2, <2>1, <2>8 DEF ToolInv, ManagementTells
  <2> QED BY <2>3, <2>4, <2>5, <2>6, <2>7, <2>9 DEF ToolInv
<1>5. CASE ~(current # a \/ x = Thrown)
  <2>1. x \in Answers /\ x # Thrown
    BY <1>1, <1>5
  <2>2. CASE x.status = "accepted"
    BY <1>3, <1>5, <2>2 DEF Commit
  <2>3. CASE x.status = "completed"
    <3>1. Queue(x.outcome)
      BY <1>5, <2>3 DEF Commit
    <3>2. x.outcome \in Outcomes /\ AnswerOutcome(x) = x.outcome
      BY <2>1, <2>3 DEF Answers, AnswerOutcome
    <3>3. op.input # "plain" /\ AnswerOutcome(x) = OwnOutcome(op)
      BY <1>1, <2>1, <2>3 DEF AnswerFits
    <3> HIDE DEF x
    <3> QED BY <1>4, <3>1, <3>2, <3>3
  <2>4. CASE x.status = "rejected"
    <3>1. Queue(Rejection(x.code))
      BY <1>5, <2>4 DEF Commit
    <3>2. x.code \in Codes /\ AnswerOutcome(x) = Rejection(x.code)
      BY <2>1, <2>4 DEF Answers, AnswerOutcome
    <3>3. Rejection(x.code) \in Outcomes /\ Rejection(x.code).origin = "submission"
      BY <3>2, RejectionFields
    <3>4. Managed \/ (op.input # "plain" /\ AnswerOutcome(x) = OwnOutcome(op))
      BY <1>1, <2>1, <2>4 DEF AnswerFits
    <3> HIDE DEF x
    <3> QED BY <1>4, <3>1, <3>2, <3>3, <3>4
  <2> QED BY <2>1, <2>2, <2>3, <2>4 DEF Answers
<1>6. CASE current # a \/ x = Thrown
  BY <1>3, <1>6 DEF Commit
<1> QED BY <1>5, <1>6

\* Attempts that end without an answer: lost ones, and those that wait for a generation
\* when its discovery fails or the session's activation ends.
LEMMA AttemptsEnd ==
  ASSUME ToolInv,
         \/ \E a \in Attempts : Lose(a)
         \/ GiveUp \/ ActivationLoss \/ Discovered
  PROVE  ToolInv'
<1>0. attempts \in [Attempts -> AttemptRecords]
  BY DEF ToolInv, ToolTypes
<1>1. UNCHANGED <<op, bound, admitted, blocked, machine, row, effect, deliveries, image>>
  BY DEF Lose, GiveUp, ActivationLoss, Discovered
<1>2. /\ attempts' \in [Attempts -> AttemptRecords]
      /\ \A a \in Attempts : attempts'[a] \in {attempts[a], NoAttempt}
  <2>1. CASE attempts' = attempts
    BY <1>0, <2>1
  <2>2. ASSUME NEW a \in Attempts, attempts' = [attempts EXCEPT ![a] = NoAttempt]
        PROVE  /\ attempts' \in [Attempts -> AttemptRecords]
               /\ \A b \in Attempts : attempts'[b] \in {attempts[b], NoAttempt}
    BY <1>0, <2>2, FreeAttempt
  <2>3. CASE attempts' = [a \in Attempts |-> IF a \in Waiting THEN NoAttempt ELSE attempts[a]]
    BY <1>0, <2>3, FreeAttempt
  <2> QED BY <2>1, <2>2, <2>3 DEF Lose, GiveUp, ActivationLoss, Discovered
<1>3. Managed' <=> Managed
  BY <1>1 DEF Managed
<1>4. AttemptsFit'
  BY <1>1, <1>2, <1>3, FreeAttempt, AttemptsMove DEF ToolInv
<1>5. ToolTypes'
  BY <1>1, <1>2 DEF ToolInv, ToolTypes
<1>6. RowFits' /\ AdmittedFits' /\ ManagementTells'
  BY <1>1, <1>3 DEF ToolInv, RowFits, AdmittedFits, ManagementTells
<1>7. DeliveriesFit'
  BY <1>1 DEF ToolInv, DeliveriesFit
<1> QED BY <1>4, <1>5, <1>6, <1>7 DEF ToolInv

\* prepare: the generation is pinned once, and every attempt that waited goes to it.
LEMMA PrepareStep ==
  ASSUME ToolInv, Prepare
  PROVE  ToolInv'
<1>0. /\ attempts \in [Attempts -> AttemptRecords] /\ bound \in Nat
      /\ UNCHANGED <<op, admitted, blocked, machine, row, effect, deliveries, image>>
  BY DEF ToolInv, ToolTypes, Prepare
<1>1. bound' \in Nat /\ bound' # 0 /\ (bound' = bound \/ bound = 0)
  <2>1. discovery \in 1 .. MaxGenerations /\ bound' = IF bound = 0 THEN discovery ELSE bound
    BY DEF Prepare
  <2>2. discovery \in Nat /\ discovery # 0
    BY <2>1, ToolAssumption
  <2> QED BY <1>0, <2>1, <2>2
<1>2. ASSUME NEW a \in Attempts
      PROVE  /\ attempts'[a] \in AttemptRecords
             /\ \/ attempts'[a] = attempts[a]
                \/ attempts'[a].stage = "call" /\ attempts'[a].gen = bound'
  <2>1. attempts'[a] = IF a \in Waiting THEN [attempts[a] EXCEPT !.stage = "call", !.gen = bound']
                       ELSE attempts[a]
    BY DEF Prepare
  <2> QED BY <1>0, <1>1, <2>1 DEF AttemptRecords
<1>3. attempts' \in [Attempts -> AttemptRecords]
  <2>1. attempts' = [a \in Attempts |-> attempts'[a]]
    BY DEF Prepare
  <2> QED BY <1>2, <2>1
<1>4. Managed' <=> Managed
  BY <1>0 DEF Managed
<1>5. \A a \in Attempts : \/ attempts'[a] = attempts[a]
                          \/ AttemptFits(attempts'[a], op, bound', Managed')
  BY <1>1, <1>2 DEF AttemptFits
<1>6. AttemptsFit'
  BY <1>0, <1>1, <1>4, <1>5, AttemptsMove DEF ToolInv
<1>7. ToolTypes'
  BY <1>0, <1>1, <1>3 DEF ToolInv, ToolTypes
<1>8. RowFits' /\ AdmittedFits' /\ ManagementTells'
  BY <1>0, <1>1, <1>4 DEF ToolInv, RowFits, AdmittedFits, ManagementTells
<1>9. DeliveriesFit'
  BY <1>0 DEF ToolInv, DeliveriesFit
<1> QED BY <1>6, <1>7, <1>8, <1>9 DEF ToolInv

-----------------------------------------------------------------------------
(* The machine and the delivery of the result *)

\* The run ends, or the daemon restarts: the row takes a result that tells what was done.
LEMMA EndStep ==
  ASSUME ToolInv, Finish \/ Restart
  PROVE  ToolInv'
<1>0. /\ ToolTypes /\ row \in JournalRows /\ machine \in Machines /\ op.kind \in Kinds
      /\ UNCHANGED <<op, bound, attempts, admitted, blocked, deliveries, image>>
  BY DEF ToolInv, ToolTypes, Finish, Restart, session
<1>1. /\ machine' \in Machines /\ (Managed' <=> Managed) /\ machine'.routed = machine.routed
      /\ machine'.unrouted = machine.unrouted
  <2>1. machine' = machine \/ machine' = [machine EXCEPT !.gen = @ + 1, !.online = FALSE]
    BY DEF Finish, Restart
  <2>2. /\ machine' \in Machines /\ machine'.routed = machine.routed
        /\ machine'.unrouted = machine.unrouted /\ machine'.deleted = machine.deleted
    <3>1. CASE machine' = machine
      BY <1>0, <3>1
    <3>2. CASE machine' = [machine EXCEPT !.gen = @ + 1, !.online = FALSE]
      <4>1. machine.gen + 1 \in Nat
        BY <1>0 DEF Machines
      <4>2. machine' = [machine EXCEPT !.gen = machine.gen + 1, !.online = FALSE]
        BY <3>2
      <4> QED BY <1>0, <4>1, <4>2 DEF Machines
    <3> QED BY <2>1, <3>1, <3>2
  <2> QED BY <2>2 DEF Managed
<1>2. \/ row' = row /\ effect' = effect
      \/ /\ row.state = "active"
         /\ \E end \in AllEnds(op.kind) :
              /\ end = <<end[1], end[2]>> /\ effect' = end[2]
              /\ row' = [row EXCEPT !.state = "pending", !.native = end[1]]
  <2>1. CASE Finish
    <3>1. PICK end \in Ends(op.kind) : /\ row' = [row EXCEPT !.state = "pending", !.native = end[1]]
                                       /\ effect' = end[2]
      BY <2>1 DEF Finish
    <3>2. end \in AllEnds(op.kind)
      BY <3>1 DEF AllEnds
    <3>3. end = <<end[1], end[2]>>
      BY <1>0, <3>2, EndsArePairs
    <3> QED BY <2>1, <3>1, <3>2, <3>3 DEF Finish
  <2>2. CASE Restart /\ row.state = "active"
    <3>1. /\ row' = [row EXCEPT !.state = "pending", !.native = NativeError("DAEMON_RESTARTED")]
          /\ effect' \in {"none", "some"}
      BY <2>2 DEF Restart
    <3>2. <<NativeError("DAEMON_RESTARTED"), effect'>> \in AllEnds(op.kind)
      BY <3>1 DEF AllEnds
    <3> QED BY <2>2, <3>1, <3>2
  <2>3. CASE Restart /\ row.state # "active"
    BY <2>3 DEF Restart
  <2> QED BY <2>1, <2>2, <2>3
<1>3. AttemptsFit'
  BY <1>0, <1>1, AttemptsMove DEF ToolInv
<1>4. CASE row' = row /\ effect' = effect
  <2>1. ToolTypes' /\ RowFits' /\ AdmittedFits' /\ DeliveriesFit' /\ ManagementTells'
    BY <1>0, <1>1, <1>4 DEF ToolInv, ToolTypes, RowFits, AdmittedFits, DeliveriesFit, ManagementTells
  <2> QED BY <1>3, <2>1 DEF ToolInv
<1>5. ASSUME row.state = "active", NEW end \in AllEnds(op.kind),
             end = <<end[1], end[2]>>, effect' = end[2],
             row' = [row EXCEPT !.state = "pending", !.native = end[1]]
      PROVE  ToolInv'
  <2>1. end[1] \in Natives
    BY <1>0, <1>5, OutcomesAreTrue
  <2>2. /\ row' \in JournalRows /\ row'.state = "pending" /\ row'.native = end[1]
        /\ row'.gen = row.gen
    BY <1>0, <1>5, <2>1 DEF JournalRows
  <2>3. ToolTypes'
    BY <1>0, <1>1, <2>2 DEF ToolTypes
  <2>4. RowFits'
    BY <1>0, <1>5, <2>2 DEF ToolInv, RowFits, Ended
  <2>5. AdmittedFits' /\ ManagementTells'
    BY <1>0, <1>1, <1>5 DEF ToolInv, AdmittedFits, ManagementTells, Ended
  <2>6. DeliveriesFit'
    BY <1>0, <1>5, DeliveriesMove DEF ToolInv, Ended
  <2> QED BY <1>3, <2>3, <2>4, <2>5, <2>6 DEF ToolInv
<1> QED BY <1>2, <1>4, <1>5

\* The machine's connection and management: management is not undone.
LEMMA MachineStep ==
  ASSUME ToolInv, Connect \/ Disconnect \/ Manage \/ RestoreRoutes
  PROVE  ToolInv'
<1>0. /\ machine \in Machines /\ ManagementTells
      /\ UNCHANGED <<op, bound, attempts, admitted, blocked, row, effect, deliveries, image>>
  BY DEF ToolInv, ToolTypes, Connect, Disconnect, Manage, RestoreRoutes, session
<1>1. /\ machine' \in Machines /\ (Managed => Managed')
      /\ ~machine'.routed => machine'.unrouted
  BY <1>0 DEF Connect, Disconnect, Manage, RestoreRoutes, Machines, Managed, ManagementTells
<1>2. AttemptsFit'
  BY <1>0, <1>1, AttemptsMove DEF ToolInv
<1>3. ToolTypes' /\ RowFits' /\ AdmittedFits' /\ DeliveriesFit' /\ ManagementTells'
  BY <1>0, <1>1 DEF ToolInv, ToolTypes, RowFits, AdmittedFits, DeliveriesFit, ManagementTells
<1> QED BY <1>2, <1>3 DEF ToolInv

\* Quarantine keeps the result, and what it tells of the effect.
LEMMA QuarantineStep ==
  ASSUME ToolInv, Quarantine \/ ExceedHorizon \/ Retry
  PROVE  ToolInv'
<1>0. /\ row \in JournalRows /\ Ended(row)
      /\ UNCHANGED <<op, bound, attempts, admitted, blocked, machine, effect, deliveries, image>>
  BY DEF ToolInv, ToolTypes, Quarantine, ExceedHorizon, Retry, Ended, session
<1>1. /\ row' \in JournalRows /\ row'.state \in {"pending", "quarantined"} /\ Ended(row')
      /\ row'.native = row.native /\ row'.gen = row.gen
  BY <1>0 DEF Quarantine, ExceedHorizon, Retry, JournalRows, Ended
<1>2. Managed' <=> Managed
  BY <1>0 DEF Managed
<1>3. AttemptsFit'
  BY <1>0, <1>2, AttemptsMove DEF ToolInv
<1>4. DeliveriesFit'
  BY <1>0, <1>1, DeliveriesMove DEF ToolInv
<1>5. ToolTypes'
  BY <1>0, <1>1 DEF ToolInv, ToolTypes
<1>6. RowFits'
  BY <1>0, <1>1 DEF ToolInv, RowFits, Ended
<1>7. AdmittedFits' /\ ManagementTells'
  BY <1>0, <1>1, <1>2 DEF ToolInv, AdmittedFits, ManagementTells
<1> QED BY <1>3, <1>4, <1>5, <1>6, <1>7 DEF ToolInv

\* The record of a delivery at a stage.
LEMMA DeliveryFields ==
  ASSUME NEW stage \in {"free", "lookup", "upload", "recover", "formatted", "confirmed"},
         NEW outcome \in Outcomes \cup {None}
  PROVE  /\ [stage |-> stage, outcome |-> outcome] \in DeliveryRecords
         /\ [stage |-> stage, outcome |-> outcome].stage = stage
         /\ [stage |-> stage, outcome |-> outcome].outcome = outcome
BY DEF DeliveryRecords

\* acceptExecutionResult and the upload of an image: however often and in whatever order
\* deliveries look, send and recover, each makes the one outcome of the result.
LEMMA FormatStep ==
  ASSUME ToolInv, NEW d \in Deliveries,
         \/ AcceptExecutionResult(d) \/ Lookup(d) \/ Upload(d) \/ Recover(d) \/ LoseDelivery(d)
  PROVE  ToolInv'
<1> DEFINE o == TerminalOutcome(op.kind, row.native)
<1>0. /\ DeliveryFits(deliveries[d], op, row, image, admitted) /\ op.kind \in Kinds
      /\ image \in BOOLEAN /\ (Ended(row) => <<row.native, effect>> \in AllEnds(op.kind))
      /\ UNCHANGED <<op, bound, attempts, admitted, blocked, machine, row, effect>>
  BY DEF ToolInv, ToolTypes, DeliveriesFit, RowFits, AcceptExecutionResult, Lookup, Upload, Recover,
         LoseDelivery, session
<1>1. Ended(row) => o \in Outcomes
  BY <1>0, OutcomesAreTrue
<1>2. ASSUME NEW stage \in {"free", "lookup", "upload", "recover", "formatted"},
             NEW outcome \in Outcomes \cup {None}, Delivery(d, stage, outcome),
             stage # "free" => Ended(row),
             stage \in {"lookup", "upload", "recover"} =>
               op.kind = "read" /\ row.native \in {NativeOk("image"), NativeOk("bad_image")},
             stage = "recover" => image' \/ row.native = NativeOk("bad_image"),
             stage = "formatted" => outcome \in Outcomes /\ outcome = o,
             image => image', image' \in BOOLEAN
      PROVE  ToolInv'
  <2> DEFINE t == [stage |-> stage, outcome |-> outcome]
  <2>1. /\ t \in DeliveryRecords /\ t.stage = stage /\ t.outcome = outcome
        /\ deliveries' = [deliveries EXCEPT ![d] = t]
    BY <1>2, DeliveryFields DEF Delivery
  <2> HIDE DEF t
  <2>2. DeliveryFits(t, op, row, image', admitted)
    BY <1>2, <2>1 DEF DeliveryFits
  <2> QED BY <1>0, <1>2, <2>1, <2>2, DeliveryOnly
<1>3. op.kind = "read" => o = ReadOutcome(row.native)
  BY DEF TerminalOutcome
<1> HIDE DEF o
<1>4. CASE AcceptExecutionResult(d)
  <2>1. Ended(row) /\ image' = image
    BY <1>4 DEF AcceptExecutionResult, Ended
  <2>2. CASE IsImage
    <3>1. Delivery(d, "lookup", None)
      BY <1>4, <2>2 DEF AcceptExecutionResult
    <3> QED BY <1>0, <1>2, <2>1, <2>2, <3>1 DEF IsImage
  <2>3. CASE ~IsImage
    <3>1. Delivery(d, "formatted", o)
      BY <1>4, <2>3 DEF AcceptExecutionResult, o
    <3> QED BY <1>0, <1>1, <1>2, <2>1, <3>1
  <2> QED BY <2>2, <2>3
<1>5. CASE Lookup(d)
  <2>1. /\ Ended(row) /\ image' = image /\ op.kind = "read"
        /\ row.native \in {NativeOk("image"), NativeOk("bad_image")}
    BY <1>0, <1>5 DEF Lookup, DeliveryFits
  <2>2. Delivery(d, "formatted", o) \/ Delivery(d, "upload", None)
    BY <1>3, <1>5, <2>1 DEF Lookup
  <2>3. CASE Delivery(d, "formatted", o)
    BY <1>0, <1>1, <1>2, <2>1, <2>3
  <2>4. CASE Delivery(d, "upload", None)
    BY <1>0, <1>2, <2>1, <2>4
  <2> QED BY <2>2, <2>3, <2>4
<1>6. CASE Upload(d)
  <2>1. /\ Ended(row) /\ op.kind = "read"
        /\ row.native \in {NativeOk("image"), NativeOk("bad_image")}
    BY <1>0, <1>6 DEF Upload, DeliveryFits
  <2>2. /\ image' \in BOOLEAN /\ (image => image')
        /\ \/ Delivery(d, "formatted", o)
           \/ Delivery(d, "recover", None) /\ (image' \/ row.native = NativeOk("bad_image"))
    BY <1>0, <1>3, <1>6, <2>1 DEF Upload
  <2>3. CASE Delivery(d, "formatted", o)
    BY <1>0, <1>1, <1>2, <2>1, <2>2, <2>3
  <2>4. CASE Delivery(d, "recover", None) /\ (image' \/ row.native = NativeOk("bad_image"))
    BY <1>0, <1>2, <2>1, <2>2, <2>4
  <2> QED BY <2>2, <2>3, <2>4
<1>7. CASE Recover(d)
  <2>1. /\ Ended(row) /\ op.kind = "read" /\ image' = image
        /\ image \/ row.native = NativeOk("bad_image")
    BY <1>0, <1>7 DEF Recover, DeliveryFits
  <2>2. row.native = NativeOk("bad_image") => o = Outcome("succeeded", "nothing", "bad_image")
    <3>1. "bad_image" \in Contents
      BY DEF Contents
    <3>2. NativeOk("bad_image").status = "ok" /\ NativeOk("bad_image").result = "bad_image"
      BY <3>1, NativeFields
    <3> QED BY <1>3, <2>1, <3>2 DEF ReadOutcome
  <2>3. Delivery(d, "formatted", o)
    BY <1>3, <1>7, <2>1, <2>2 DEF Recover
  <2> QED BY <1>0, <1>1, <1>2, <2>1, <2>3
<1>8. CASE LoseDelivery(d)
  <2>1. Delivery(d, "free", None) /\ image' = image
    BY <1>8 DEF LoseDelivery
  <2> QED BY <1>0, <1>2, <2>1
<1> QED BY <1>4, <1>5, <1>6, <1>7, <1>8

\* The session's admission: it takes only the outcome of the result, keeps what it holds,
\* and a confirmed delivery carries an admitted execution.
LEMMA AdmitStep ==
  ASSUME ToolInv, NEW d \in Deliveries, Admit(d)
  PROVE  ToolInv'
<1> DEFINE outcome == deliveries[d].outcome
<1>0. /\ DeliveryFits(deliveries[d], op, row, image, admitted) /\ op.kind \in Kinds
      /\ deliveries \in [Deliveries -> DeliveryRecords] /\ image \in BOOLEAN
      /\ (Ended(row) => <<row.native, effect>> \in AllEnds(op.kind))
      /\ deliveries[d].stage = "formatted"
      /\ UNCHANGED <<op, bound, attempts, blocked, machine, row, effect, image>>
  BY DEF ToolInv, ToolTypes, DeliveriesFit, RowFits, Admit
<1>1. Ended(row) /\ outcome \in Outcomes /\ outcome = TerminalOutcome(op.kind, row.native)
  BY <1>0 DEF DeliveryFits
<1>2. outcome.origin = "execution" /\ outcome # None
  BY <1>0, <1>1, OutcomesAreTrue, ToolAssumption
<1> HIDE DEF outcome
<1>3. CASE ~Admits(outcome)
  <2> DEFINE t == [stage |-> "free", outcome |-> None]
  <2>1. /\ deliveries' = [deliveries EXCEPT ![d] = t] /\ UNCHANGED admitted
        /\ t \in DeliveryRecords /\ t.stage = "free"
    BY <1>3, DeliveryFields DEF Admit, Delivery, outcome
  <2> HIDE DEF t
  <2>2. DeliveryFits(t, op, row, image', admitted)
    BY <2>1 DEF DeliveryFits
  <2> QED BY <1>0, <2>1, <2>2, DeliveryOnly
<1>4. CASE Admits(outcome)
  <2> DEFINE t == [stage |-> "confirmed", outcome |-> None]
  <2>1. /\ deliveries' = [deliveries EXCEPT ![d] = t] /\ admitted' = outcome
        /\ t \in DeliveryRecords /\ t.stage = "confirmed"
    BY <1>4, DeliveryFields DEF Admit, Delivery, outcome
  <2> HIDE DEF t
  <2>2. admitted = outcome \/ admitted = None
    BY <1>4 DEF Admits
  <2>3. /\ deliveries' \in [Deliveries -> DeliveryRecords] /\ deliveries'[d] = t
        /\ \A e \in Deliveries : e # d => deliveries'[e] = deliveries[e]
    BY <1>0, <2>1
  <2>4. DeliveryFits(t, op, row, image', admitted')
    BY <1>1, <1>2, <2>1 DEF DeliveryFits
  <2>5. DeliveriesFit'
    BY <1>0, <2>1, <2>2, <2>3, <2>4, DeliveriesMove DEF ToolInv
  <2>6. Managed' <=> Managed
    BY <1>0 DEF Managed
  <2>7. AttemptsFit'
    BY <1>0, <2>6, AttemptsMove DEF ToolInv
  <2>8. ToolTypes'
    BY <1>0, <1>1, <2>1, <2>3 DEF ToolInv, ToolTypes
  <2>9. RowFits'
    BY <1>0, <1>2, <2>1 DEF ToolInv, RowFits
  <2>10. AdmittedFits'
    BY <1>0, <1>1, <2>1 DEF AdmittedFits
  <2>11. ManagementTells'
    BY <1>0, <2>6 DEF ToolInv, ManagementTells
  <2> QED BY <2>5, <2>7, <2>8, <2>9, <2>10, <2>11 DEF ToolInv
<1> QED BY <1>3, <1>4

\* The receipt reaches the daemon, which lets go of what the session holds.
LEMMA AcknowledgeStep ==
  ASSUME ToolInv, NEW d \in Deliveries, Acknowledge(d)
  PROVE  ToolInv'
<1>0. /\ DeliveryFits(deliveries[d], op, row, image, admitted)
      /\ deliveries \in [Deliveries -> DeliveryRecords] /\ row \in JournalRows
      /\ deliveries[d].stage = "confirmed"
      /\ UNCHANGED <<op, bound, attempts, admitted, blocked, machine, effect, image>>
  BY DEF ToolInv, ToolTypes, DeliveriesFit, Acknowledge, session
<1>1. Ended(row) /\ admitted # None /\ admitted.origin = "execution"
  BY <1>0 DEF DeliveryFits
<1>2. /\ row' \in JournalRows /\ row'.native = row.native /\ row'.gen = row.gen /\ Ended(row')
  BY <1>0, <1>1 DEF Acknowledge, JournalRows, Ended
<1> DEFINE t == [stage |-> "free", outcome |-> None]
<1>3. /\ deliveries' = [deliveries EXCEPT ![d] = t]
      /\ t \in DeliveryRecords /\ t.stage = "free"
  BY DeliveryFields DEF Acknowledge, Delivery
<1> HIDE DEF t
<1>4. /\ deliveries' \in [Deliveries -> DeliveryRecords] /\ deliveries'[d] = t
      /\ \A e \in Deliveries : e # d => deliveries'[e] = deliveries[e]
  BY <1>0, <1>3
<1>5. DeliveryFits(t, op, row', image', admitted')
  BY <1>3 DEF DeliveryFits
<1>6. DeliveriesFit'
  BY <1>0, <1>2, <1>4, <1>5, DeliveriesMove DEF ToolInv
<1>7. Managed' <=> Managed
  BY <1>0 DEF Managed
<1>8. AttemptsFit'
  BY <1>0, <1>7, AttemptsMove DEF ToolInv
<1>9. ToolTypes'
  BY <1>0, <1>2, <1>4 DEF ToolInv, ToolTypes
<1>10. RowFits'
  BY <1>0, <1>1, <1>2 DEF ToolInv, RowFits, Ended
<1>11. AdmittedFits' /\ ManagementTells'
  BY <1>0, <1>2, <1>7 DEF ToolInv, AdmittedFits, ManagementTells
<1> QED BY <1>6, <1>8, <1>9, <1>10, <1>11 DEF ToolInv

-----------------------------------------------------------------------------
(* The theorems *)

\* Nothing has been submitted, run or delivered at first.
LEMMA ToolInit == Init => ToolInv
<1> SUFFICES ASSUME Init PROVE ToolInv
  OBVIOUS
<1>1. attempts \in [Attempts -> AttemptRecords] /\ AttemptsFit
  BY FreeAttempt DEF Init, AttemptsFit
<1>2. NoDelivery \in DeliveryRecords /\ NoDelivery.stage = "free"
  BY DEF NoDelivery, DeliveryRecords
<1>3. deliveries \in [Deliveries -> DeliveryRecords] /\ \A d \in Deliveries : deliveries[d].stage = "free"
  BY <1>2 DEF Init
<1>4. DeliveriesFit
  BY <1>3 DEF DeliveriesFit, DeliveryFits
<1>5. machine \in Machines /\ machine.routed /\ row \in JournalRows
  BY DEF Init, Machines, JournalRows
<1>6. ToolTypes
  BY <1>1, <1>3, <1>5 DEF Init, ToolTypes
<1>7. RowFits /\ AdmittedFits /\ ManagementTells
  BY <1>5 DEF Init, RowFits, AdmittedFits, ManagementTells, Ended
<1> QED BY <1>1, <1>4, <1>6, <1>7 DEF ToolInv

\* Every step of the host, the workers, the gateway, the daemon and the deliveries keeps the invariant.
LEMMA ToolStep ==
  ASSUME ToolInv, [Next]_vars
  PROVE  ToolInv'
<1>1. ASSUME NEW a \in Attempts, Attempt(a) \/ Proceeds(a) PROVE ToolInv'
  BY <1>1, AttemptStep, ProceedsStep, AcceptStep, CommitStep DEF Proceeds
<1>2. ASSUME NEW d \in Deliveries, Delivers(d) \/ LoseDelivery(d) PROVE ToolInv'
  BY <1>2, FormatStep, AdmitStep, AcknowledgeStep DEF Delivers
<1>3. CASE Binding \/ GiveUp \/ ActivationLoss \/ \E a \in Attempts : Lose(a)
  BY <1>3, AttemptsEnd, PrepareStep DEF Binding
<1>4. CASE Finish \/ Restart
  BY <1>4, EndStep
<1>5. CASE Connect \/ Disconnect \/ Manage \/ RestoreRoutes
  BY <1>5, MachineStep
<1>6. CASE Quarantine \/ ExceedHorizon \/ Retry
  BY <1>6, QuarantineStep
<1>7. CASE UNCHANGED vars
  <2>1. /\ UNCHANGED <<op, bound, attempts, admitted, blocked, machine, row, effect, deliveries, image>>
        /\ (Managed' <=> Managed)
    BY <1>7 DEF vars, Managed
  <2>2. AttemptsFit'
    BY <2>1, AttemptsMove DEF ToolInv
  <2>3. ToolTypes' /\ RowFits' /\ AdmittedFits' /\ DeliveriesFit' /\ ManagementTells'
    BY <2>1 DEF ToolInv, ToolTypes, RowFits, AdmittedFits, DeliveriesFit, ManagementTells
  <2> QED BY <2>2, <2>3 DEF ToolInv
<1> QED BY <1>1, <1>2, <1>3, <1>4, <1>5, <1>6, <1>7 DEF Next, Submitting, Delivering

\* The invariant holds throughout.
LEMMA ToolsAlwaysFit == Spec => []ToolInv
<1>1. ToolInv /\ [Next]_vars => ToolInv'
  BY ToolStep
<1> QED BY <1>1, ToolInit, PTL DEF Spec

\* What the model is told of a tool call is true, for every tool, result, restart, loss
\* and repetition: done means that the work was done, nothing that none of it was
\* (terminalOutcome of the workers, recover of the daemon).
THEOREM ToolsTellTheTruth == Spec => []ToldTheTruth
<1>1. ToolInv => ToldTheTruth
  <2> SUFFICES ASSUME ToolInv, admitted # None, admitted.origin = "execution"
               PROVE  /\ admitted.tells = "done" => effect = "all"
                      /\ admitted.tells = "nothing" /\ op.kind # "read" => effect = "none"
    BY DEF ToldTheTruth
  <2>0. /\ op \in [kind : Kinds, input : {"plain", "invalid", "huge", "unsupported"}]
        /\ op.kind \in Kinds /\ RowFits
    BY DEF ToolInv, ToolTypes
  <2>1. CASE op.input # "plain" /\ admitted = OwnOutcome(op)
    <3>1. admitted.tells = "nothing"
      BY <2>0, <2>1, OwnOutcomes
    <3>2. effect = "none"
      BY <2>0, <2>1 DEF RowFits
    <3> QED BY <3>1, <3>2
  <2>2. CASE Ended(row) /\ admitted = TerminalOutcome(op.kind, row.native)
    <3>1. <<row.native, effect>> \in AllEnds(op.kind)
      BY <2>0, <2>2 DEF RowFits
    <3> QED BY <2>0, <2>2, <3>1, OutcomesAreTrue
  <2> QED BY <2>1, <2>2 DEF ToolInv, AdmittedFits
<1> QED BY <1>1, ToolsAlwaysFit, PTL

\* A rejected tool call has not run and never will, also through an attempt that the
\* driver gave up, and no rejection meets an admitted outcome, unless the machine was
\* deleted or the gateway lost its callback routes (which errors a worker's submit
\* reports as a rejection, what the driver commits).
THEOREM ToolRejectionsAreSafe == Spec => []RejectionsAreSafe
<1>1. ToolInv => RejectionsAreSafe
  <2> SUFFICES ASSUME ToolInv, ~Managed
               PROVE  /\ ~blocked
                      /\ admitted # None /\ admitted.origin = "submission" => row.state = "absent"
    BY DEF RejectionsAreSafe
  <2>0. op.kind \in Kinds /\ RowFits /\ AdmittedFits
    BY DEF ToolInv, ToolTypes
  <2>1. ~blocked
    BY DEF ToolInv, ManagementTells
  <2>2. ASSUME Ended(row), admitted = TerminalOutcome(op.kind, row.native)
        PROVE  admitted.origin = "execution"
    BY <2>0, <2>2, OutcomesAreTrue DEF RowFits
  <2>3. admitted # None /\ admitted.origin = "submission" => op.input # "plain"
    BY <2>0, <2>2 DEF AdmittedFits
  <2> QED BY <2>0, <2>1, <2>3 DEF RowFits
<1> QED BY <1>1, ToolsAlwaysFit, PTL

\* A tool call runs only in the generation that the session pinned, the daemon lets go of
\* its result only when the session holds it, and every delivery under way carries the
\* outcome that the session holds (session-execution, acceptExecutionResult, images.ts).
THEOREM ToolsAdmittedWhereBound == Spec => []AdmittedWhereBound
<1>1. ToolInv => AdmittedWhereBound
  <2> SUFFICES ASSUME ToolInv PROVE AdmittedWhereBound
    OBVIOUS
  <2>1. OnlyInBoundGeneration
    BY DEF ToolInv, RowFits, OnlyInBoundGeneration
  <2>2. row.state = "delivered" => admitted # None /\ admitted.origin = "execution"
    BY DEF ToolInv, RowFits
  <2>3. ASSUME NEW d \in Deliveries, deliveries[d].stage = "formatted", admitted # None, ~Managed
        PROVE  deliveries[d].outcome = admitted
    <3>1. Ended(row) /\ deliveries[d].outcome = TerminalOutcome(op.kind, row.native)
      BY <2>3 DEF ToolInv, DeliveriesFit, DeliveryFits
    <3>2. op.input = "plain"
      BY <3>1 DEF ToolInv, RowFits, Ended
    <3> QED BY <2>3, <3>1, <3>2 DEF ToolInv, AdmittedFits
  <2> QED BY <2>1, <2>2, <2>3 DEF AdmittedWhereBound, AcknowledgedIsAdmitted
<1> QED BY <1>1, ToolsAlwaysFit, PTL

-----------------------------------------------------------------------------
(* The output of an execution: sequences of chunks                         *)
(*                                                                         *)
(* FlattenSeq is a recursive function on the positions of a sequence.  That *)
(* it exists is shown by the least position without it; what the proofs    *)
(* need of it is what it does with one more chunk.                         *)

Pieces == Seq(Seq(Int))

Follows(f, s, n) ==
  \A i \in 1 .. n : f[i] = IF i = 1 THEN s[i] ELSE f[i-1] \o s[i]

\* A set of naturals has a least element.
LEMMA LeastNatural ==
  ASSUME NEW T, T \subseteq Nat, T # {}
  PROVE  \E x \in T : \A y \in T : x <= y
<1> DEFINE R == OpToRel(<, Nat)
<1>1. IsWellFoundedOn(R, Nat)
  BY NatLessThanWellFounded
<1> HIDE DEF R
<1>2. PICK x \in T : \A y \in T : <<y, x>> \notin R
  BY <1>1, WFMin
<1>3. ASSUME NEW y \in T PROVE x <= y
  <2>1. x \in Nat /\ y \in Nat /\ <<y, x>> \notin R
    BY <1>2
  <2>2. ~(y < x)
    BY <2>1 DEF R, OpToRel
  <2> QED BY <2>1, <2>2
<1> QED
  BY <1>3

LEMMA FlattenExists ==
  ASSUME NEW s, NEW m \in Nat
  PROVE  \E f : f = [i \in 1 .. m |-> IF i = 1 THEN s[i] ELSE f[i-1] \o s[i]]
<1> DEFINE Partial(n) == \E f : f = [i \in 1 .. n |-> IF i = 1 THEN s[i] ELSE f[i-1] \o s[i]]
           T == {n \in Nat : ~Partial(n)}
<1> SUFFICES ASSUME ~Partial(m) PROVE FALSE
  OBVIOUS
<1>1. PICK n \in T : \A k \in T : n <= k
  <2>1. m \in T /\ T \subseteq Nat
    OBVIOUS
  <2> HIDE DEF T
  <2> QED BY <2>1, LeastNatural
<1>2. CASE n = 0
  <2> DEFINE f == [i \in 1 .. n |-> 0]
             h == [i \in 1 .. n |-> IF i = 1 THEN s[i] ELSE f[i-1] \o s[i]]
  <2>1. \A i \in 1 .. n : FALSE
    BY <1>2
  <2>2. f = h
    BY <2>1
  <2>3. f = [i \in 1 .. n |-> IF i = 1 THEN s[i] ELSE f[i-1] \o s[i]]
    BY <2>2
  <2>4. \E f1 : f1 = [i \in 1 .. n |-> IF i = 1 THEN s[i] ELSE f1[i-1] \o s[i]]
    <3> HIDE DEF f
    <3> WITNESS f
    <3> QED BY <2>3
  <2> QED BY <1>1, <2>4
<1>3. CASE n # 0
  <2>1. n - 1 \in Nat /\ n \in Nat /\ Partial(n - 1)
    <3> HIDE DEF Partial
    <3>1. n \in Nat /\ \A k \in Nat : ~Partial(k) => n <= k
      BY <1>1
    <3> QED BY <1>3, <3>1
  <2>2. PICK f : f = [i \in 1 .. n - 1 |-> IF i = 1 THEN s[i] ELSE f[i-1] \o s[i]]
    BY <2>1
  <2> DEFINE g == [i \in 1 .. n |-> IF i < n THEN f[i] ELSE IF i = 1 THEN s[i] ELSE f[i-1] \o s[i]]
             h == [i \in 1 .. n |-> IF i = 1 THEN s[i] ELSE g[i-1] \o s[i]]
  <2>3. ASSUME NEW i \in 1 .. n
        PROVE  g[i] = IF i = 1 THEN s[i] ELSE g[i-1] \o s[i]
    <3>1. CASE i < n
      <4>1. i \in 1 .. n - 1 /\ g[i] = f[i]
        BY <2>1, <3>1
      <4>2. i # 1 => i - 1 \in 1 .. n /\ i - 1 < n /\ g[i-1] = f[i-1]
        BY <2>1, <3>1
      <4>3. f[i] = IF i = 1 THEN s[i] ELSE f[i-1] \o s[i]
        BY <2>2, <4>1
      <4> QED BY <4>1, <4>2, <4>3
    <3>2. CASE i = n
      <4>1. i # 1 => i - 1 \in 1 .. n /\ i - 1 < n /\ g[i-1] = f[i-1]
        BY <2>1, <3>2
      <4> QED BY <2>1, <3>2, <4>1
    <3> QED BY <2>1, <3>1, <3>2
  <2>4. g = h
    BY <2>3
  <2>5. Partial(n)
    BY <2>4
  <2> QED BY <1>1, <2>5
<1> QED BY <1>2, <1>3

LEMMA FlattenAgrees ==
  ASSUME NEW n \in Nat, NEW f, NEW g, NEW s, NEW t, Follows(f, s, n), Follows(g, t, n),
         \A i \in 1 .. n : s[i] = t[i]
  PROVE  \A i \in 1 .. n : f[i] = g[i]
<1> DEFINE T == {i \in 1 .. n : f[i] # g[i]}
<1> SUFFICES ASSUME T # {} PROVE FALSE
  OBVIOUS
<1>1. PICK m \in T : \A k \in T : m <= k
  <2>1. T \subseteq Nat
    OBVIOUS
  <2> HIDE DEF T
  <2> QED BY <2>1, LeastNatural
<1>2. m \in 1 .. n /\ f[m] # g[m] /\ s[m] = t[m]
  BY <1>1
<1>3. m # 1 => m - 1 \in 1 .. n /\ f[m-1] = g[m-1]
  BY <1>1, <1>2
<1> QED
  BY <1>2, <1>3 DEF Follows

LEMMA FlattenOf ==
  ASSUME NEW s \in Pieces, s # <<>>
  PROVE  \E f : Follows(f, s, Len(s)) /\ FlattenSeq(s) = f[Len(s)]
<1> DEFINE Is(f) == f = [i \in 1 .. Len(s) |-> IF i = 1 THEN s[i] ELSE f[i-1] \o s[i]]
           f0 == CHOOSE f : Is(f)
<1>1. Len(s) \in Nat /\ Len(s) # 0
  BY EmptySeq DEF Pieces
<1>2. \E f : Is(f)
  BY <1>1, FlattenExists
<1>3. Is(f0)
  BY <1>2
<1>4. FlattenSeq(s) = f0[Len(s)]
  BY <1>1 DEF FlattenSeq
<1>5. Follows(f0, s, Len(s))
  <2> HIDE DEF f0
  <2> QED BY <1>3 DEF Follows
<1> QED BY <1>4, <1>5

LEMMA FlattenNothing == FlattenSeq(<<>>) = <<>>
  BY DEF FlattenSeq

\* One more chunk comes last.
LEMMA FlattenAppend ==
  ASSUME NEW s \in Pieces, NEW x \in Seq(Int)
  PROVE  FlattenSeq(Append(s, x)) = FlattenSeq(s) \o x
<1> DEFINE r == Append(s, x)
           n == Len(s)
<1>1. /\ r \in Pieces /\ r # <<>> /\ Len(r) = n + 1 /\ n \in Nat /\ r[n + 1] = x
      /\ \A i \in 1 .. n : r[i] = s[i]
  BY AppendProperties, LenProperties DEF Pieces
<1> HIDE DEF r
<1>2. PICK g : Follows(g, r, Len(r)) /\ FlattenSeq(r) = g[Len(r)]
  BY <1>1, FlattenOf
<1>3. g[n + 1] = IF n + 1 = 1 THEN x ELSE g[n] \o x
  <2>1. n + 1 \in 1 .. Len(r) /\ (n + 1) - 1 = n
    BY <1>1
  <2> QED BY <1>1, <1>2, <2>1 DEF Follows
<1>4. CASE s = <<>>
  <2>1. n = 0 /\ <<>> \o x = x
    BY <1>4, ConcatEmptySeq
  <2> QED BY <1>1, <1>2, <1>3, <1>4, <2>1, FlattenNothing DEF r
<1>5. CASE s # <<>>
  <2>1. n # 0
    BY <1>5, EmptySeq DEF Pieces
  <2>2. PICK f : Follows(f, s, n) /\ FlattenSeq(s) = f[n]
    BY <1>5, FlattenOf
  <2>3. Follows(g, r, n)
    BY <1>1, <1>2 DEF Follows
  <2>4. f[n] = g[n]
    <3>1. \A i \in 1 .. n : f[i] = g[i]
      BY <1>1, <2>2, <2>3, FlattenAgrees
    <3> QED BY <1>1, <2>1, <3>1
  <2> QED BY <1>1, <1>2, <1>3, <2>1, <2>2, <2>4 DEF r
<1> QED BY <1>4, <1>5

\* Sequences of chunks grow by one chunk at a time.
LEMMA PiecesGrow ==
  ASSUME NEW G, <<>> \in G, \A s \in Pieces, x \in Seq(Int) : s \in G => Append(s, x) \in G
  PROVE  Pieces \subseteq G
<1> DEFINE T == {n \in Nat : \E s \in Pieces : s \notin G /\ Len(s) = n}
<1> SUFFICES ASSUME NEW s0 \in Pieces, s0 \notin G PROVE FALSE
  OBVIOUS
<1>1. PICK n \in T : \A k \in T : n <= k
  <2>1. Len(s0) \in T /\ T \subseteq Nat
    BY LenProperties DEF Pieces
  <2> HIDE DEF T
  <2> QED BY <2>1, LeastNatural
<1>2. PICK s \in Pieces : s \notin G /\ Len(s) = n
  BY <1>1
<1>3. PICK r \in Pieces, x \in Seq(Int) : s = Append(r, x)
  BY <1>2, SequenceEmptyOrAppend DEF Pieces
<1>4. Len(s) = Len(r) + 1 /\ Len(r) \in Nat
  BY <1>3, AppendProperties, LenProperties DEF Pieces
<1>5. Len(r) \notin T
  BY <1>1, <1>2, <1>4
<1>6. r \in G
  BY <1>4, <1>5
<1> QED BY <1>2, <1>3, <1>6

LEMMA FlattenType ==
  \A s \in Pieces : FlattenSeq(s) \in Seq(Int) /\ Size(s) \in Nat
<1> DEFINE G == {s \in Pieces : FlattenSeq(s) \in Seq(Int)}
<1>1. <<>> \in G
  <2>1. <<>> \in Pieces /\ <<>> \in Seq(Int)
    BY EmptySeq DEF Pieces
  <2> QED BY <2>1, FlattenNothing
<1>2. ASSUME NEW s \in Pieces, NEW x \in Seq(Int), s \in G
      PROVE  Append(s, x) \in G
  <2>1. Append(s, x) \in Pieces
    BY AppendProperties DEF Pieces
  <2>2. FlattenSeq(s) \o x \in Seq(Int)
    BY <1>2, ConcatProperties
  <2> QED BY <2>1, <2>2, FlattenAppend
<1>3. Pieces \subseteq G
  <2> HIDE DEF G
  <2> QED BY <1>1, <1>2, PiecesGrow
<1> QED BY <1>3, LenProperties DEF Size

\* What is before a chunk does not depend on the chunks that come later.
LEMMA BeforeAppend ==
  ASSUME NEW s \in Pieces, NEW x \in Seq(Int)
  PROVE  /\ \A i \in 1 .. Len(s) : Before(Append(s, x), i) = Before(s, i)
         /\ Before(Append(s, x), Len(s) + 1) = Size(s)
<1> DEFINE r == Append(s, x)
           n == Len(s)
<1>1. /\ r \in Pieces /\ Len(r) = n + 1 /\ n \in Nat
      /\ \A i \in 1 .. n : r[i] = s[i] /\ s[i] \in Seq(Int)
  BY AppendProperties, LenProperties, ElementOfSeq DEF Pieces
<1> HIDE DEF r
<1>2. ASSUME NEW k \in 0 .. n
      PROVE  SubSeq(r, 1, k) = SubSeq(s, 1, k)
  <2>1. \A i \in 1 .. k : r[i] \in Seq(Int) /\ s[i] \in Seq(Int) /\ r[i] = s[i]
    BY <1>1
  <2>2. k \in Int /\ 1 \in Int
    OBVIOUS
  <2>3. /\ SubSeq(r, 1, k) \in Pieces /\ Len(SubSeq(r, 1, k)) = (IF 1 <= k THEN k - 1 + 1 ELSE 0)
        /\ \A i \in 1 .. k - 1 + 1 : SubSeq(r, 1, k)[i] = r[1 + i - 1]
    BY <2>1, <2>2, SubSeqProperties DEF Pieces
  <2>4. /\ SubSeq(s, 1, k) \in Pieces /\ Len(SubSeq(s, 1, k)) = (IF 1 <= k THEN k - 1 + 1 ELSE 0)
        /\ \A i \in 1 .. k - 1 + 1 : SubSeq(s, 1, k)[i] = s[1 + i - 1]
    BY <2>1, <2>2, SubSeqProperties DEF Pieces
  <2>5. /\ Len(SubSeq(r, 1, k)) = k /\ Len(SubSeq(s, 1, k)) = k
        /\ \A i \in 1 .. k : SubSeq(r, 1, k)[i] = SubSeq(s, 1, k)[i]
    BY <2>1, <2>3, <2>4
  <2> QED BY <2>3, <2>4, <2>5, SeqEqual DEF Pieces
<1>3. ASSUME NEW i \in 1 .. n PROVE Before(r, i) = Before(s, i)
  <2>1. i - 1 \in 0 .. n
    BY <1>1
  <2> QED BY <1>2, <2>1 DEF Before
<1>4. Before(r, n + 1) = Size(s)
  <2>1. n \in 0 .. n /\ (n + 1) - 1 = n
    BY <1>1
  <2>2. SubSeq(s, 1, n) = s
    BY SubSeqFull DEF Pieces
  <2> QED BY <1>2, <2>1, <2>2 DEF Before
<1> QED BY <1>3, <1>4 DEF r

\* Where a piece of a chunk begins and ends.
Enters(before, from)   == Greater(0, from - before)
Leaves(len, before, to) == Lesser(len, to - before)

PieceIs(x, before, from, to) ==
  /\ Piece(x, before, from, to) \in Seq(Int)
  /\ Enters(before, from) \in Nat /\ Leaves(Len(x), before, to) \in Int
  /\ Len(Piece(x, before, from, to)) = Greater(0, Leaves(Len(x), before, to) - Enters(before, from))
  /\ \A i \in 1 .. Leaves(Len(x), before, to) - Enters(before, from) :
       Piece(x, before, from, to)[i] = x[Enters(before, from) + i]

LEMMA PieceType ==
  ASSUME NEW x \in Seq(Int), NEW before \in Int, NEW from \in Int, NEW to \in Int
  PROVE  PieceIs(x, before, from, to)
<1> DEFINE lo == Enters(before, from)
           m == 1 + lo
           n == Leaves(Len(x), before, to)
<1>1. Len(x) \in Nat /\ \A i \in 1 .. Len(x) : x[i] \in Int
  BY LenProperties, ElementOfSeq
<1>2. lo \in Nat /\ m \in Int /\ n \in Int /\ m >= 1 /\ n <= Len(x) /\ m = 1 + lo
  BY <1>1 DEF Greater, Lesser, Enters, Leaves
<1>3. \A i \in m .. n : x[i] \in Int
  BY <1>1, <1>2
<1>5. Piece(x, before, from, to) = SubSeq(x, m, n)
  BY DEF Piece, Enters, Leaves
<1> HIDE DEF lo, m, n
<1>4. /\ SubSeq(x, m, n) \in Seq(Int)
      /\ Len(SubSeq(x, m, n)) = IF m <= n THEN n - m + 1 ELSE 0
      /\ \A i \in 1 .. n - m + 1 : SubSeq(x, m, n)[i] = x[m + i - 1]
  BY <1>2, <1>3, SubSeqProperties
<1>6. Len(SubSeq(x, m, n)) = Greater(0, n - lo)
  BY <1>2, <1>4 DEF Greater
<1>7. \A i \in 1 .. n - lo : SubSeq(x, m, n)[i] = x[lo + i]
  <2> SUFFICES ASSUME NEW i \in 1 .. n - lo PROVE SubSeq(x, m, n)[i] = x[lo + i]
    OBVIOUS
  <2>1. n - m + 1 = n - lo /\ m + i - 1 = lo + i
    BY <1>2
  <2> QED BY <1>4, <2>1
<1> QED BY <1>2, <1>4, <1>5, <1>6, <1>7 DEF lo, n, PieceIs

\* Where the pieces of two neighbours begin and end.
PiecesMeet(p, k, l, q, from, to, na) ==
  /\ na \in Nat
  /\ Greater(0, Leaves(k + l, p, to) - Enters(p, from))
       = na + Greater(0, Leaves(l, q, to) - Enters(q, from))
  /\ \A i \in Nat :
       1 <= i /\ i <= Greater(0, Leaves(k + l, p, to) - Enters(p, from)) =>
       /\ i \in 1 .. Leaves(k + l, p, to) - Enters(p, from)
       /\ Enters(p, from) + i \in 1 .. k + l
       /\ i <= na => i \in 1 .. Leaves(k, p, to) - Enters(p, from) /\ Enters(p, from) + i <= k
       /\ i > na => /\ i - na \in 1 .. Leaves(l, q, to) - Enters(q, from)
                    /\ Enters(p, from) + i > k
                    /\ Enters(q, from) + (i - na) = (Enters(p, from) + i) - k

LEMMA PieceNumbers ==
  ASSUME NEW p \in Int, NEW k \in Nat, NEW l \in Nat, NEW q, q = p + k,
         NEW from \in Int, NEW to \in Int, NEW na,
         na = Greater(0, Leaves(k, p, to) - Enters(p, from))
  PROVE  PiecesMeet(p, k, l, q, from, to, na)
  BY DEF Lesser, Greater, Enters, Leaves, PiecesMeet

ConcatPieces(p, a, b, q, from, to) ==
  Piece(a \o b, p, from, to) = Piece(a, p, from, to) \o Piece(b, q, from, to)

\* A cut through two sequences is the cuts through each.
LEMMA PieceOfConcat ==
  ASSUME NEW p \in Int, NEW a \in Seq(Int), NEW b \in Seq(Int), NEW q, q = p + Len(a),
         NEW from \in Int, NEW to \in Int
  PROVE  ConcatPieces(p, a, b, q, from, to)
<1> DEFINE c == a \o b
           k == Len(a)
           l == Len(b)
           pa == Piece(a, p, from, to)
           pb == Piece(b, q, from, to)
           pc == Piece(c, p, from, to)
           na == Len(pa)
           f == Enters(p, from)
<1>1. /\ c \in Seq(Int) /\ Len(c) = k + l /\ k \in Nat /\ l \in Nat
      /\ \A i \in 1 .. k + l : c[i] = IF i <= k THEN a[i] ELSE b[i - k]
  BY ConcatProperties, LenProperties
<1>2. q \in Int /\ q = p + k
  BY <1>1
<1>3. /\ pa \in Seq(Int) /\ f \in Nat /\ na = Greater(0, Leaves(k, p, to) - f)
      /\ \A i \in 1 .. Leaves(k, p, to) - f : pa[i] = a[f + i]
  <2>1. PieceIs(a, p, from, to)
    BY PieceType
  <2> QED BY <2>1 DEF PieceIs
<1>4. /\ pb \in Seq(Int) /\ Len(pb) = Greater(0, Leaves(l, q, to) - Enters(q, from))
      /\ \A i \in 1 .. Leaves(l, q, to) - Enters(q, from) : pb[i] = b[Enters(q, from) + i]
  <2>1. PieceIs(b, q, from, to)
    BY <1>2, PieceType
  <2> QED BY <2>1 DEF PieceIs
<1>5. /\ pc \in Seq(Int) /\ Len(pc) = Greater(0, Leaves(k + l, p, to) - f)
      /\ \A i \in 1 .. Leaves(k + l, p, to) - f : pc[i] = c[f + i]
  <2> HIDE DEF c
  <2>1. PieceIs(c, p, from, to)
    BY <1>1, PieceType
  <2> QED BY <1>1, <2>1 DEF PieceIs
<1> HIDE DEF c, k, l, pa, pb, pc, na
<1>6. /\ na \in Nat
      /\ Greater(0, Leaves(k + l, p, to) - f) = na + Greater(0, Leaves(l, q, to) - Enters(q, from))
      /\ \A i \in Nat :
           1 <= i /\ i <= Greater(0, Leaves(k + l, p, to) - f) =>
           /\ i \in 1 .. Leaves(k + l, p, to) - f
           /\ f + i \in 1 .. k + l
           /\ i <= na => i \in 1 .. Leaves(k, p, to) - f /\ f + i <= k
           /\ i > na => /\ i - na \in 1 .. Leaves(l, q, to) - Enters(q, from)
                        /\ f + i > k
                        /\ Enters(q, from) + (i - na) = (f + i) - k
  <2>1. PiecesMeet(p, k, l, q, from, to, na)
    BY <1>1, <1>2, <1>3, PieceNumbers
  <2> QED BY <2>1 DEF PiecesMeet
<1> HIDE DEF f
<1>8. /\ pa \o pb \in Seq(Int) /\ Len(pa \o pb) = na + Len(pb)
      /\ \A i \in 1 .. na + Len(pb) :
           (pa \o pb)[i] = IF i <= na THEN pa[i] ELSE pb[i - na]
  BY <1>3, <1>4, ConcatProperties DEF na
<1>10. Len(pc) = na + Len(pb)
  BY <1>4, <1>5, <1>6
<1>9. ASSUME NEW i \in 1 .. Len(pc)
      PROVE  pc[i] = (pa \o pb)[i]
  <2>1. i \in Nat /\ 1 <= i /\ i <= Greater(0, Leaves(k + l, p, to) - f)
    BY <1>5, <1>9
  <2>2. /\ i \in 1 .. Leaves(k + l, p, to) - f
        /\ f + i \in 1 .. k + l
        /\ i <= na => i \in 1 .. Leaves(k, p, to) - f /\ f + i <= k
        /\ i > na => /\ i - na \in 1 .. Leaves(l, q, to) - Enters(q, from)
                     /\ f + i > k
                     /\ Enters(q, from) + (i - na) = (f + i) - k
    BY <1>6, <2>1
  <2>3. /\ pc[i] = c[f + i]
        /\ c[f + i] = IF f + i <= k THEN a[f + i] ELSE b[(f + i) - k]
        /\ (pa \o pb)[i] = IF i <= na THEN pa[i] ELSE pb[i - na]
    <3>1. pc[i] = c[f + i]
      BY <1>5, <2>2
    <3>2. c[f + i] = IF f + i <= k THEN a[f + i] ELSE b[(f + i) - k]
      BY <1>1, <2>2
    <3>3. (pa \o pb)[i] = IF i <= na THEN pa[i] ELSE pb[i - na]
      BY <1>8, <1>9, <1>10
    <3> QED BY <3>1, <3>2, <3>3
  <2>4. CASE i <= na
    <3>1. pa[i] = a[f + i] /\ f + i <= k
      BY <1>3, <2>2, <2>4
    <3> QED BY <2>3, <2>4, <3>1
  <2>5. CASE i > na
    <3>1. pb[i - na] = b[(f + i) - k] /\ f + i > k
      <4>1. i - na \in 1 .. Leaves(l, q, to) - Enters(q, from)
        BY <2>2, <2>5
      <4>2. pb[i - na] = b[Enters(q, from) + (i - na)]
        BY <1>4, <4>1
      <4> QED BY <2>2, <2>5, <4>2
    <3>2. ~(i <= na) /\ ~(f + i <= k)
      BY <1>1, <1>3, <1>6, <2>1, <2>5, <3>1
    <3> QED BY <2>3, <3>1, <3>2
  <2>6. i <= na \/ i > na
    <3>1. na \in Nat /\ i \in Nat
      BY <1>6, <2>1
    <3> QED BY <3>1
  <2> QED BY <2>4, <2>5, <2>6
<1>11. pc = pa \o pb
  BY <1>5, <1>8, <1>9, <1>10, SeqEqual
<1> QED BY <1>11 DEF pa, pb, pc, c, k, ConcatPieces

LEMMA CutType ==
  ASSUME NEW s \in Pieces, NEW from \in Int, NEW to \in Int
  PROVE  /\ Cut(s, from, to) \in Pieces /\ Len(Cut(s, from, to)) = Len(s)
         /\ \A i \in 1 .. Len(s) : Cut(s, from, to)[i] = Piece(s[i], Before(s, i), from, to)
<1>1. Len(s) \in Nat /\ DOMAIN s = 1 .. Len(s) /\ \A i \in 1 .. Len(s) : s[i] \in Seq(Int)
  BY LenProperties, ElementOfSeq DEF Pieces
<1>2. ASSUME NEW i \in 1 .. Len(s)
      PROVE  Piece(s[i], Before(s, i), from, to) \in Seq(Int)
  <2>1. \A k \in 1 .. i - 1 : s[k] \in Seq(Int)
    BY <1>1
  <2>2. i - 1 \in Int /\ 1 \in Int
    BY <1>1
  <2>3. SubSeq(s, 1, i - 1) \in Pieces
    BY <2>1, <2>2, SubSeqProperties DEF Pieces
  <2>4. Before(s, i) \in Int
    BY <2>3, FlattenType DEF Before
  <2>5. PieceIs(s[i], Before(s, i), from, to)
    BY <1>1, <2>4, PieceType
  <2> QED BY <2>5 DEF PieceIs
<1>3. Cut(s, from, to) \in [1 .. Len(s) -> Seq(Int)]
  BY <1>1, <1>2 DEF Cut
<1>4. /\ Cut(s, from, to) \in Pieces
      /\ DOMAIN Cut(s, from, to) = 1 .. Len(s)
  <2> DEFINE c == Cut(s, from, to)
             n == Len(s)
  <2>1. n \in Nat /\ c \in [1 .. n -> Seq(Int)]
    BY <1>1, <1>3
  <2> HIDE DEF c, n
  <2>2. c \in Seq(Seq(Int)) /\ DOMAIN c = 1 .. n
    BY <2>1, SeqDef
  <2> QED BY <2>2 DEF Pieces, c, n
<1>5. Len(Cut(s, from, to)) = Len(s)
  <2>1. DOMAIN Cut(s, from, to) = 1 .. Len(Cut(s, from, to)) /\ Len(Cut(s, from, to)) \in Nat
    BY <1>4, LenProperties DEF Pieces
  <2> QED BY <1>1, <1>4, <2>1
<1> QED BY <1>1, <1>4, <1>5 DEF Cut

LEMMA CutAppend ==
  ASSUME NEW s \in Pieces, NEW x \in Seq(Int), NEW from \in Int, NEW to \in Int
  PROVE  /\ Cut(Append(s, x), from, to) = Append(Cut(s, from, to), Piece(x, Size(s), from, to))
         /\ Piece(x, Size(s), from, to) \in Seq(Int)
<1> DEFINE r == Append(s, x)
           n == Len(s)
           c == Cut(s, from, to)
           d == Cut(r, from, to)
           p == Piece(x, Size(s), from, to)
<1>1. /\ r \in Pieces /\ Len(r) = n + 1 /\ n \in Nat /\ r[n + 1] = x
      /\ \A i \in 1 .. n : r[i] = s[i]
  BY AppendProperties, LenProperties DEF Pieces
<1>2. /\ \A i \in 1 .. n : Before(r, i) = Before(s, i)
      /\ Before(r, n + 1) = Size(s)
  BY BeforeAppend
<1> HIDE DEF r
<1>3. p \in Seq(Int)
  <2>1. Size(s) \in Int
    BY FlattenType
  <2>2. PieceIs(x, Size(s), from, to)
    BY <2>1, PieceType
  <2> QED BY <2>2 DEF PieceIs
<1>4. /\ c \in Pieces /\ Len(c) = n
      /\ \A i \in 1 .. n : c[i] = Piece(s[i], Before(s, i), from, to)
  BY CutType
<1>5. /\ d \in Pieces /\ Len(d) = n + 1
      /\ \A i \in 1 .. n + 1 : d[i] = Piece(r[i], Before(r, i), from, to)
  BY <1>1, CutType
<1> HIDE DEF c, d, p, n
<1>6. /\ Append(c, p) \in Pieces /\ Len(Append(c, p)) = n + 1 /\ Append(c, p)[n + 1] = p
      /\ \A i \in 1 .. n : Append(c, p)[i] = c[i]
  <2> DEFINE S == Seq(Int)
  <2>1. c \in Seq(S) /\ p \in S
    BY <1>3, <1>4 DEF Pieces
  <2> HIDE DEF S
  <2>2. /\ Append(c, p) \in Seq(S) /\ Len(Append(c, p)) = Len(c) + 1
        /\ Append(c, p)[Len(c) + 1] = p
        /\ \A i \in 1 .. Len(c) : Append(c, p)[i] = c[i]
    BY <2>1, AppendProperties
  <2> QED BY <1>4, <2>2 DEF Pieces, S
<1>7. ASSUME NEW i \in 1 .. n + 1
      PROVE  d[i] = Append(c, p)[i]
  <2>1. CASE i \in 1 .. n
    BY <1>1, <1>2, <1>4, <1>5, <1>6, <2>1
  <2>2. CASE i = n + 1
    BY <1>1, <1>2, <1>5, <1>6, <2>2 DEF p
  <2>3. i \in 1 .. n \/ i = n + 1
    <3>1. n \in Nat
      BY <1>1
    <3> QED BY <3>1
  <2> QED BY <2>1, <2>2, <2>3
<1>8. d = Append(c, p)
  BY <1>5, <1>6, <1>7, SeqEqual DEF Pieces
<1> QED BY <1>3, <1>8 DEF c, d, p, r

\* A cut of all chunks is a piece of what they hold together.
LEMMA FlattenCut ==
  ASSUME NEW from \in Int, NEW to \in Int
  PROVE  \A s \in Pieces : FlattenSeq(Cut(s, from, to)) = Piece(FlattenSeq(s), 0, from, to)
<1> DEFINE G == {s \in Pieces : FlattenSeq(Cut(s, from, to)) = Piece(FlattenSeq(s), 0, from, to)}
<1>0. <<>> \in Pieces /\ <<>> \in Seq(Int) /\ Len(<<>>) = 0
  BY EmptySeq DEF Pieces
<1>1. <<>> \in G
  <2>1. Cut(<<>>, from, to) = <<>>
    <3>1. Cut(<<>>, from, to) \in Seq(Seq(Int)) /\ Len(Cut(<<>>, from, to)) = 0
      BY <1>0, CutType DEF Pieces
    <3> QED BY <3>1, EmptySeq
  <2>2. 1 + Greater(0, from - 0) \in Int /\ Lesser(Len(<<>>), to - 0) \in Int
        /\ Lesser(Len(<<>>), to - 0) < 1 + Greater(0, from - 0)
    BY <1>0 DEF Greater, Lesser
  <2>3. Piece(<<>>, 0, from, to) = <<>>
    BY <2>2, SubSeqEmpty DEF Piece
  <2> QED BY <1>0, <2>1, <2>3, FlattenNothing
<1>2. ASSUME NEW s \in Pieces, NEW x \in Seq(Int), s \in G
      PROVE  Append(s, x) \in G
  <2> DEFINE f == FlattenSeq(s)
             q == Size(s)
             c == Cut(s, from, to)
             p == Piece(x, q, from, to)
  <2>1. f \in Seq(Int) /\ q = 0 + Len(f) /\ Append(s, x) \in Pieces
    BY FlattenType, LenProperties, AppendProperties DEF Size, Pieces
  <2>2. FlattenSeq(Append(s, x)) = f \o x
    BY FlattenAppend
  <2>3. Cut(Append(s, x), from, to) = Append(c, p) /\ p \in Seq(Int) /\ c \in Pieces
    BY CutAppend, CutType
  <2>4. FlattenSeq(Append(c, p)) = FlattenSeq(c) \o p
    BY <2>3, FlattenAppend
  <2>5. FlattenSeq(c) = Piece(f, 0, from, to)
    BY <1>2
  <2> HIDE DEF f, q
  <2>6. Piece(f \o x, 0, from, to) = Piece(f, 0, from, to) \o Piece(x, q, from, to)
    <3>1. f \in Seq(Int) /\ q = 0 + Len(f) /\ 0 \in Int
      BY <2>1
    <3>2. ConcatPieces(0, f, x, q, from, to)
      BY <3>1, PieceOfConcat
    <3> QED BY <3>2 DEF ConcatPieces
  <2> QED BY <2>1, <2>2, <2>3, <2>4, <2>5, <2>6
<1>3. Pieces \subseteq G
  <2> HIDE DEF G
  <2> QED BY <1>1, <1>2, PiecesGrow
<1> QED BY <1>3

\* The first chunk that holds something is where popping stops.
LEMMA PoppedFrom ==
  ASSUME NEW s \in Pieces, NEW f \in 1 .. Len(s), s[f] # <<>>,
         \A k \in 1 .. f - 1 : s[k] = <<>>
  PROVE  Popped(s) = SubSeq(s, f, Len(s))
<1> DEFINE filled == {i \in DOMAIN s : s[i] # <<>>}
           first == CHOOSE i \in filled : \A k \in filled : i <= k
<1>1. Len(s) \in Nat /\ DOMAIN s = 1 .. Len(s)
  BY LenProperties DEF Pieces
<1>2. f \in filled /\ \A k \in filled : f <= k
  BY <1>1
<1>3. filled \subseteq Nat
  BY <1>1
<1> HIDE DEF filled
<1>4. first \in filled /\ \A k \in filled : first <= k
  BY <1>2
<1>5. first = f
  <2>1. first \in Nat /\ f \in Nat /\ first <= f /\ f <= first
    BY <1>2, <1>3, <1>4
  <2> HIDE DEF first
  <2> QED BY <2>1
<1> QED BY <1>2, <1>5 DEF Popped, filled

LEMMA PoppedNothing ==
  ASSUME NEW s \in Pieces, \A i \in 1 .. Len(s) : s[i] = <<>>
  PROVE  Popped(s) = <<>>
<1>1. DOMAIN s = 1 .. Len(s)
  BY LenProperties DEF Pieces
<1>2. {i \in DOMAIN s : s[i] # <<>>} = {}
  BY <1>1
<1> QED BY <1>2 DEF Popped

\* Where the first chunk that holds something is, if there is one.
LEMMA FirstFilled ==
  ASSUME NEW s \in Pieces
  PROVE  \/ \A i \in 1 .. Len(s) : s[i] = <<>>
         \/ \E f \in 1 .. Len(s) : s[f] # <<>> /\ \A k \in 1 .. f - 1 : s[k] = <<>>
<1> DEFINE T == {i \in 1 .. Len(s) : s[i] # <<>>}
<1>1. CASE T = {}
  BY <1>1
<1>2. CASE T # {}
  <2>1. PICK f \in T : \A k \in T : f <= k
    <3>1. T \subseteq Nat
      OBVIOUS
    <3> HIDE DEF T
    <3> QED BY <1>2, <3>1, LeastNatural
  <2>2. f \in 1 .. Len(s) /\ s[f] # <<>>
    BY <2>1
  <2>3. ASSUME NEW k \in 1 .. f - 1 PROVE s[k] = <<>>
    <3>1. Len(s) \in Nat
      BY LenProperties DEF Pieces
    <3>2. k \in 1 .. Len(s) /\ ~(f <= k)
      BY <2>2, <3>1
    <3> QED BY <2>1, <3>2
  <2> QED BY <2>2, <2>3
<1> QED BY <1>1, <1>2

\* A subsequence from one position to the same.
LEMMA SubSeqOfOne ==
  ASSUME NEW S, NEW s, NEW m \in Int, s[m] \in S
  PROVE  SubSeq(s, m, m) \in Seq(S) /\ Len(SubSeq(s, m, m)) = 1 /\ SubSeq(s, m, m)[1] = s[m]
<1>1. ASSUME NEW l \in Int, \A i \in m .. l : s[i] \in S
      PROVE  /\ SubSeq(s, m, l) \in Seq(S)
             /\ Len(SubSeq(s, m, l)) = IF m <= l THEN l - m + 1 ELSE 0
             /\ \A i \in 1 .. l - m + 1 : SubSeq(s, m, l)[i] = s[m + i - 1]
  BY <1>1, SubSeqProperties
<1>2. \A i \in m .. m : s[i] \in S
  OBVIOUS
<1>3. m - m + 1 = 1 /\ m + 1 - 1 = m /\ 1 \in 1 .. m - m + 1 /\ m <= m
  OBVIOUS
<1> QED BY <1>1, <1>2, <1>3

\* One more chunk is popped only if nothing is left before it.
LEMMA PoppedAppend ==
  ASSUME NEW s \in Pieces, NEW x \in Seq(Int)
  PROVE  \/ Popped(Append(s, x)) = Append(Popped(s), x)
         \/ Popped(Append(s, x)) = <<>> /\ Popped(s) = <<>> /\ x = <<>>
<1> DEFINE r == Append(s, x)
           n == Len(s)
<1>1. /\ r \in Pieces /\ Len(r) = n + 1 /\ n \in Nat /\ r[n + 1] = x
      /\ \A i \in 1 .. n : r[i] = s[i]
  BY AppendProperties, LenProperties DEF Pieces
<1> HIDE DEF r
<1>2. \A i \in 1 .. n + 1 : i \in 1 .. n \/ i = n + 1
  BY <1>1
<1>3. CASE \A i \in 1 .. n : s[i] = <<>>
  <2>1. Popped(s) = <<>>
    BY <1>3, PoppedNothing
  <2>2. CASE x = <<>>
    <3>1. \A i \in 1 .. Len(r) : r[i] = <<>>
      BY <1>1, <1>2, <1>3, <2>2
    <3> QED BY <1>1, <2>1, <2>2, <3>1, PoppedNothing DEF r
  <2>3. CASE x # <<>>
    <3>1. n + 1 \in 1 .. Len(r) /\ \A k \in 1 .. (n + 1) - 1 : r[k] = <<>>
      BY <1>1, <1>3
    <3>2. Popped(r) = SubSeq(r, n + 1, Len(r))
      BY <1>1, <2>3, <3>1, PoppedFrom
    <3> DEFINE v == SubSeq(r, n + 1, n + 1)
               S == Seq(Int)
    <3>3. v \in Seq(S) /\ Len(v) = 1 /\ v[1] = x
      <4> HIDE DEF n
      <4>1. n + 1 \in Int /\ r[n + 1] = x /\ x \in S
        BY <1>1
      <4> HIDE DEF S, v
      <4> QED BY <4>1, SubSeqOfOne DEF v
    <3>4. Append(<<>>, x) \in Seq(S) /\ Len(Append(<<>>, x)) = 1 /\ Append(<<>>, x)[1] = x
      <4>1. x \in S /\ <<>> \in Seq(S) /\ Len(<<>>) = 0
        BY EmptySeq
      <4> HIDE DEF S
      <4> QED BY <4>1, AppendProperties
    <3>5. v = Append(<<>>, x)
      <4> HIDE DEF v, S
      <4>1. \A i \in 1 .. 1 : v[i] = Append(<<>>, x)[i]
        BY <3>3, <3>4
      <4> QED BY <3>3, <3>4, <4>1, SeqEqual
    <3> QED BY <1>1, <2>1, <3>2, <3>5 DEF r
  <2> QED BY <2>2, <2>3
<1>4. CASE \E f \in 1 .. n : s[f] # <<>> /\ \A k \in 1 .. f - 1 : s[k] = <<>>
  <2>1. PICK f \in 1 .. n : s[f] # <<>> /\ \A k \in 1 .. f - 1 : s[k] = <<>>
    BY <1>4
  <2>2. Popped(s) = SubSeq(s, f, n)
    BY <2>1, PoppedFrom
  <2>3. Popped(r) = SubSeq(r, f, n + 1)
    <3>1. f \in 1 .. Len(r) /\ r[f] # <<>> /\ \A k \in 1 .. f - 1 : r[k] = <<>>
      BY <1>1, <2>1
    <3> QED BY <1>1, <3>1, PoppedFrom
  <2>4. \A i \in 1 .. n : s[i] \in Seq(Int)
    BY <1>1, ElementOfSeq DEF Pieces
  <2>5. /\ SubSeq(s, f, n) \in Pieces
        /\ Len(SubSeq(s, f, n)) = (n - f) + 1
        /\ \A i \in 1 .. (n - f) + 1 : SubSeq(s, f, n)[i] = s[(f + i) - 1]
    <3>1. f \in Int /\ n \in Int /\ f <= n /\ \A i \in f .. n : s[i] \in Seq(Int)
      BY <1>1, <2>1, <2>4
    <3>2. /\ SubSeq(s, f, n) \in Seq(Seq(Int))
          /\ Len(SubSeq(s, f, n)) = IF f <= n THEN n - f + 1 ELSE 0
          /\ \A i \in 1 .. n - f + 1 : SubSeq(s, f, n)[i] = s[f + i - 1]
      <4> HIDE DEF n
      <4> QED BY <3>1, SubSeqProperties
    <3> HIDE DEF n
    <3>3. n - f + 1 = (n - f) + 1 /\ \A i \in 1 .. (n - f) + 1 : f + i - 1 = (f + i) - 1
      BY <3>1
    <3>4. Len(SubSeq(s, f, n)) = (n - f) + 1
      BY <3>1, <3>2, <3>3
    <3>5. ASSUME NEW i \in 1 .. (n - f) + 1
          PROVE  SubSeq(s, f, n)[i] = s[(f + i) - 1]
      <4>1. i \in 1 .. n - f + 1 /\ f + i - 1 = (f + i) - 1
        BY <3>3
      <4> QED BY <3>2, <4>1
    <3> QED BY <3>2, <3>4, <3>5 DEF Pieces
  <2>6. /\ SubSeq(r, f, n + 1) \in Pieces
        /\ Len(SubSeq(r, f, n + 1)) = (n - f) + 2
        /\ \A i \in 1 .. (n - f) + 2 : SubSeq(r, f, n + 1)[i] = r[(f + i) - 1]
    <3>1. f \in Int /\ n + 1 \in Int /\ f <= n + 1 /\ \A i \in f .. n + 1 : r[i] \in Seq(Int)
      <4>1. \A i \in 1 .. n + 1 : r[i] \in Seq(Int)
        BY <1>1, <1>2, <2>4
      <4>2. f \in Int /\ n + 1 \in Int /\ f <= n + 1 /\ \A i \in f .. n + 1 : i \in 1 .. n + 1
        BY <1>1, <2>1
      <4> HIDE DEF n
      <4> QED BY <4>1, <4>2
    <3>2. /\ SubSeq(r, f, n + 1) \in Seq(Seq(Int))
          /\ Len(SubSeq(r, f, n + 1)) = IF f <= n + 1 THEN (n + 1) - f + 1 ELSE 0
          /\ \A i \in 1 .. (n + 1) - f + 1 : SubSeq(r, f, n + 1)[i] = r[f + i - 1]
      BY <3>1, SubSeqProperties
    <3> QED BY <1>1, <3>1, <3>2 DEF Pieces
  <2> DEFINE u == SubSeq(s, f, n)
             v == SubSeq(r, f, n + 1)
             m == (n - f) + 1
  <2>7. /\ Append(u, x) \in Pieces /\ Len(Append(u, x)) = m + 1 /\ Append(u, x)[m + 1] = x
        /\ \A i \in 1 .. m : Append(u, x)[i] = u[i]
    <3> DEFINE S == Seq(Int)
    <3>1. u \in Seq(S) /\ x \in S /\ Len(u) = m
      BY <2>5 DEF Pieces
    <3> HIDE DEF S, u, m
    <3>2. /\ Append(u, x) \in Seq(S) /\ Len(Append(u, x)) = Len(u) + 1
          /\ Append(u, x)[Len(u) + 1] = x
          /\ \A i \in 1 .. Len(u) : Append(u, x)[i] = u[i]
      BY <3>1, AppendProperties
    <3> QED BY <3>1, <3>2 DEF Pieces, S
  <2>8. m \in Nat /\ m + 1 = (n - f) + 2
    BY <1>1, <2>1
  <2>9. ASSUME NEW i \in 1 .. m + 1 PROVE v[i] = Append(u, x)[i]
    <3>1. v[i] = r[(f + i) - 1]
      BY <2>6, <2>8, <2>9
    <3>2. CASE i \in 1 .. m
      <4>1. (f + i) - 1 \in 1 .. n
        BY <1>1, <2>1, <3>2
      <4>2. u[i] = s[(f + i) - 1]
        BY <2>5, <3>2
      <4> QED BY <1>1, <2>7, <3>1, <3>2, <4>1, <4>2
    <3>3. CASE i = m + 1
      <4>1. (f + i) - 1 = n + 1
        BY <1>1, <2>1, <3>3
      <4> QED BY <1>1, <2>7, <3>1, <3>3, <4>1
    <3> QED BY <2>8, <3>2, <3>3
  <2>10. v = Append(u, x)
    <3>1. v \in Pieces /\ Append(u, x) \in Pieces /\ Len(v) = Len(Append(u, x)) /\ Len(v) = m + 1
      BY <2>6, <2>7, <2>8
    <3> HIDE DEF v, u, m
    <3> QED BY <2>9, <3>1, SeqEqual DEF Pieces
  <2> QED BY <2>2, <2>3, <2>10 DEF r
<1> QED BY <1>3, <1>4, FirstFilled

\* Popping loses nothing.
LEMMA FlattenPopped ==
  \A s \in Pieces : Popped(s) \in Pieces /\ FlattenSeq(Popped(s)) = FlattenSeq(s)
<1> DEFINE G == {s \in Pieces : Popped(s) \in Pieces /\ FlattenSeq(Popped(s)) = FlattenSeq(s)}
<1>0. <<>> \in Pieces /\ <<>> \in Seq(Int) /\ Len(<<>>) = 0
  BY EmptySeq DEF Pieces
<1>1. <<>> \in G
  <2>1. Popped(<<>>) = <<>>
    BY <1>0, PoppedNothing
  <2> QED BY <1>0, <2>1
<1>2. ASSUME NEW s \in Pieces, NEW x \in Seq(Int), s \in G
      PROVE  Append(s, x) \in G
  <2>1. Append(s, x) \in Pieces
    BY AppendProperties DEF Pieces
  <2>2. FlattenSeq(Append(s, x)) = FlattenSeq(s) \o x
    BY FlattenAppend
  <2>3. Popped(s) \in Pieces /\ FlattenSeq(Popped(s)) = FlattenSeq(s)
    BY <1>2
  <2>4. CASE Popped(Append(s, x)) = Append(Popped(s), x)
    <3>1. Append(Popped(s), x) \in Pieces
      BY <2>3, AppendProperties DEF Pieces
    <3>2. FlattenSeq(Append(Popped(s), x)) = FlattenSeq(Popped(s)) \o x
      BY <2>3, FlattenAppend
    <3> QED BY <2>1, <2>2, <2>3, <2>4, <3>1, <3>2
  <2>5. CASE Popped(Append(s, x)) = <<>> /\ Popped(s) = <<>> /\ x = <<>>
    <3>1. <<>> \o <<>> = <<>>
      BY <1>0, ConcatEmptySeq
    <3> QED BY <1>0, <2>1, <2>2, <2>3, <2>5, <3>1, FlattenNothing
  <2> QED BY <2>4, <2>5, PoppedAppend
<1>3. Pieces \subseteq G
  <2> HIDE DEF G
  <2> QED BY <1>1, <1>2, PiecesGrow
<1> QED BY <1>3

\* What is left when bytes are dropped from the front.
LEMMA DiscardType ==
  ASSUME NEW s \in Pieces, NEW count \in Int
  PROVE  /\ Discard(s, count) \in Pieces
         /\ FlattenSeq(Discard(s, count)) = Piece(FlattenSeq(s), 0, count, Size(s))
<1>1. Size(s) \in Int
  BY FlattenType
<1>2. Cut(s, count, Size(s)) \in Pieces
  BY <1>1, CutType
<1>3. FlattenSeq(Cut(s, count, Size(s))) = Piece(FlattenSeq(s), 0, count, Size(s))
  BY <1>1, FlattenCut
<1> QED BY <1>2, <1>3, FlattenPopped DEF Discard

-----------------------------------------------------------------------------
(* The output of an execution: stretches of bytes                          *)

LEMMA BytesType ==
  ASSUME NEW a \in Int, NEW b \in Int
  PROVE  /\ Bytes(a, b) \in Seq(Int) /\ Len(Bytes(a, b)) = Greater(0, b - a)
         /\ \A i \in 1 .. Greater(0, b - a) : Bytes(a, b)[i] = a + i
<1> DEFINE n == Greater(0, b - a)
<1>1. n \in Nat
  BY DEF Greater
<1> HIDE DEF n
<1>2. [i \in 1 .. n |-> a + i] \in [1 .. n -> Int]
  BY <1>1
<1>3. [i \in 1 .. n |-> a + i] \in Seq(Int) /\ Len([i \in 1 .. n |-> a + i]) = n
  BY <1>1, <1>2, SeqDef, LenProperties
<1> QED BY <1>1, <1>3 DEF Bytes, n

\* The same for a stretch of known length.
BytesAre(a, b) ==
  /\ Bytes(a, b) \in Seq(Int) /\ Len(Bytes(a, b)) = b - a
  /\ \A i \in 1 .. b - a : Bytes(a, b)[i] = a + i

LEMMA BytesOf ==
  ASSUME NEW a \in Int, NEW b \in Int, a <= b
  PROVE  BytesAre(a, b)
<1>1. Greater(0, b - a) = b - a
  BY DEF Greater
<1> QED BY <1>1, BytesType DEF BytesAre

BytesAdd(a, b, c) == Bytes(a, b) \o Bytes(b, c) = Bytes(a, c)

LEMMA BytesConcat ==
  ASSUME NEW a \in Int, NEW b \in Int, NEW c \in Int, a <= b, b <= c
  PROVE  BytesAdd(a, b, c)
<1> DEFINE u == Bytes(a, b)
           v == Bytes(b, c)
           w == Bytes(a, c)
<1>1. /\ u \in Seq(Int) /\ Len(u) = b - a /\ \A i \in 1 .. b - a : u[i] = a + i
      /\ v \in Seq(Int) /\ Len(v) = c - b /\ \A i \in 1 .. c - b : v[i] = b + i
      /\ w \in Seq(Int) /\ Len(w) = c - a /\ \A i \in 1 .. c - a : w[i] = a + i
  <2>1. Greater(0, b - a) = b - a /\ Greater(0, c - b) = c - b /\ Greater(0, c - a) = c - a
    BY DEF Greater
  <2> HIDE DEF u, v, w
  <2>2. u \in Seq(Int) /\ Len(u) = b - a /\ \A i \in 1 .. b - a : u[i] = a + i
    BY <2>1, BytesType DEF u
  <2>3. v \in Seq(Int) /\ Len(v) = c - b /\ \A i \in 1 .. c - b : v[i] = b + i
    BY <2>1, BytesType DEF v
  <2>4. w \in Seq(Int) /\ Len(w) = c - a /\ \A i \in 1 .. c - a : w[i] = a + i
    BY <2>1, BytesType DEF w
  <2> QED BY <2>2, <2>3, <2>4
<1> HIDE DEF u, v, w
<1>2. /\ u \o v \in Seq(Int) /\ Len(u \o v) = Len(u) + Len(v)
      /\ \A i \in 1 .. Len(u) + Len(v) : (u \o v)[i] = IF i <= Len(u) THEN u[i] ELSE v[i - Len(u)]
  BY <1>1, ConcatProperties
<1>3. ASSUME NEW i \in 1 .. c - a PROVE (u \o v)[i] = w[i]
  <2>1. i \in 1 .. Len(u) + Len(v)
    BY <1>1
  <2>2. w[i] = a + i
    BY <1>1
  <2>3. CASE i <= b - a
    <3>1. u[i] = a + i
      BY <1>1, <2>3
    <3> QED BY <1>1, <1>2, <2>1, <2>2, <2>3, <3>1
  <2>4. CASE ~(i <= b - a)
    <3>1. i - (b - a) \in 1 .. c - b
      BY <2>4
    <3>2. v[i - (b - a)] = b + (i - (b - a))
      BY <1>1, <3>1
    <3>3. (u \o v)[i] = v[i - (b - a)]
      BY <1>1, <1>2, <2>1, <2>4
    <3>4. b + (i - (b - a)) = a + i
      OBVIOUS
    <3> QED BY <2>2, <3>2, <3>3, <3>4
  <2> QED BY <2>3, <2>4
<1>4. u \o v = w
  <2>1. Len(u \o v) = c - a /\ Len(w) = c - a
    BY <1>1, <1>2
  <2> QED BY <1>1, <1>2, <1>3, <2>1, SeqEqual
<1> QED BY <1>4 DEF u, v, w, BytesAdd

PieceOfBytes(a, b, from, to) ==
  Piece(Bytes(a, b), 0, from, to) = Bytes(a + from, Lesser(b, a + to))

\* A piece of a stretch is a stretch.
LEMMA BytesPiece ==
  ASSUME NEW a \in Int, NEW b \in Int, a <= b, NEW from \in Nat, NEW to \in Int
  PROVE  PieceOfBytes(a, b, from, to)
<1> DEFINE u == Bytes(a, b)
           e == Lesser(b, a + to)
           w == Bytes(a + from, e)
           p == Piece(u, 0, from, to)
<1>1. u \in Seq(Int) /\ Len(u) = b - a /\ \A i \in 1 .. b - a : u[i] = a + i
  <2>1. Greater(0, b - a) = b - a
    BY DEF Greater
  <2> QED BY <2>1, BytesType
<1>2. e \in Int /\ e <= b /\ e <= a + to
  BY DEF Lesser
<1>3. a + from \in Int
  OBVIOUS
<1>4. /\ w \in Seq(Int) /\ Len(w) = Greater(0, e - (a + from))
      /\ \A i \in 1 .. Greater(0, e - (a + from)) : w[i] = (a + from) + i
  BY <1>2, <1>3, BytesType
<1>5. Enters(0, from) = from /\ Leaves(b - a, 0, to) = e - a
  BY DEF Enters, Leaves, Greater, Lesser
<1> HIDE DEF u, e, w
<1>6. PieceIs(u, 0, from, to)
  BY <1>1, PieceType
<1>7. /\ p \in Seq(Int) /\ Len(p) = Greater(0, (e - a) - from)
      /\ \A i \in 1 .. (e - a) - from : p[i] = u[from + i]
  BY <1>1, <1>5, <1>6 DEF PieceIs
<1> HIDE DEF p
<1>8. (e - a) - from = e - (a + from)
  BY <1>2
<1>9. ASSUME NEW i \in 1 .. Greater(0, e - (a + from)) PROVE p[i] = w[i]
  <2>1. i \in 1 .. (e - a) - from /\ from + i \in 1 .. b - a /\ a + (from + i) = (a + from) + i
    BY <1>2, <1>9 DEF Greater
  <2> QED BY <1>1, <1>4, <1>7, <2>1
<1>10. p = w
  BY <1>4, <1>7, <1>8, <1>9, SeqEqual
<1> QED BY <1>10 DEF p, u, w, e, PieceOfBytes

-----------------------------------------------------------------------------
(* The output of an execution: what always holds of it.                    *)
(*                                                                         *)
(* The journal and the tail of the output file hold stretches of the       *)
(* output that end at the last byte captured; a cursor lies within what    *)
(* was captured, and what a client was given lies before its cursor.       *)

ClientRecords ==
  [cursor : [offset : Int, revision : Int], got : Seq(Int), gapped : BOOLEAN, ended : BOOLEAN]

OutputTypes ==
  /\ written \in Nat
  /\ holder \in {"group", "escaped", "nobody"}
  /\ phase \in {"running", "exited", "draining", "finished"}
  /\ reader \in {"reading", "ended", "failed", "aborted"}
  /\ journal \in [chunks : Pieces, start : Nat, end : Nat, revision : Int]
  /\ spool \in [file : BOOLEAN, size : Nat, captured : Nat, tail : Pieces, error : BOOLEAN]
  /\ incomplete \in BOOLEAN
  /\ clients \in [Clients -> ClientRecords]

JournalIsStretch(j) ==
  /\ j.start = Greater(0, j.end - Capacity)
  /\ FlattenSeq(j.chunks) = Bytes(j.start, j.end)

TailIsStretch(s) ==
  FlattenSeq(s.tail) = Bytes(Greater(0, s.captured - TailCapacity), s.captured)

SpoolKeepsUp ==
  /\ spool.captured = journal.end
  /\ ~spool.error => spool.size = journal.end
  /\ spool.file \/ spool.error \/ phase = "finished"

StagesAgree ==
  /\ journal.end <= written
  /\ phase \in {"running", "exited"} => holder = "group"
  /\ phase = "finished" => reader # "reading"
  /\ reader = "ended" => holder = "nobody" /\ journal.end = written
  /\ reader = "aborted" => incomplete
  /\ phase = "finished" /\ ~incomplete => reader = "ended" /\ ~spool.error

\* What a client holds, with what was captured so far and whether the end was published.
ClientIsTold(record, last, over) ==
  /\ record.cursor.offset <= last
  /\ \A i \in 1 .. Len(record.got) : record.got[i] <= Greater(0, record.cursor.offset)
  /\ \A i \in 1 .. Len(record.got) - 1 : record.got[i] < record.got[i + 1]
  /\ ~record.gapped => record.got = Bytes(0, Greater(0, record.cursor.offset))
  /\ record.ended => over /\ record.cursor.offset = last

ClientsAreTold ==
  \A client \in Clients : ClientIsTold(clients[client], journal.end, phase = "finished")

OutputInv ==
  /\ OutputTypes
  /\ JournalIsStretch(journal) /\ TailIsStretch(spool)
  /\ SpoolKeepsUp /\ StagesAgree /\ ClientsAreTold

-----------------------------------------------------------------------------
(* The output of an execution: what the operations do to a stretch.        *)

Dropped(s, a, b, count) ==
  /\ Discard(s, count) \in Pieces
  /\ FlattenSeq(Discard(s, count)) = Bytes(a + count, b)

\* Dropping bytes from the front of a stretch leaves its end.
LEMMA DropFront ==
  ASSUME NEW s \in Pieces, NEW a \in Int, NEW b \in Int, a <= b, FlattenSeq(s) = Bytes(a, b),
         NEW count \in Nat
  PROVE  Dropped(s, a, b, count) /\ Size(s) = b - a
<1>1. Size(s) = b - a
  <2>1. Len(Bytes(a, b)) = b - a
    BY BytesOf DEF BytesAre
  <2> QED BY <2>1 DEF Size
<1>2. FlattenSeq(Discard(s, count)) = Piece(Bytes(a, b), 0, count, b - a)
  BY <1>1, DiscardType
<1>3. b - a \in Int
  OBVIOUS
<1>4. Piece(Bytes(a, b), 0, count, b - a) = Bytes(a + count, Lesser(b, a + (b - a)))
  BY <1>3, BytesPiece DEF PieceOfBytes
<1>5. Lesser(b, a + (b - a)) = b
  BY DEF Lesser
<1> QED BY <1>1, <1>2, <1>4, <1>5, DiscardType DEF Dropped

\* One more chunk prolongs a stretch.
LEMMA AppendStretch ==
  ASSUME NEW s \in Pieces, NEW a \in Int, NEW b \in Int, NEW c \in Int, a <= b, b <= c,
         FlattenSeq(s) = Bytes(a, b)
  PROVE  /\ Append(s, Bytes(b, c)) \in Pieces
         /\ FlattenSeq(Append(s, Bytes(b, c))) = Bytes(a, c)
<1> DEFINE x == Bytes(b, c)
<1>1. x \in Seq(Int)
  BY BytesType
<1>2. BytesAdd(a, b, c)
  BY BytesConcat
<1>3. FlattenSeq(s) \o x = Bytes(a, c)
  BY <1>2 DEF BytesAdd
<1> HIDE DEF x
<1>4. FlattenSeq(Append(s, x)) = FlattenSeq(s) \o x
  BY <1>1, FlattenAppend
<1>5. Append(s, x) \in Pieces
  <2> DEFINE S == Seq(Int)
  <2>1. s \in Seq(S) /\ x \in S
    BY <1>1 DEF Pieces
  <2> HIDE DEF S
  <2>2. Append(s, x) \in Seq(S)
    BY <2>1, AppendProperties
  <2> QED BY <2>2 DEF Pieces, S
<1> QED BY <1>3, <1>4, <1>5 DEF x

JournalRecords == [chunks : Pieces, start : Nat, end : Nat, revision : Int]
SpoolRecords == [file : BOOLEAN, size : Nat, captured : Nat, tail : Pieces, error : BOOLEAN]

\* Journal::append keeps the newest bytes that fit.
LEMMA AppendedIsStretch ==
  ASSUME OutputAssumption, NEW j \in JournalRecords, JournalIsStretch(j), NEW count \in Nat
  PROVE  /\ Appended(j, Bytes(j.end, j.end + count)) \in JournalRecords
         /\ JournalIsStretch(Appended(j, Bytes(j.end, j.end + count)))
         /\ Appended(j, Bytes(j.end, j.end + count)).end = j.end + count
<1> DEFINE last == j.end + count
           data == Bytes(j.end, last)
           target == Greater(0, last - Capacity)
           drop == Greater(0, target - j.start)
           grown == Append(j.chunks, data)
           k == Appended(j, data)
<1>1. /\ j.chunks \in Pieces /\ j.start \in Nat /\ j.end \in Nat /\ j.revision \in Int
      /\ Capacity \in Nat /\ last \in Nat /\ j.end <= last
      /\ j.start = Greater(0, j.end - Capacity)
      /\ FlattenSeq(j.chunks) = Bytes(j.start, j.end)
  BY DEF JournalRecords, JournalIsStretch, OutputAssumption
<1>2. j.start <= j.end
  BY <1>1 DEF Greater
<1>3. Len(data) = count
  <2>1. last - j.end = count
    BY <1>1
  <2> HIDE DEF last
  <2>2. j.end \in Int /\ last \in Int /\ j.end <= last
    BY <1>1
  <2>3. BytesAre(j.end, last)
    BY <2>2, BytesOf
  <2> QED BY <2>1, <2>3 DEF data, BytesAre
<1>4. grown \in Pieces /\ FlattenSeq(grown) = Bytes(j.start, last)
  BY <1>1, <1>2, AppendStretch
<1>5. /\ target \in Nat /\ drop \in Nat /\ j.start + drop = target
      /\ Greater(j.start, target) = target
  BY <1>1 DEF Greater
<1>6. Discard(grown, drop) \in Pieces /\ FlattenSeq(Discard(grown, drop)) = Bytes(target, last)
  <2> HIDE DEF grown, last, target, drop
  <2>1. j.start \in Int /\ last \in Int /\ j.start <= last
    BY <1>1, <1>2
  <2>2. Dropped(grown, j.start, last, drop)
    BY <1>4, <1>5, <2>1, DropFront
  <2> QED BY <1>5, <2>2 DEF Dropped
<1>7. k = [j EXCEPT !.chunks = Discard(grown, drop), !.start = target, !.end = last]
  <2> HIDE DEF data, target
  <2>1. target = Greater(0, (j.end + Len(data)) - Capacity)
    BY <1>3 DEF target
  <2> QED BY <1>3, <1>5, <2>1 DEF Appended
<1> HIDE DEF grown, last, target, drop, data, k
<1>8. /\ k.chunks = Discard(grown, drop) /\ k.start = target /\ k.end = last
      /\ k \in JournalRecords
  BY <1>1, <1>5, <1>6, <1>7 DEF JournalRecords
<1>9. JournalIsStretch(k)
  BY <1>6, <1>8 DEF JournalIsStretch, target
<1> QED BY <1>8, <1>9 DEF k, data, last

\* append_tail keeps the newest bytes of the output file for the preview.
LEMMA SpooledIsStretch ==
  ASSUME OutputAssumption, NEW s \in SpoolRecords, TailIsStretch(s), NEW count \in Nat,
         NEW saved \in Nat, saved <= count
  PROVE  LET t == Spooled(s, Bytes(s.captured, s.captured + count), saved)
         IN  /\ t \in SpoolRecords /\ TailIsStretch(t)
             /\ t.captured = s.captured + count
             /\ t.size = (IF s.file THEN s.size + saved ELSE s.size)
             /\ t.error = (s.error \/ (s.file /\ saved < count))
             /\ t.file = (s.file /\ saved = count)
<1> DEFINE last == s.captured + count
           data == Bytes(s.captured, last)
           low == Greater(0, s.captured - TailCapacity)
           grown == Append(s.tail, data)
           drop == Greater(0, (last - low) - TailCapacity)
           t == Spooled(s, data, saved)
<1>1. /\ s.tail \in Pieces /\ s.captured \in Nat /\ s.size \in Nat
      /\ s.file \in BOOLEAN /\ s.error \in BOOLEAN
      /\ TailCapacity \in Nat /\ last \in Nat /\ s.captured <= last
      /\ FlattenSeq(s.tail) = Bytes(low, s.captured)
  BY DEF SpoolRecords, TailIsStretch, OutputAssumption
<1>2. low \in Nat /\ low <= s.captured /\ low <= last
  BY <1>1 DEF Greater
<1>3. Len(data) = count
  <2>1. last - s.captured = count
    BY <1>1
  <2> HIDE DEF last
  <2>2. s.captured \in Int /\ last \in Int /\ s.captured <= last
    BY <1>1
  <2>3. BytesAre(s.captured, last)
    BY <2>2, BytesOf
  <2> QED BY <2>1, <2>3 DEF data, BytesAre
<1>4. grown \in Pieces /\ FlattenSeq(grown) = Bytes(low, last)
  <2> HIDE DEF low, last
  <2>1. low \in Int /\ last \in Int /\ s.captured \in Int
    BY <1>1, <1>2
  <2> QED BY <1>1, <1>2, <2>1, AppendStretch
<1>5. drop \in Nat /\ low + drop = Greater(0, last - TailCapacity)
  BY <1>1 DEF Greater
<1> HIDE DEF low, last, drop, grown
<1>6. Dropped(grown, low, last, drop) /\ Size(grown) = last - low
  <2>1. low \in Int /\ last \in Int
    BY <1>1, <1>2
  <2> QED BY <1>2, <1>4, <1>5, <2>1, DropFront
<1>7. Tailed(s.tail, data) = Discard(grown, drop)
  BY <1>6 DEF Tailed, grown, drop
<1> HIDE DEF data
<1>8. t = [s EXCEPT !.captured = s.captured + count,
                    !.tail = Discard(grown, drop),
                    !.size = IF s.file THEN s.size + saved ELSE s.size,
                    !.error = s.error \/ (s.file /\ saved < count),
                    !.file = s.file /\ saved = count]
  BY <1>3, <1>7 DEF Spooled
<1> HIDE DEF t
<1>9. Discard(grown, drop) \in Pieces /\ FlattenSeq(Discard(grown, drop)) = Bytes(Greater(0, last - TailCapacity), last)
  BY <1>5, <1>6 DEF Dropped
<1>10. /\ t.captured = s.captured + count
       /\ t.tail = Discard(grown, drop)
       /\ t.size = (IF s.file THEN s.size + saved ELSE s.size)
       /\ t.error = (s.error \/ (s.file /\ saved < count))
       /\ t.file = (s.file /\ saved = count)
  BY <1>8 DEF SpoolRecords
<1>11. t \in SpoolRecords
  <2>1. /\ s.captured + count \in Nat
        /\ (IF s.file THEN s.size + saved ELSE s.size) \in Nat
        /\ (s.error \/ (s.file /\ saved < count)) \in BOOLEAN
        /\ (s.file /\ saved = count) \in BOOLEAN
    BY <1>1
  <2> QED BY <1>8, <1>9, <2>1 DEF SpoolRecords
<1>12. TailIsStretch(t)
  BY <1>9, <1>10 DEF TailIsStretch, last
<1> QED BY <1>10, <1>11, <1>12 DEF t, data, last

\* preview shows the end of what was captured.
LEMMA PreviewIsEnd ==
  ASSUME OutputAssumption, OutputInv, NEW max \in 1 .. TailCapacity
  PROVE  Preview(max) = Bytes(Greater(0, journal.end - max), journal.end)
<1> DEFINE last == journal.end
           low == Greater(0, last - TailCapacity)
           drop == Greater(0, (last - low) - max)
<1>1. /\ spool.tail \in Pieces /\ last \in Nat /\ TailCapacity \in Nat /\ max \in Nat
      /\ max <= TailCapacity /\ FlattenSeq(spool.tail) = Bytes(low, last)
  BY DEF OutputInv, OutputTypes, TailIsStretch, SpoolKeepsUp, OutputAssumption
<1>2. low \in Nat /\ low <= last /\ drop \in Nat /\ low + drop = Greater(0, last - max)
  BY <1>1 DEF Greater
<1> HIDE DEF low, last, drop
<1>3. Dropped(spool.tail, low, last, drop) /\ Size(spool.tail) = last - low
  <2>1. low \in Int /\ last \in Int
    BY <1>1, <1>2
  <2> QED BY <1>1, <1>2, <2>1, DropFront
<1>4. Preview(max) = FlattenSeq(Discard(spool.tail, drop))
  BY <1>3 DEF Preview, drop
<1> QED BY <1>2, <1>3, <1>4 DEF Dropped, last

\* What one read tells: a stretch between the cursor and the last byte captured.
ReadTells(cursor, max, begin, end) ==
  /\ begin \in Nat /\ end \in Nat
  /\ Greater(0, cursor.offset) <= begin /\ begin <= end /\ end <= journal.end
  /\ Read(cursor, max).output = Bytes(begin, end)
  /\ Read(cursor, max).next = [offset |-> end, revision |-> journal.revision]
  /\ Read(cursor, max).gap \in BOOLEAN
  /\ ~Read(cursor, max).gap => begin = Greater(0, cursor.offset)
  /\ Read(cursor, max).reason = "finished" => phase = "finished" /\ end = journal.end

LEMMA ReadIsStretch ==
  ASSUME OutputAssumption, OutputInv, NEW cursor \in [offset : Int, revision : Int],
         cursor.offset <= journal.end, NEW max \in Nat, max >= 1
  PROVE  \E begin, end : ReadTells(cursor, max, begin, end)
<1> DEFINE requested == Greater(0, cursor.offset)
           begin == Greater(requested, journal.start)
           end == Lesser(journal.end, begin + max)
           from == begin - journal.start
           to == end - journal.start
           seen == Read(cursor, max)
           output == FlattenSeq(Cut(journal.chunks, from, to))
           gap == requested < journal.start
<1>1. /\ cursor.offset \in Int /\ journal.start \in Nat /\ journal.end \in Nat
      /\ journal.chunks \in Pieces /\ Capacity \in Nat
      /\ journal.start = Greater(0, journal.end - Capacity)
      /\ FlattenSeq(journal.chunks) = Bytes(journal.start, journal.end)
  BY DEF OutputInv, OutputTypes, JournalIsStretch, OutputAssumption
<1>2. journal.start <= journal.end
  BY <1>1 DEF Greater
<1>3. /\ requested \in Nat /\ begin \in Nat /\ end \in Nat /\ from \in Nat /\ to \in Int
      /\ requested <= begin /\ journal.start <= begin /\ begin <= end /\ end <= journal.end
      /\ journal.start + from = begin /\ Lesser(journal.end, journal.start + to) = end
      /\ ~gap => begin = requested
      /\ end - begin < max => end = journal.end
  <2>1. requested \in Nat /\ requested <= journal.end
    BY <1>1 DEF Greater
  <2> HIDE DEF requested
  <2>2. /\ begin \in Nat /\ requested <= begin /\ journal.start <= begin /\ begin <= journal.end
        /\ ~gap => begin = requested
    BY <1>1, <1>2, <2>1 DEF Greater
  <2> HIDE DEF begin
  <2>3. /\ end \in Nat /\ begin <= end /\ end <= journal.end
        /\ end - begin < max => end = journal.end
    BY <1>1, <2>2 DEF Lesser
  <2> HIDE DEF end
  <2>4. from \in Nat /\ to \in Int /\ journal.start + from = begin /\ journal.start + to = end
    BY <1>1, <2>2, <2>3
  <2>5. Lesser(journal.end, journal.start + to) = end
    BY <1>1, <2>3, <2>4 DEF Lesser
  <2> QED BY <2>1, <2>2, <2>3, <2>4, <2>5
<1> HIDE DEF from, to
<1>4. output = Piece(Bytes(journal.start, journal.end), 0, from, to)
  BY <1>1, <1>3, FlattenCut
<1>5. output = Bytes(begin, end)
  <2> HIDE DEF output, begin, end
  <2>1. Piece(Bytes(journal.start, journal.end), 0, from, to)
          = Bytes(journal.start + from, Lesser(journal.end, journal.start + to))
    <3>1. journal.start \in Int /\ journal.end \in Int
      BY <1>1
    <3>2. PieceOfBytes(journal.start, journal.end, from, to)
      BY <1>2, <1>3, <3>1, BytesPiece
    <3> QED BY <3>2 DEF PieceOfBytes
  <2> QED BY <1>3, <1>4, <2>1
<1>6. /\ seen.output = output /\ seen.gap = gap
      /\ seen.next = [offset |-> end, revision |-> journal.revision]
      /\ seen.reason = IF end - begin >= max THEN "limit"
                       ELSE IF phase = "finished" THEN "finished"
                       ELSE IF output # <<>> \/ gap \/ cursor.revision < journal.revision
                            THEN "activity" ELSE "elapsed"
  BY DEF Read, from, to
<1> HIDE DEF requested, begin, end, seen, output, gap
<1>7. seen.reason = "finished" => phase = "finished" /\ end = journal.end
  <2> SUFFICES ASSUME seen.reason = "finished" PROVE phase = "finished" /\ end = journal.end
    OBVIOUS
  <2>1. ~(end - begin >= max) /\ phase = "finished"
    BY <1>6
  <2>2. end - begin < max
    BY <1>3, <2>1
  <2> QED BY <1>3, <2>1, <2>2
<1>8. gap \in BOOLEAN
  BY DEF gap
<1>9. ReadTells(cursor, max, begin, end)
  BY <1>3, <1>5, <1>6, <1>7, <1>8 DEF ReadTells, requested, seen
<1> QED BY <1>9

\* A client that is given the next stretch is still told the truth.
LEMMA ToldMore ==
  ASSUME NEW r \in ClientRecords, NEW last \in Nat, NEW over \in BOOLEAN,
         ClientIsTold(r, last, over),
         NEW begin \in Nat, NEW end \in Nat,
         Greater(0, r.cursor.offset) <= begin, begin <= end, end <= last,
         NEW n \in ClientRecords,
         n.cursor.offset = end, n.got = r.got \o Bytes(begin, end),
         ~n.gapped => ~r.gapped /\ begin = Greater(0, r.cursor.offset),
         n.ended => over /\ end = last
  PROVE  ClientIsTold(n, last, over)
<1> DEFINE x == Bytes(begin, end)
           k == Len(r.got)
           g == Greater(0, r.cursor.offset)
<1>1. /\ x \in Seq(Int) /\ Len(x) = end - begin
      /\ \A i \in 1 .. end - begin : x[i] = begin + i
  <2>1. begin \in Int /\ end \in Int /\ begin <= end
    OBVIOUS
  <2> HIDE DEF x, k, g
  <2>2. BytesAre(begin, end)
    BY <2>1, BytesOf
  <2> QED BY <2>2 DEF BytesAre, x
<1>2. /\ r.got \in Seq(Int) /\ k \in Nat /\ g \in Nat /\ \A i \in 1 .. k : r.got[i] \in Int
      /\ r.cursor.offset \in Int
  BY LenProperties, ElementOfSeq DEF ClientRecords, Greater
<1>3. /\ \A i \in 1 .. k : r.got[i] <= g
      /\ \A i \in 1 .. k - 1 : r.got[i] < r.got[i + 1]
      /\ ~r.gapped => r.got = Bytes(0, g)
  BY DEF ClientIsTold
<1>4. Greater(0, n.cursor.offset) = end
  BY DEF Greater
<1>5. g <= begin
  OBVIOUS
<1>0. n.got = r.got \o x
  OBVIOUS
<1> HIDE DEF x, g
<1>6. /\ n.got = r.got \o x /\ Len(n.got) = k + (end - begin)
      /\ \A i \in 1 .. k + (end - begin) : n.got[i] = IF i <= k THEN r.got[i] ELSE x[i - k]
  <2> DEFINE a == r.got
  <2>1. a \in Seq(Int) /\ x \in Seq(Int) /\ Len(x) = end - begin /\ Len(a) = k /\ n.got = a \o x
    BY <1>0, <1>1, <1>2
  <2> HIDE DEF a, k
  <2>2. /\ Len(a \o x) = Len(a) + Len(x)
        /\ \A i \in 1 .. Len(a) + Len(x) : (a \o x)[i] = IF i <= Len(a) THEN a[i] ELSE x[i - Len(a)]
    BY <2>1, ConcatProperties
  <2>3. /\ Len(n.got) = k + (end - begin)
        /\ \A i \in 1 .. k + (end - begin) : n.got[i] = IF i <= k THEN a[i] ELSE x[i - k]
    BY <2>1, <2>2
  <2> QED BY <1>0, <2>3 DEF a
<1> HIDE DEF k
<1>n. k \in Nat /\ g \in Nat /\ begin \in Nat /\ end \in Nat /\ g <= begin /\ begin <= end
  BY <1>2, <1>5
<1>7. ASSUME NEW i \in 1 .. Len(n.got)
      PROVE  \/ i \in 1 .. k /\ n.got[i] = r.got[i] /\ r.got[i] \in Int
             \/ i > k /\ i - k \in 1 .. end - begin /\ n.got[i] = begin + (i - k)
  <2>1. i \in 1 .. k + (end - begin)
    BY <1>6
  <2>2. CASE i <= k
    BY <1>2, <1>6, <2>1, <2>2
  <2>3. CASE i > k
    <3>1. i - k \in 1 .. end - begin /\ ~(i <= k)
      BY <1>2, <2>1, <2>3
    <3> QED BY <1>1, <1>6, <2>1, <2>3, <3>1
  <2> QED BY <1>2, <2>1, <2>2, <2>3
<1>8. ASSUME NEW i \in 1 .. Len(n.got) PROVE n.got[i] <= end
  <2>1. CASE i \in 1 .. k /\ n.got[i] = r.got[i] /\ r.got[i] \in Int
    BY <1>2, <1>3, <1>5, <2>1
  <2>2. CASE i > k /\ i - k \in 1 .. end - begin /\ n.got[i] = begin + (i - k)
    <3> DEFINE d == i - k
    <3>1. d \in 1 .. end - begin /\ n.got[i] = begin + d
      BY <2>2
    <3> HIDE DEF d
    <3> QED BY <3>1
  <2> QED BY <1>7, <2>1, <2>2
<1>9. ASSUME NEW i \in 1 .. Len(n.got) - 1 PROVE n.got[i] < n.got[i + 1]
  <2>0. i \in 1 .. Len(n.got) /\ i + 1 \in 1 .. Len(n.got) /\ i \in Nat
    BY <1>2, <1>6
  <2>1. CASE i + 1 <= k
    <3>1. i \in 1 .. k - 1 /\ i <= k
      BY <1>2, <2>0, <2>1
    <3>2. n.got[i] = r.got[i] /\ n.got[i + 1] = r.got[i + 1]
      BY <1>2, <1>6, <2>0, <2>1, <3>1
    <3> QED BY <1>3, <3>1, <3>2
  <2>2. CASE i + 1 > k
    <3>1. n.got[i + 1] = begin + ((i + 1) - k) /\ (i + 1) - k >= 1
      <4>1. ~(i + 1 \in 1 .. k)
        BY <1>2, <2>2
      <4>2. i + 1 > k /\ (i + 1) - k \in 1 .. end - begin /\ n.got[i + 1] = begin + ((i + 1) - k)
        BY <1>7, <2>0, <4>1
      <4> QED BY <4>2
    <3>2. CASE i <= k
      <4>1. i \in 1 .. k
        BY <1>2, <2>0, <3>2
      <4>2. n.got[i] = r.got[i] /\ r.got[i] \in Int /\ r.got[i] <= g
        BY <1>2, <1>3, <1>6, <2>0, <3>2, <4>1
      <4> DEFINE d == (i + 1) - k
      <4>3. d \in Int /\ d >= 1 /\ n.got[i + 1] = begin + d
        BY <1>2, <2>0, <3>1
      <4> HIDE DEF d
      <4>4. r.got[i] < begin + d
        BY <1>n, <4>2, <4>3
      <4> QED BY <4>2, <4>3, <4>4
    <3>3. CASE i > k
      <4>1. ~(i \in 1 .. k)
        BY <1>2, <3>3
      <4>2. n.got[i] = begin + (i - k)
        BY <1>7, <2>0, <4>1
      <4>3. begin + (i - k) < begin + ((i + 1) - k)
        BY <1>n, <2>0
      <4> QED BY <3>1, <4>2, <4>3
    <3> QED BY <1>2, <2>0, <3>2, <3>3
  <2>3. i + 1 <= k \/ i + 1 > k
    BY <1>n, <2>0
  <2> QED BY <2>1, <2>2, <2>3
<1>10. ~n.gapped => n.got = Bytes(0, end)
  <2> SUFFICES ASSUME ~n.gapped PROVE n.got = Bytes(0, end)
    OBVIOUS
  <2>1. begin = g /\ r.got = Bytes(0, g)
    BY <1>3 DEF g
  <2>2. BytesAdd(0, begin, end)
    <3>1. 0 \in Int /\ begin \in Int /\ end \in Int /\ 0 <= begin /\ begin <= end
      BY <1>n
    <3> QED BY <3>1, BytesConcat
  <2> QED BY <1>6, <2>1, <2>2 DEF BytesAdd, x
<1> QED BY <1>4, <1>8, <1>9, <1>10 DEF ClientIsTold

-----------------------------------------------------------------------------
(* The output of an execution: every step keeps it.                        *)

LEMMA OutputInitInv ==
  ASSUME OutputAssumption, OutputInit PROVE OutputInv
<1>1. Capacity \in Nat /\ TailCapacity \in Nat
  BY DEF OutputAssumption
<1>2. <<>> \in Pieces /\ <<>> \in Seq(Int) /\ Len(<<>>) = 0
  BY EmptySeq DEF Pieces
<1>3. Bytes(0, 0) = <<>>
  <2>1. 0 \in Int /\ 0 <= 0 /\ 0 - 0 = 0
    OBVIOUS
  <2>2. BytesAre(0, 0)
    BY <2>1, BytesOf
  <2>3. Bytes(0, 0) \in Seq(Int) /\ Len(Bytes(0, 0)) = 0
    BY <2>1, <2>2 DEF BytesAre
  <2> QED BY <2>3, EmptySeq
<1>4. Greater(0, 0 - Capacity) = 0 /\ Greater(0, 0 - TailCapacity) = 0 /\ Greater(0, -1) = 0
  BY <1>1 DEF Greater
<1>5. OutputTypes
  <2>1. journal \in [chunks : Pieces, start : Nat, end : Nat, revision : Int]
    BY <1>2 DEF OutputInit
  <2>2. spool \in [file : BOOLEAN, size : Nat, captured : Nat, tail : Pieces, error : BOOLEAN]
    BY <1>2 DEF OutputInit
  <2>3. clients \in [Clients -> ClientRecords]
    <3>1. NoCursor \in [offset : Int, revision : Int]
      BY DEF NoCursor
    <3>2. [cursor |-> NoCursor, got |-> <<>>, gapped |-> FALSE, ended |-> FALSE] \in ClientRecords
      BY <1>2, <3>1 DEF ClientRecords
    <3> QED BY <3>2 DEF OutputInit
  <2> QED BY <2>1, <2>2, <2>3 DEF OutputInit, OutputTypes
<1>6. JournalIsStretch(journal) /\ TailIsStretch(spool)
  BY <1>3, <1>4, FlattenNothing DEF OutputInit, JournalIsStretch, TailIsStretch
<1>7. SpoolKeepsUp /\ StagesAgree
  BY DEF OutputInit, SpoolKeepsUp, StagesAgree
<1>8. ASSUME NEW client \in Clients
      PROVE  ClientIsTold(clients[client], journal.end, phase = "finished")
  <2> DEFINE record == [cursor |-> NoCursor, got |-> <<>>, gapped |-> FALSE, ended |-> FALSE]
  <2>1. clients[client] = record /\ journal.end = 0
    BY DEF OutputInit
  <2>2. /\ record.cursor.offset = -1 /\ record.got = <<>> /\ ~record.ended
    BY DEF NoCursor
  <2> HIDE DEF record
  <2>3. -1 <= 0 /\ \A i \in 1 .. 0 : FALSE
    OBVIOUS
  <2>4. \A i \in 1 .. 0 - 1 : FALSE
    OBVIOUS
  <2> QED BY <1>2, <1>3, <1>4, <2>1, <2>2, <2>3, <2>4 DEF ClientIsTold
<1> QED BY <1>5, <1>6, <1>7, <1>8 DEF OutputInv, ClientsAreTold

\* Steps that leave the bytes alone.
LEMMA OutputFrame ==
  ASSUME OutputInv, UNCHANGED clients,
         journal' = journal \/ journal' = [journal EXCEPT !.revision = @ + 1],
         spool'.captured = spool.captured, spool'.tail = spool.tail,
         phase = "finished" => phase' = "finished"
  PROVE  /\ journal' \in JournalRecords /\ journal'.end = journal.end
         /\ JournalIsStretch(journal)' /\ TailIsStretch(spool)' /\ ClientsAreTold'
         /\ clients' \in [Clients -> ClientRecords]
<1>1. journal \in JournalRecords
  BY DEF OutputInv, OutputTypes, JournalRecords
<1>2. /\ journal' \in JournalRecords /\ journal'.end = journal.end
      /\ journal'.start = journal.start /\ journal'.chunks = journal.chunks
  BY <1>1 DEF JournalRecords
<1>3. JournalIsStretch(journal)'
  BY <1>2 DEF OutputInv, JournalIsStretch
<1>4. TailIsStretch(spool)'
  BY DEF OutputInv, TailIsStretch
<1>5. ClientsAreTold'
  BY <1>2 DEF OutputInv, ClientsAreTold, ClientIsTold
<1> QED BY <1>2, <1>3, <1>4, <1>5 DEF OutputInv, OutputTypes

LEMMA WriteInv ==
  ASSUME OutputInv, NEW count \in 1 .. ChunkSize, Write(count) PROVE OutputInv'
<1>1. /\ holder # "nobody" /\ written' = written + count
      /\ UNCHANGED <<holder, phase, reader, journal, spool, incomplete, clients>>
  BY DEF Write
<1>2. written' \in Nat /\ count > 0
  BY <1>1 DEF OutputInv, OutputTypes
<1>3. OutputTypes'
  BY <1>1, <1>2 DEF OutputInv, OutputTypes
<1>4. StagesAgree'
  <2>1. journal.end \in Nat /\ written \in Nat /\ journal.end <= written
    BY DEF OutputInv, OutputTypes, StagesAgree
  <2>2. (journal.end <= written)'
    BY <1>1, <1>2, <2>1
  <2> QED BY <1>1, <2>2 DEF OutputInv, StagesAgree
<1>5. SpoolKeepsUp'
  BY <1>1 DEF OutputInv, SpoolKeepsUp
<1> QED BY <1>1, <1>3, <1>4, <1>5, OutputFrame DEF OutputInv

LEMMA ReleaseInv ==
  ASSUME OutputInv, Release PROVE OutputInv'
<1>1. /\ holder = "escaped" /\ holder' = "nobody"
      /\ UNCHANGED <<written, phase, reader, journal, spool, incomplete, clients>>
  BY DEF Release
<1>2. OutputTypes' /\ SpoolKeepsUp' /\ StagesAgree'
  BY <1>1 DEF OutputInv, OutputTypes, SpoolKeepsUp, StagesAgree
<1> QED BY <1>1, <1>2, OutputFrame DEF OutputInv

LEMMA ReadOutputInv ==
  ASSUME OutputAssumption, OutputInv, NEW count \in 1 .. ChunkSize, NEW saved \in 0 .. ChunkSize,
         saved <= count, ReadOutput(count, saved)
  PROVE  OutputInv'
<1> DEFINE data == Bytes(journal.end, journal.end + count)
<1>1. /\ reader = "reading" /\ journal.end + count <= written
      /\ journal' = Appended(journal, data) /\ spool' = Spooled(spool, data, saved)
      /\ incomplete' = (incomplete \/ spool'.error)
      /\ UNCHANGED <<written, holder, phase, reader, clients>>
  BY DEF ReadOutput, Captured, process
<1>2. /\ journal \in JournalRecords /\ spool \in SpoolRecords /\ count \in Nat /\ saved \in Nat
      /\ spool.captured = journal.end /\ JournalIsStretch(journal) /\ TailIsStretch(spool)
      /\ journal.end \in Nat /\ written \in Nat
      /\ spool.size \in Nat /\ spool.file \in BOOLEAN /\ spool.error \in BOOLEAN
  BY DEF OutputInv, OutputTypes, JournalRecords, SpoolRecords, SpoolKeepsUp, OutputAssumption
<1>3. journal' \in JournalRecords /\ JournalIsStretch(journal') /\ journal'.end = journal.end + count
  BY <1>1, <1>2, AppendedIsStretch
<1>4. /\ spool' \in SpoolRecords /\ TailIsStretch(spool')
      /\ spool'.captured = journal.end + count
      /\ spool'.size = (IF spool.file THEN spool.size + saved ELSE spool.size)
      /\ spool'.error = (spool.error \/ (spool.file /\ saved < count))
      /\ spool'.file = (spool.file /\ saved = count)
  <2>1. LET t == Spooled(spool, Bytes(spool.captured, spool.captured + count), saved)
        IN  /\ t \in SpoolRecords /\ TailIsStretch(t)
            /\ t.captured = spool.captured + count
            /\ t.size = (IF spool.file THEN spool.size + saved ELSE spool.size)
            /\ t.error = (spool.error \/ (spool.file /\ saved < count))
            /\ t.file = (spool.file /\ saved = count)
    BY <1>2, SpooledIsStretch
  <2> QED BY <1>1, <1>2, <2>1
<1> HIDE DEF data
<1>5. phase # "finished"
  BY <1>1 DEF OutputInv, StagesAgree
<1>6. OutputTypes'
  <2>1. incomplete' \in BOOLEAN
    BY <1>1, <1>4 DEF OutputInv, OutputTypes, SpoolRecords
  <2> QED BY <1>1, <1>3, <1>4, <2>1 DEF OutputInv, OutputTypes, JournalRecords, SpoolRecords
<1>7. SpoolKeepsUp'
  <2>1. spool.file \/ spool.error
    BY <1>5 DEF OutputInv, SpoolKeepsUp
  <2>2. ~spool.error => spool.size = journal.end
    BY DEF OutputInv, SpoolKeepsUp
  <2>3. (~spool.error => spool.size = journal.end)'
    <3> SUFFICES ASSUME ~spool'.error PROVE spool'.size = journal'.end
      OBVIOUS
    <3>1. ~spool.error /\ spool.file /\ ~(saved < count)
      BY <1>4, <2>1
    <3>2. saved = count
      BY <1>2, <3>1
    <3> QED BY <1>3, <1>4, <2>2, <3>1, <3>2
  <2>4. spool'.file \/ spool'.error
    <3>1. saved = count \/ saved < count
      BY <1>2
    <3> QED BY <1>4, <2>1, <3>1
  <2> QED BY <1>3, <1>4, <2>3, <2>4 DEF SpoolKeepsUp
<1>8. StagesAgree'
  <2>1. (journal.end <= written)'
    BY <1>1, <1>3
  <2> QED BY <1>1, <1>5, <2>1 DEF OutputInv, StagesAgree
<1>9. ClientsAreTold'
  <2> SUFFICES ASSUME NEW client \in Clients
               PROVE  ClientIsTold(clients[client], journal'.end, phase' = "finished")
    BY <1>1 DEF ClientsAreTold, ClientIsTold
  <2> DEFINE r == clients[client]
  <2>1. r \in ClientRecords /\ ClientIsTold(r, journal.end, phase = "finished")
    BY DEF OutputInv, OutputTypes, ClientsAreTold
  <2>2. r.cursor.offset \in Int /\ r.cursor.offset <= journal.end /\ ~r.ended
    BY <1>5, <2>1 DEF ClientRecords, ClientIsTold
  <2>3. r.cursor.offset <= journal'.end
    BY <1>2, <1>3, <2>2
  <2> QED BY <2>1, <2>2, <2>3 DEF ClientIsTold
<1> QED BY <1>3, <1>4, <1>6, <1>7, <1>8, <1>9 DEF OutputInv

LEMMA ReadEndsInv ==
  ASSUME OutputInv, ReadEnds \/ ReadFails PROVE OutputInv'
<1>1. /\ reader = "reading" /\ reader' \in {"ended", "failed"}
      /\ reader' = "ended" => holder = "nobody" /\ journal.end = written
      /\ UNCHANGED <<written, holder, phase, journal, spool, incomplete, clients>>
  BY DEF ReadEnds, ReadFails, process, Captured
<1>2. OutputTypes' /\ SpoolKeepsUp'
  BY <1>1 DEF OutputInv, OutputTypes, SpoolKeepsUp
<1>3. phase # "finished"
  BY <1>1 DEF OutputInv, StagesAgree
<1>4. StagesAgree'
  BY <1>1, <1>3 DEF OutputInv, StagesAgree
<1> QED BY <1>1, <1>2, <1>4, OutputFrame DEF OutputInv

LEMMA RootHasExitedInv ==
  ASSUME OutputInv, RootHasExited PROVE OutputInv'
<1>1. /\ phase = "running" /\ phase' = "exited"
      /\ journal' = [journal EXCEPT !.revision = @ + 1]
      /\ UNCHANGED <<written, holder, reader, spool, incomplete, clients>>
  BY DEF RootHasExited, process
<1>2. /\ journal' \in JournalRecords /\ journal'.end = journal.end
      /\ JournalIsStretch(journal)' /\ TailIsStretch(spool)' /\ ClientsAreTold'
      /\ clients' \in [Clients -> ClientRecords]
  BY <1>1, OutputFrame
<1>3. OutputTypes'
  BY <1>1, <1>2 DEF OutputInv, OutputTypes, JournalRecords
<1>4. SpoolKeepsUp' /\ StagesAgree'
  BY <1>1, <1>2 DEF OutputInv, SpoolKeepsUp, StagesAgree
<1> QED BY <1>2, <1>3, <1>4 DEF OutputInv

LEMMA SweepInv ==
  ASSUME OutputInv, Sweep PROVE OutputInv'
<1>1. /\ phase = "exited" /\ phase' = "draining" /\ holder' \in {"escaped", "nobody"}
      /\ UNCHANGED <<written, reader, journal, spool, incomplete, clients>>
  BY DEF Sweep
<1>2. reader # "ended"
  BY <1>1 DEF OutputInv, StagesAgree
<1>3. OutputTypes' /\ SpoolKeepsUp' /\ StagesAgree'
  BY <1>1, <1>2 DEF OutputInv, OutputTypes, SpoolKeepsUp, StagesAgree
<1> QED BY <1>1, <1>3, OutputFrame DEF OutputInv

LEMMA DrainTimeoutInv ==
  ASSUME OutputInv, DrainTimeout PROVE OutputInv'
<1>1. /\ phase = "draining" /\ reader = "reading" /\ reader' = "aborted" /\ incomplete' = TRUE
      /\ UNCHANGED <<written, holder, phase, journal, spool, clients>>
  BY DEF DrainTimeout, process
<1>2. OutputTypes' /\ SpoolKeepsUp' /\ StagesAgree'
  BY <1>1 DEF OutputInv, OutputTypes, SpoolKeepsUp, StagesAgree
<1> QED BY <1>1, <1>2, OutputFrame DEF OutputInv

LEMMA FinishOutputInv ==
  ASSUME OutputInv, FinishOutput PROVE OutputInv'
<1>1. PICK fails \in BOOLEAN :
        /\ phase = "draining" /\ reader # "reading" /\ phase' = "finished"
        /\ journal' = [journal EXCEPT !.revision = @ + 1]
        /\ spool' = [spool EXCEPT !.file = FALSE, !.error = @ \/ fails]
        /\ incomplete' = (incomplete \/ reader = "failed" \/ spool'.error)
        /\ UNCHANGED <<written, holder, reader, clients>>
  BY DEF FinishOutput, process
<1>2. spool \in SpoolRecords
  BY DEF OutputInv, OutputTypes, SpoolRecords
<1>3. /\ spool' \in SpoolRecords /\ spool'.captured = spool.captured
      /\ spool'.tail = spool.tail /\ spool'.size = spool.size
      /\ spool'.error = (spool.error \/ fails)
  BY <1>1, <1>2 DEF SpoolRecords
<1>4. /\ journal' \in JournalRecords /\ journal'.end = journal.end
      /\ JournalIsStretch(journal)' /\ TailIsStretch(spool)' /\ ClientsAreTold'
      /\ clients' \in [Clients -> ClientRecords]
  BY <1>1, <1>3, OutputFrame
<1>5. OutputTypes'
  <2>1. incomplete' \in BOOLEAN
    BY <1>1, <1>3 DEF OutputInv, OutputTypes, SpoolRecords
  <2> QED BY <1>1, <1>3, <1>4, <2>1 DEF OutputInv, OutputTypes, JournalRecords, SpoolRecords
<1>6. SpoolKeepsUp'
  BY <1>1, <1>3, <1>4 DEF OutputInv, SpoolKeepsUp
<1>7. StagesAgree'
  <2>1. (journal.end <= written)' /\ reader' = reader /\ phase' = "finished"
    BY <1>1, <1>4 DEF OutputInv, StagesAgree
  <2>2. (reader = "ended" => holder = "nobody" /\ journal.end = written)'
    BY <1>1, <1>4 DEF OutputInv, StagesAgree
  <2>3. ~incomplete' => ~incomplete /\ reader # "failed" /\ ~spool'.error
    BY <1>1
  <2>4. ~incomplete => reader # "aborted"
    BY DEF OutputInv, StagesAgree
  <2>5. reader \in {"reading", "ended", "failed", "aborted"}
    BY DEF OutputInv, OutputTypes
  <2>6. (reader = "aborted" => incomplete)'
    BY <2>1, <2>3, <2>4
  <2>7. (~incomplete => reader = "ended" /\ ~spool.error)'
    BY <1>1, <2>1, <2>3, <2>4, <2>5
  <2> QED BY <1>1, <2>1, <2>2, <2>6, <2>7 DEF StagesAgree
<1> QED BY <1>4, <1>5, <1>6, <1>7 DEF OutputInv

LEMMA ObserveInv ==
  ASSUME OutputAssumption, OutputInv, NEW client \in Clients, NEW max \in 1 .. TailCapacity,
         Observe(client, max)
  PROVE  OutputInv'
<1> DEFINE r == clients[client]
           seen == Read(r.cursor, max)
           n == [cursor |-> seen.next, got |-> r.got \o seen.output,
                 gapped |-> r.gapped \/ seen.gap, ended |-> seen.reason = "finished"]
<1>1. /\ clients' = [clients EXCEPT ![client] = n]
      /\ UNCHANGED <<written, holder, phase, reader, journal, spool, incomplete>>
  BY DEF Observe, process
<1>2. /\ clients \in [Clients -> ClientRecords] /\ r \in ClientRecords
      /\ r.cursor \in [offset : Int, revision : Int] /\ r.got \in Seq(Int)
      /\ ClientIsTold(r, journal.end, phase = "finished")
      /\ journal.end \in Nat /\ journal.revision \in Int
      /\ r.gapped \in BOOLEAN
  BY DEF OutputInv, OutputTypes, ClientsAreTold, ClientRecords
<1>3. r.cursor.offset <= journal.end
  BY <1>2 DEF ClientIsTold
<1>4. max \in Nat /\ max >= 1
  BY DEF OutputAssumption
<1>5. PICK begin, end : ReadTells(r.cursor, max, begin, end)
  <2> HIDE DEF r
  <2> QED BY <1>2, <1>3, <1>4, ReadIsStretch
<1>6. /\ begin \in Nat /\ end \in Nat
      /\ Greater(0, r.cursor.offset) <= begin /\ begin <= end /\ end <= journal.end
      /\ seen.output = Bytes(begin, end)
      /\ seen.next = [offset |-> end, revision |-> journal.revision]
      /\ seen.gap \in BOOLEAN
      /\ ~seen.gap => begin = Greater(0, r.cursor.offset)
      /\ seen.reason = "finished" => phase = "finished" /\ end = journal.end
  BY <1>5 DEF ReadTells
<1> HIDE DEF seen, r
<1>7. n \in ClientRecords
  <2>1. Bytes(begin, end) \in Seq(Int)
    <3>1. begin \in Int /\ end \in Int
      BY <1>6
    <3> QED BY <3>1, BytesType
  <2>2. r.got \o Bytes(begin, end) \in Seq(Int)
    BY <1>2, <2>1, ConcatProperties
  <2>3. seen.next \in [offset : Int, revision : Int]
    BY <1>2, <1>6
  <2>4. (r.gapped \/ seen.gap) \in BOOLEAN /\ (seen.reason = "finished") \in BOOLEAN
    OBVIOUS
  <2> QED BY <1>6, <2>2, <2>3, <2>4 DEF ClientRecords
<1>8. /\ n.cursor.offset = end /\ n.got = r.got \o Bytes(begin, end)
      /\ ~n.gapped => ~r.gapped /\ begin = Greater(0, r.cursor.offset)
      /\ n.ended => phase = "finished" /\ end = journal.end
  <2>1. /\ n.cursor = seen.next /\ n.got = r.got \o seen.output
        /\ n.gapped = (r.gapped \/ seen.gap) /\ n.ended = (seen.reason = "finished")
    OBVIOUS
  <2>2. seen.next.offset = end
    BY <1>6
  <2> HIDE DEF n
  <2>3. n.cursor.offset = end /\ n.got = r.got \o Bytes(begin, end)
    BY <1>6, <2>1, <2>2
  <2>4. ~n.gapped => ~r.gapped /\ begin = Greater(0, r.cursor.offset)
    BY <1>6, <2>1
  <2>5. n.ended => phase = "finished" /\ end = journal.end
    BY <1>6, <2>1
  <2> QED BY <2>3, <2>4, <2>5
<1> HIDE DEF n
<1>9. ClientIsTold(n, journal.end, phase = "finished")
  <2> DEFINE over == phase = "finished"
             last == journal.end
  <2>1. over \in BOOLEAN
    OBVIOUS
  <2>2. /\ last \in Nat /\ ClientIsTold(r, last, over) /\ r \in ClientRecords
        /\ begin \in Nat /\ end \in Nat
        /\ Greater(0, r.cursor.offset) <= begin /\ begin <= end /\ end <= last
        /\ n.cursor.offset = end /\ n.got = r.got \o Bytes(begin, end)
        /\ ~n.gapped => ~r.gapped /\ begin = Greater(0, r.cursor.offset)
        /\ n.ended => over /\ end = last
    BY <1>2, <1>6, <1>8
  <2> HIDE DEF over, last
  <2>3. ClientIsTold(n, last, over)
    BY <1>7, <2>1, <2>2, ToldMore
  <2> QED BY <2>3 DEF over, last
<1>10. clients' \in [Clients -> ClientRecords]
  BY <1>1, <1>2, <1>7
<1>11. ClientsAreTold'
  <2> SUFFICES ASSUME NEW c \in Clients
               PROVE  ClientIsTold(clients'[c], journal.end, phase = "finished")
    BY <1>1 DEF ClientsAreTold, ClientIsTold
  <2>1. clients'[c] = IF c = client THEN n ELSE clients[c]
    BY <1>1, <1>2
  <2> QED BY <1>9, <2>1 DEF OutputInv, ClientsAreTold
<1>12. OutputTypes' /\ SpoolKeepsUp' /\ StagesAgree'
  BY <1>1, <1>10 DEF OutputInv, OutputTypes, SpoolKeepsUp, StagesAgree
<1>13. JournalIsStretch(journal)' /\ TailIsStretch(spool)'
  BY <1>1 DEF OutputInv, JournalIsStretch, TailIsStretch
<1> QED BY <1>11, <1>12, <1>13 DEF OutputInv

LEMMA WaiterInv ==
  ASSUME OutputInv, Waiter \/ UNCHANGED outputVars PROVE OutputInv'
<1>1. UNCHANGED <<written, holder, phase, reader, journal, spool, incomplete, clients>>
  BY DEF Waiter, WaitEnable, WaitCheck, WaitPark, WaitWake, outputVars, process
<1>2. OutputTypes' /\ SpoolKeepsUp' /\ StagesAgree'
  BY <1>1 DEF OutputInv, OutputTypes, SpoolKeepsUp, StagesAgree
<1> QED BY <1>1, <1>2, OutputFrame DEF OutputInv

LEMMA OutputStepInv ==
  ASSUME OutputAssumption, OutputInv, [OutputNext]_outputVars PROVE OutputInv'
<1>1. ASSUME NEW count \in 1 .. ChunkSize, Write(count) PROVE OutputInv'
  BY <1>1, WriteInv
<1>2. CASE Release
  BY <1>2, ReleaseInv
<1>3. CASE ReadEnds \/ ReadFails
  BY <1>3, ReadEndsInv
<1>4. ASSUME NEW count \in 1 .. ChunkSize, NEW saved \in 0 .. ChunkSize,
             saved <= count, ReadOutput(count, saved)
      PROVE  OutputInv'
  BY <1>4, ReadOutputInv
<1>5. CASE RootHasExited
  BY <1>5, RootHasExitedInv
<1>6. CASE Sweep
  BY <1>6, SweepInv
<1>7. CASE DrainTimeout
  BY <1>7, DrainTimeoutInv
<1>8. CASE FinishOutput
  BY <1>8, FinishOutputInv
<1>9. ASSUME NEW client \in Clients, NEW max \in 1 .. TailCapacity, Observe(client, max)
      PROVE  OutputInv'
  BY <1>9, ObserveInv
<1>10. CASE Waiter \/ UNCHANGED outputVars
  BY <1>10, WaiterInv
<1> QED BY <1>1, <1>2, <1>3, <1>4, <1>5, <1>6, <1>7, <1>8, <1>9, <1>10 DEF OutputNext, Reader

LEMMA OutputInvHonest ==
  ASSUME OutputAssumption, OutputInv PROVE ObservationsAreHonest
<1>1. JournalKeepsNewest
  BY DEF OutputInv, JournalIsStretch, JournalKeepsNewest
<1>2. ASSUME NEW client \in Clients
      PROVE  /\ ~clients[client].gapped => clients[client].got = Bytes(0, Len(clients[client].got))
             /\ \A i \in 1 .. Len(clients[client].got) - 1 :
                  clients[client].got[i] < clients[client].got[i + 1]
             /\ clients[client].ended => /\ clients[client].cursor.offset = Captured
                                         /\ ~incomplete => Captured = written
  <2> DEFINE r == clients[client]
  <2>1. ClientIsTold(r, journal.end, phase = "finished") /\ r \in ClientRecords
    BY DEF OutputInv, OutputTypes, ClientsAreTold
  <2> HIDE DEF r
  <2>2. ~r.gapped => r.got = Bytes(0, Len(r.got))
    <3> SUFFICES ASSUME ~r.gapped PROVE r.got = Bytes(0, Len(r.got))
      OBVIOUS
    <3> DEFINE g == Greater(0, r.cursor.offset)
    <3>1. g \in Nat
      BY <2>1 DEF ClientRecords, Greater
    <3>2. r.got = Bytes(0, g)
      BY <2>1 DEF ClientIsTold
    <3> HIDE DEF g
    <3>3. 0 \in Int /\ g \in Int /\ 0 <= g /\ g - 0 = g
      BY <3>1
    <3>4. BytesAre(0, g)
      BY <3>3, BytesOf
    <3>5. Len(Bytes(0, g)) = g
      BY <3>3, <3>4 DEF BytesAre
    <3> QED BY <3>2, <3>5
  <2>3. r.ended => r.cursor.offset = journal.end /\ phase = "finished"
    BY <2>1 DEF ClientIsTold
  <2>4. phase = "finished" /\ ~incomplete => journal.end = written
    BY DEF OutputInv, StagesAgree
  <2>5. \A i \in 1 .. Len(r.got) - 1 : r.got[i] < r.got[i + 1]
    BY <2>1 DEF ClientIsTold
  <2> QED BY <2>2, <2>3, <2>4, <2>5 DEF r, Captured
<1>3. ASSUME phase = "finished", NEW max \in 1 .. TailCapacity
      PROVE  LET result == RunResult(max)
             IN  /\ result.complete => result.size = written
                 /\ ~result.truncated => result.preview = Bytes(0, written)
                 /\ result.preview = Bytes(Greater(0, Captured - max), Captured)
  <2> DEFINE ending == Preview(max)
             low == Greater(0, journal.end - max)
  <2>1. ending = Bytes(low, journal.end)
    BY PreviewIsEnd
  <2>2. /\ journal.end \in Nat /\ max \in Nat /\ spool.captured = journal.end
        /\ ~spool.error => spool.size = journal.end
        /\ ~incomplete => journal.end = written
    BY <1>3 DEF OutputInv, OutputTypes, SpoolKeepsUp, StagesAgree, OutputAssumption
  <2>3. low \in Nat /\ low <= journal.end
    BY <2>2 DEF Greater
  <2>4. Len(ending) = journal.end - low
    <3> HIDE DEF low, ending
    <3>1. low \in Int /\ journal.end \in Int
      BY <2>2, <2>3
    <3>2. BytesAre(low, journal.end)
      BY <2>3, <3>1, BytesOf
    <3> QED BY <2>1, <3>2 DEF BytesAre
  <2> HIDE DEF ending
  <2>5. spool.captured > Len(ending) \/ low = 0
    <3> HIDE DEF low
    <3> QED BY <2>2, <2>3, <2>4
  <2>6. /\ RunResult(max).complete = (~incomplete /\ ~spool.error)
        /\ RunResult(max).size = spool.size /\ RunResult(max).preview = ending
        /\ RunResult(max).truncated = (incomplete \/ spool.captured > Len(ending))
    BY DEF RunResult, ending
  <2> HIDE DEF low
  <2>7. RunResult(max).complete => RunResult(max).size = written
    BY <2>2, <2>6
  <2>8. ~RunResult(max).truncated => RunResult(max).preview = Bytes(0, written)
    BY <2>1, <2>2, <2>5, <2>6
  <2> QED BY <2>1, <2>6, <2>7, <2>8 DEF low, Captured
<1>4. ReadersAreTold
  BY <1>1, <1>2 DEF ReadersAreTold, NoSilentGap, EndIsTheEnd
<1>5. RunResultIsHonest
  BY <1>3 DEF RunResultIsHonest
<1> QED BY <1>4, <1>5 DEF ObservationsAreHonest

\* Whatever clients read through cursors while chunks expire, and whatever the result of
\* a run says of its file and preview, is true of the bytes the process wrote
\* (Journal::append and read, OutputSpool, run_result).
THEOREM ObservationsStayHonest ==
  ASSUME OutputAssumption PROVE OutputSpec => []ObservationsAreHonest
<1>1. OutputInit => OutputInv
  BY OutputInitInv
<1>2. OutputInv /\ [OutputNext]_outputVars => OutputInv'
  BY OutputStepInv
<1>3. OutputInv => ObservationsAreHonest
  BY OutputInvHonest
<1> QED BY <1>1, <1>2, <1>3, PTL DEF OutputSpec

-----------------------------------------------------------------------------
(* Views: the length of a text                                             *)
(*                                                                         *)
(* Sizes and the loop in Taken are recursive functions on the positions of *)
(* a text: the first exists by the least position without it, the second   *)
(* because the first position at which the loop stops is a solution.       *)

Texts == Seq(Nat)

\* The length of a text that gets a line of length x as its line k.
OneMore(size, x, k) == size + x + (IF k > 1 THEN 1 ELSE 0)

SizesAre(f, s, n) ==
  f = [k \in 0 .. n |-> IF k = 0 THEN 0 ELSE f[k - 1] + s[k] + (IF k > 1 THEN 1 ELSE 0)]

LEMMA SizesExist ==
  ASSUME NEW s, NEW m \in Nat
  PROVE  \E f : SizesAre(f, s, m)
<1> DEFINE Partial(n) == \E f : SizesAre(f, s, n)
           T == {n \in Nat : ~Partial(n)}
<1> SUFFICES ASSUME ~Partial(m) PROVE FALSE
  OBVIOUS
<1>1. PICK n \in T : \A k \in T : n <= k
  <2>1. m \in T /\ T \subseteq Nat
    OBVIOUS
  <2> HIDE DEF T
  <2> QED BY <2>1, LeastNatural
<1>2. CASE n = 0
  <2> DEFINE f == [k \in 0 .. n |-> 0]
             h == [k \in 0 .. n |-> IF k = 0 THEN 0
                                    ELSE f[k - 1] + s[k] + (IF k > 1 THEN 1 ELSE 0)]
  <2>1. \A k \in 0 .. n : k = 0
    BY <1>2
  <2>2. f = h
    BY <2>1
  <2>3. SizesAre(f, s, n)
    BY <2>2 DEF SizesAre
  <2> HIDE DEF f
  <2> QED BY <1>1, <2>3
<1>3. CASE n # 0
  <2>1. n - 1 \in Nat /\ n \in Nat /\ Partial(n - 1)
    <3> HIDE DEF Partial
    <3>1. n \in Nat /\ \A k \in Nat : ~Partial(k) => n <= k
      BY <1>1
    <3> QED BY <1>3, <3>1
  <2>2. PICK f : SizesAre(f, s, n - 1)
    BY <2>1
  <2> DEFINE Step(e, k) == IF k = 0 THEN 0 ELSE e[k - 1] + s[k] + (IF k > 1 THEN 1 ELSE 0)
             g == [k \in 0 .. n |-> IF k < n THEN f[k] ELSE Step(f, k)]
             h == [k \in 0 .. n |-> Step(g, k)]
  <2>3. ASSUME NEW k \in 0 .. n PROVE g[k] = Step(g, k)
    <3>1. k # 0 => g[k - 1] = f[k - 1]
      <4>1. k # 0 => k - 1 \in 0 .. n /\ k - 1 < n
        BY <2>1
      <4> QED BY <4>1
    <3>2. CASE k < n
      <4>1. k \in 0 .. n - 1 /\ g[k] = f[k]
        BY <2>1, <3>2
      <4>2. f[k] = Step(f, k)
        BY <2>2, <4>1 DEF SizesAre
      <4> QED BY <3>1, <4>1, <4>2
    <3>3. CASE k = n
      <4>1. g[k] = Step(f, k)
        BY <2>1, <3>3
      <4> QED BY <3>1, <4>1
    <3> QED BY <2>1, <3>2, <3>3
  <2>4. g = h
    BY <2>3
  <2>5. SizesAre(g, s, n)
    BY <2>4 DEF SizesAre
  <2> HIDE DEF g
  <2> QED BY <1>1, <2>5
<1> QED BY <1>2, <1>3

\* What the lengths of the beginnings of a text are.
LEMMA SizesOf ==
  ASSUME NEW s \in Texts
  PROVE  /\ Sizes(s)[0] = 0
         /\ \A k \in 1 .. Len(s) : Sizes(s)[k] = OneMore(Sizes(s)[k - 1], s[k], k)
         /\ \A k \in 0 .. Len(s) : Sizes(s)[k] \in Nat
<1> DEFINE f == CHOOSE f : SizesAre(f, s, Len(s))
<1>1. Len(s) \in Nat /\ \A k \in 1 .. Len(s) : s[k] \in Nat
  BY LenProperties, ElementOfSeq DEF Texts
<1>2. SizesAre(f, s, Len(s))
  BY <1>1, SizesExist
<1>3. Sizes(s) = f
  BY DEF Sizes, SizesAre
<1> HIDE DEF f
<1>4. f[0] = 0
  <2>1. 0 \in 0 .. Len(s)
    BY <1>1
  <2> QED BY <1>2, <2>1 DEF SizesAre
<1>5. ASSUME NEW k \in 1 .. Len(s) PROVE f[k] = OneMore(f[k - 1], s[k], k)
  <2>1. k \in 0 .. Len(s) /\ k # 0
    BY <1>1
  <2> QED BY <1>2, <2>1 DEF SizesAre, OneMore
<1>6. \A k \in 0 .. Len(s) : f[k] \in Nat
  <2> DEFINE T == {k \in 0 .. Len(s) : f[k] \notin Nat}
  <2> SUFFICES ASSUME T # {} PROVE FALSE
    OBVIOUS
  <2>1. PICK k \in T : \A i \in T : k <= i
    <3>1. T \subseteq Nat
      BY <1>1
    <3> HIDE DEF T
    <3> QED BY <3>1, LeastNatural
  <2>2. k \in 1 .. Len(s) /\ f[k] \notin Nat
    BY <1>1, <1>4, <2>1
  <2>3. k - 1 \in 0 .. Len(s) /\ ~(k <= k - 1)
    BY <1>1, <2>2
  <2>4. f[k - 1] \in Nat
    BY <2>1, <2>3
  <2>5. f[k] = OneMore(f[k - 1], s[k], k) /\ s[k] \in Nat
    BY <1>1, <1>5, <2>2
  <2> QED BY <2>2, <2>4, <2>5 DEF OneMore
<1> QED BY <1>3, <1>4, <1>5, <1>6

LEMMA SizesGrow ==
  ASSUME NEW s \in Texts, NEW k \in 1 .. Len(s)
  PROVE  Sizes(s)[k - 1] <= Sizes(s)[k] /\ s[k] <= Sizes(s)[k]
<1>1. Len(s) \in Nat /\ s[k] \in Nat
  BY LenProperties, ElementOfSeq DEF Texts
<1>2. k - 1 \in 0 .. Len(s) /\ Sizes(s)[k - 1] \in Nat
  BY <1>1, SizesOf
<1>3. Sizes(s)[k] = OneMore(Sizes(s)[k - 1], s[k], k)
  BY SizesOf
<1> QED BY <1>1, <1>2, <1>3 DEF OneMore

\* Some lines in the middle of a text, and those before them, are as long together as
\* the text up to there.
LEMMA SizesOfSub ==
  ASSUME NEW s \in Texts, NEW a \in 1 .. Len(s), NEW b \in a .. Len(s)
  PROVE  /\ SubSeq(s, a, b) \in Texts /\ Len(SubSeq(s, a, b)) = b - a + 1
         /\ ByteLength(SubSeq(s, a, b))
              = Sizes(s)[b] - Sizes(s)[a - 1] - (IF a > 1 THEN 1 ELSE 0)
<1> DEFINE t == SubSeq(s, a, b)
           n == b - a + 1
           Sum(k) == Sizes(s)[a - 1 + k] - Sizes(s)[a - 1] - (IF a > 1 THEN 1 ELSE 0)
<1>1. Len(s) \in Nat /\ a \in Nat /\ b \in Nat /\ n \in Nat \ {0} /\ a <= b /\ b <= Len(s)
  BY LenProperties DEF Texts
<1>2. t \in Texts /\ Len(t) = n /\ \A k \in 1 .. n : t[k] = s[a - 1 + k]
  <2>1. \A i \in a .. b : s[i] \in Nat
    BY <1>1, ElementOfSeq DEF Texts
  <2>2. /\ t \in Seq(Nat) /\ Len(t) = IF a <= b THEN b - a + 1 ELSE 0
        /\ \A i \in 1 .. b - a + 1 : t[i] = s[a + i - 1]
    BY <1>1, <2>1, SubSeqProperties
  <2>3. \A i \in 1 .. n : a + i - 1 = a - 1 + i
    BY <1>1
  <2> QED BY <1>1, <2>2, <2>3 DEF Texts
<1> HIDE DEF t
<1>3. \A k \in 1 .. n : Sizes(t)[k] = Sum(k)
  <2> DEFINE T == {k \in 1 .. n : Sizes(t)[k] # Sum(k)}
  <2> SUFFICES ASSUME T # {} PROVE FALSE
    OBVIOUS
  <2>1. PICK k \in T : \A i \in T : k <= i
    <3>1. T \subseteq Nat
      BY <1>1
    <3> HIDE DEF T
    <3> QED BY <3>1, LeastNatural
  <2>2. k \in 1 .. n /\ Sizes(t)[k] # Sum(k)
    BY <2>1
  <2>3. /\ k \in 1 .. Len(t) /\ a - 1 + k \in 1 .. Len(s) /\ a - 1 + k - 1 = a - 1 + (k - 1)
        /\ a - 1 \in 0 .. Len(s) /\ a - 1 + (k - 1) \in 0 .. Len(s)
    BY <1>1, <1>2, <2>2
  <2>4. /\ Sizes(t)[k] = OneMore(Sizes(t)[k - 1], t[k], k)
        /\ Sizes(s)[a - 1 + k] = OneMore(Sizes(s)[a - 1 + (k - 1)], s[a - 1 + k], a - 1 + k)
        /\ t[k] = s[a - 1 + k] /\ s[a - 1 + k] \in Nat
        /\ Sizes(s)[a - 1] \in Nat /\ Sizes(s)[a - 1 + (k - 1)] \in Nat
    <3>1. Sizes(t)[k] = OneMore(Sizes(t)[k - 1], t[k], k)
      BY <1>2, <2>3, SizesOf
    <3>2. Sizes(s)[a - 1 + k] = OneMore(Sizes(s)[a - 1 + (k - 1)], s[a - 1 + k], a - 1 + k)
      BY <2>3, SizesOf
    <3>3. Sizes(s)[a - 1] \in Nat /\ Sizes(s)[a - 1 + (k - 1)] \in Nat
      BY <2>3, SizesOf
    <3>4. s[a - 1 + k] \in Nat
      BY <2>3, ElementOfSeq DEF Texts
    <3> QED BY <1>2, <2>2, <3>1, <3>2, <3>3, <3>4
  <2>5. CASE k = 1
    <3>1. Sizes(t)[k - 1] = 0 /\ a - 1 + (k - 1) = a - 1 /\ a - 1 + k = a
      BY <1>1, <1>2, <2>5, SizesOf
    <3>2. Sizes(t)[k] = s[a - 1 + k]
      BY <2>4, <2>5, <3>1 DEF OneMore
    <3>3. Sizes(s)[a - 1 + k] = Sizes(s)[a - 1] + s[a - 1 + k] + (IF a > 1 THEN 1 ELSE 0)
      BY <2>4, <3>1 DEF OneMore
    <3> HIDE DEF T
    <3> QED BY <2>2, <2>4, <3>2, <3>3
  <2>6. CASE k # 1
    <3>1. k - 1 \in 1 .. n /\ ~(k <= k - 1)
      BY <1>1, <2>2, <2>6
    <3>2. Sizes(t)[k - 1] = Sum(k - 1)
      BY <2>1, <3>1
    <3>3. k > 1 /\ a - 1 + k > 1
      BY <1>1, <2>2, <2>6
    <3>4. Sizes(t)[k] = Sum(k - 1) + s[a - 1 + k] + 1
      BY <2>4, <3>2, <3>3 DEF OneMore
    <3>5. Sizes(s)[a - 1 + k] = Sizes(s)[a - 1 + (k - 1)] + s[a - 1 + k] + 1
      BY <2>4, <3>3 DEF OneMore
    <3>6. Sizes(t)[k] = Sum(k)
      <4> DEFINE c == IF a > 1 THEN 1 ELSE 0
                 p == Sizes(s)[a - 1 + (k - 1)]
                 q == Sizes(s)[a - 1]
                 x == s[a - 1 + k]
      <4>1. c \in Nat /\ p \in Nat /\ q \in Nat /\ x \in Nat
        BY <2>4
      <4>2. /\ Sizes(t)[k] = (p - q - c) + x + 1
            /\ Sum(k) = (p + x + 1) - q - c
        BY <3>4, <3>5
      <4> HIDE DEF c, p, q, x, Sum
      <4> QED BY <4>1, <4>2
    <3> QED BY <2>2, <3>6
  <2> QED BY <2>5, <2>6
<1>4. ByteLength(t) = Sum(n) /\ a - 1 + n = b
  BY <1>1, <1>2, <1>3 DEF ByteLength
<1> QED BY <1>2, <1>4 DEF t

\* The beginning of a text read backwards is as long as the end of the text.
LEMMA SizesOfReverse ==
  ASSUME NEW s \in Texts
  PROVE  /\ Reverse(s) \in Texts /\ Len(Reverse(s)) = Len(s)
         /\ \A k \in 1 .. Len(s) : Reverse(s)[k] = s[Len(s) - k + 1]
         /\ \A k \in 1 .. Len(s) :
              Sizes(Reverse(s))[k] = ByteLength(SubSeq(s, Len(s) - k + 1, Len(s)))
<1> DEFINE n == Len(s)
           r == Reverse(s)
           Sum(k) == Sizes(s)[n] - Sizes(s)[n - k] - (IF k < n THEN 1 ELSE 0)
<1>1. n \in Nat
  BY LenProperties DEF Texts
<1>2. r \in Texts /\ Len(r) = n /\ \A k \in 1 .. n : r[k] = s[n - k + 1]
  <2>1. \A i \in 1 .. n : n - i + 1 \in 1 .. n
    BY <1>1
  <2>2. \A i \in 1 .. n : s[n - i + 1] \in Nat
    BY <2>1, ElementOfSeq DEF Texts
  <2>3. r = [i \in 1 .. n |-> s[(n - i) + 1]]
    BY DEF Reverse
  <2>4. r \in Seq(Nat)
    BY <1>1, <2>2, <2>3
  <2> HIDE DEF r
  <2> QED BY <1>1, <2>3, <2>4 DEF Texts
<1> HIDE DEF r
<1>3. \A k \in 1 .. n : Sizes(r)[k] = Sum(k)
  <2> DEFINE T == {k \in 1 .. n : Sizes(r)[k] # Sum(k)}
  <2> SUFFICES ASSUME T # {} PROVE FALSE
    OBVIOUS
  <2>1. PICK k \in T : \A i \in T : k <= i
    <3>1. T \subseteq Nat
      BY <1>1
    <3> HIDE DEF T
    <3> QED BY <3>1, LeastNatural
  <2>2. k \in 1 .. n /\ Sizes(r)[k] # Sum(k)
    BY <2>1
  <2>3. n - k + 1 \in 1 .. n /\ n - k + 1 - 1 = n - k /\ n - k \in 0 .. n /\ n - (k - 1) = n - k + 1
    BY <1>1, <2>2
  <2>4. /\ Sizes(r)[k] = OneMore(Sizes(r)[k - 1], r[k], k)
        /\ Sizes(s)[n - k + 1] = OneMore(Sizes(s)[n - k], s[n - k + 1], n - k + 1)
        /\ r[k] = s[n - k + 1] /\ s[n - k + 1] \in Nat
        /\ Sizes(s)[n] \in Nat /\ Sizes(s)[n - k] \in Nat
    <3>1. Sizes(r)[k] = OneMore(Sizes(r)[k - 1], r[k], k)
      BY <1>2, <2>2, SizesOf
    <3>2. Sizes(s)[n - k + 1] = OneMore(Sizes(s)[n - k], s[n - k + 1], n - k + 1)
      <4> DEFINE l == n - k + 1
      <4>1. l \in 1 .. Len(s) /\ l - 1 = n - k
        BY <2>3
      <4> HIDE DEF l
      <4>2. Sizes(s)[l] = OneMore(Sizes(s)[l - 1], s[l], l)
        BY <4>1, SizesOf
      <4> QED BY <4>1, <4>2 DEF l
    <3>3. Sizes(s)[n] \in Nat /\ Sizes(s)[n - k] \in Nat
      <4>1. n \in 0 .. n
        BY <1>1
      <4> QED BY <2>3, <4>1, SizesOf
    <3>4. s[n - k + 1] \in Nat
      BY <2>3, ElementOfSeq DEF Texts
    <3> QED BY <1>2, <2>2, <3>1, <3>2, <3>3, <3>4
  <2> HIDE DEF n
  <2>5. CASE k = 1
    <3>1. Sizes(r)[k - 1] = 0
      BY <1>2, <2>5, SizesOf
    <3>2. Sizes(r)[k] = s[n - k + 1]
      BY <2>4, <2>5, <3>1 DEF OneMore
    <3>3. n - k + 1 = n /\ (n - k + 1 > 1 <=> k < n)
      BY <1>1, <2>2, <2>5
    <3>4. Sizes(s)[n] = Sizes(s)[n - k] + s[n - k + 1] + (IF k < n THEN 1 ELSE 0)
      BY <2>4, <3>3 DEF OneMore
    <3> HIDE DEF T
    <3> QED BY <2>2, <2>4, <3>2, <3>4
  <2>6. CASE k # 1
    <3>1. k - 1 \in 1 .. n /\ ~(k <= k - 1) /\ k - 1 < n
      BY <1>1, <2>2, <2>6
    <3>2. Sizes(r)[k - 1] = Sizes(s)[n] - Sizes(s)[n - k + 1] - 1
      BY <2>1, <2>3, <3>1
    <3>3. k > 1 /\ (n - k + 1 > 1 <=> k < n)
      BY <1>1, <2>2, <2>6
    <3>4. Sizes(r)[k] = Sizes(s)[n] - Sizes(s)[n - k + 1] - 1 + s[n - k + 1] + 1
      BY <2>4, <3>2, <3>3 DEF OneMore
    <3>5. Sizes(s)[n - k + 1] = Sizes(s)[n - k] + s[n - k + 1] + (IF k < n THEN 1 ELSE 0)
      BY <2>4, <3>3 DEF OneMore
    <3> HIDE DEF T
    <3> QED BY <2>2, <2>4, <3>4, <3>5
  <2> QED BY <2>5, <2>6
<1>4. ASSUME NEW k \in 1 .. n PROVE Sizes(r)[k] = ByteLength(SubSeq(s, n - k + 1, n))
  <2>1. n - k + 1 \in 1 .. n /\ n \in n - k + 1 .. n /\ n - k + 1 - 1 = n - k
        /\ (n - k + 1 > 1 <=> k < n)
    BY <1>1
  <2>2. ByteLength(SubSeq(s, n - k + 1, n))
          = Sizes(s)[n] - Sizes(s)[n - k + 1 - 1] - (IF n - k + 1 > 1 THEN 1 ELSE 0)
    BY <2>1, SizesOfSub
  <2> QED BY <1>3, <2>1, <2>2
<1> QED BY <1>2, <1>4 DEF r

-----------------------------------------------------------------------------
(* Views: the loop of the truncations                                      *)

Stops(s, k) == k = Len(s) \/ k >= MaxLines \/ Sizes(s)[k + 1] > MaxBytes

LoopIs(f, s) == f = [k \in 0 .. Len(s) |-> IF Stops(s, k) THEN k ELSE f[k + 1]]

\* The loop takes lines up to the first position at which it stops.
LEMMA TakenIs ==
  ASSUME NEW s \in Texts
  PROVE  /\ Taken(s) \in 0 .. Len(s) /\ Stops(s, Taken(s))
         /\ \A k \in 0 .. Len(s) : k < Taken(s) => ~Stops(s, k)
<1> DEFINE n == Len(s)
           FirstFrom(i, j) == /\ j \in i .. n /\ Stops(s, j)
                              /\ \A k \in i .. n : Stops(s, k) => j <= k
           from(i) == CHOOSE j : FirstFrom(i, j)
           g == [i \in 0 .. n |-> from(i)]
<1>1. n \in Nat
  BY LenProperties DEF Texts
<1>2. ASSUME NEW i \in 0 .. n PROVE FirstFrom(i, from(i))
  <2> DEFINE T == {j \in i .. n : Stops(s, j)}
  <2>1. T \subseteq Nat /\ n \in T
    BY <1>1 DEF Stops
  <2>2. PICK j \in T : \A k \in T : j <= k
    <3> HIDE DEF T
    <3> QED BY <2>1, LeastNatural
  <2>3. FirstFrom(i, j)
    BY <2>2
  <2> HIDE DEF FirstFrom
  <2> QED BY <2>3
<1>3. ASSUME NEW i \in 0 .. n PROVE g[i] = IF Stops(s, i) THEN i ELSE g[i + 1]
  <2>1. g[i] = from(i) /\ FirstFrom(i, from(i))
    BY <1>2
  <2>2. CASE Stops(s, i)
    <3> DEFINE j == from(i)
    <3>1. FirstFrom(i, j)
      BY <1>2
    <3> HIDE DEF j
    <3>2. j \in i .. n /\ \A k \in i .. n : Stops(s, k) => j <= k
      BY <3>1
    <3>3. j = i
      BY <1>1, <2>2, <3>2
    <3> QED BY <2>1, <2>2, <3>3 DEF j
  <2>3. CASE ~Stops(s, i)
    <3>1. i # n
      BY <2>3 DEF Stops
    <3>2. i + 1 \in 0 .. n /\ g[i + 1] = from(i + 1)
      BY <1>1, <3>1
    <3> DEFINE j == from(i)
               l == from(i + 1)
    <3>3. FirstFrom(i, j) /\ FirstFrom(i + 1, l)
      BY <1>2, <3>2
    <3> HIDE DEF j, l
    <3>4. /\ j \in i .. n /\ Stops(s, j) /\ \A k \in i .. n : Stops(s, k) => j <= k
          /\ l \in i + 1 .. n /\ Stops(s, l) /\ \A k \in i + 1 .. n : Stops(s, k) => l <= k
      BY <3>3
    <3>5. j # i /\ j \in i + 1 .. n /\ l \in i .. n
      BY <1>1, <2>3, <3>2, <3>4
    <3>6. j <= l /\ l <= j
      BY <3>4, <3>5
    <3>7. j = l
      BY <1>1, <3>4, <3>6
    <3> QED BY <2>1, <2>3, <3>2, <3>7 DEF j, l
  <2> QED BY <2>2, <2>3
<1>4. LoopIs(g, s)
  <2> DEFINE h == [k \in 0 .. Len(s) |-> IF Stops(s, k) THEN k ELSE g[k + 1]]
  <2>1. g = h
    BY <1>3
  <2> HIDE DEF g
  <2> QED BY <2>1 DEF LoopIs
<1> DEFINE f == CHOOSE f : LoopIs(f, s)
<1>5. LoopIs(f, s)
  <2> HIDE DEF g
  <2> QED BY <1>4
<1>6. Taken(s) = f[0]
  BY DEF Taken, LoopIs, Stops
<1> HIDE DEF f, g
<1> DEFINE m == from(0)
<1>7. FirstFrom(0, m)
  <2>1. 0 \in 0 .. n
    BY <1>1
  <2> QED BY <1>2, <2>1
<1> HIDE DEF m
<1>8. m \in 0 .. n /\ Stops(s, m) /\ \A k \in 0 .. n : Stops(s, k) => m <= k
  BY <1>7
<1>9. f[0] = m
  <2> DEFINE T == {d \in 0 .. m : f[m - d] # m}
  <2> SUFFICES ASSUME T # {} PROVE FALSE
    <3>1. m \in 0 .. m /\ m - m = 0
      BY <1>1, <1>8
    <3> QED BY <3>1
  <2>1. PICK d \in T : \A e \in T : d <= e
    <3>1. T \subseteq Nat
      BY <1>1, <1>8
    <3> HIDE DEF T
    <3> QED BY <3>1, LeastNatural
  <2>2. d \in 0 .. m /\ f[m - d] # m /\ m - d \in 0 .. n
    BY <1>1, <1>8, <2>1
  <2>3. f[m - d] = IF Stops(s, m - d) THEN m - d ELSE f[m - d + 1]
    BY <1>5, <2>2 DEF LoopIs
  <2>4. CASE d = 0
    <3>1. m - d = m
      BY <1>1, <1>8, <2>4
    <3> QED BY <1>8, <2>2, <2>3, <3>1
  <2>5. CASE d # 0
    <3>1. d - 1 \in 0 .. m /\ ~(d <= d - 1) /\ m - (d - 1) = m - d + 1 /\ ~(m <= m - d)
      BY <1>1, <1>8, <2>2, <2>5
    <3>2. f[m - (d - 1)] = m
      BY <2>1, <3>1
    <3>3. ~Stops(s, m - d)
      BY <1>8, <2>2, <3>1
    <3> QED BY <2>2, <2>3, <3>1, <3>2, <3>3
  <2> QED BY <2>4, <2>5
<1>10. \A k \in 0 .. n : k < m => ~Stops(s, k)
  BY <1>1, <1>8
<1> QED BY <1>6, <1>8, <1>9, <1>10

\* What it took is within both limits, and one more is not.
LEMMA TakenFits ==
  ASSUME ViewsAssumption, NEW s \in Texts
  PROVE  /\ Taken(s) \in 0 .. Len(s) /\ Taken(s) <= MaxLines /\ Sizes(s)[Taken(s)] <= MaxBytes
         /\ Taken(s) < Len(s) => Taken(s) = MaxLines \/ Sizes(s)[Taken(s) + 1] > MaxBytes
<1> DEFINE t == Taken(s)
<1>1. /\ t \in 0 .. Len(s) /\ Stops(s, t)
      /\ \A k \in 0 .. Len(s) : k < t => ~Stops(s, k)
  BY TakenIs
<1>2. MaxLines \in Nat \ {0} /\ MaxBytes \in Nat \ {0} /\ Len(s) \in Nat
  BY LenProperties DEF ViewsAssumption, Texts
<1> HIDE DEF t
<1>3. t # 0 => /\ t - 1 \in 0 .. Len(s) /\ t - 1 < t /\ t - 1 + 1 = t /\ t - 1 # Len(s)
               /\ t \in 0 .. Len(s)
  BY <1>1, <1>2
<1>4. t # 0 => ~(t - 1 >= MaxLines) /\ ~(Sizes(s)[t] > MaxBytes)
  BY <1>1, <1>3 DEF Stops
<1>5. Sizes(s)[0] = 0 /\ Sizes(s)[t] \in Nat
  BY <1>1, SizesOf
<1>6. t <= MaxLines /\ Sizes(s)[t] <= MaxBytes
  BY <1>1, <1>2, <1>4, <1>5
<1>7. t < Len(s) => t = MaxLines \/ Sizes(s)[t + 1] > MaxBytes
  BY <1>1, <1>2, <1>6 DEF Stops
<1> QED BY <1>1, <1>6, <1>7 DEF t

-----------------------------------------------------------------------------
(* Views: what the truncations show                                        *)

\* The lines of a text are its lines, perhaps without the last one.
LEMMA LinesOf ==
  ASSUME NEW text \in Texts, text # <<>>
  PROVE  /\ Len(text) \in Nat \ {0} /\ Lines(text) \in Texts
         /\ \/ Lines(text) = text
            \/ Len(Lines(text)) = Len(text) - 1
         /\ \A i \in 1 .. Len(Lines(text)) : Lines(text)[i] = text[i]
         /\ ByteLength(Lines(text)) \in Nat /\ ByteLength(text) \in Nat
         /\ ByteLength(Lines(text)) <= ByteLength(text)
         /\ Lines(text) = <<>> => ByteLength(text) = 0
<1> DEFINE n == Len(text)
<1>1. n \in Nat \ {0}
  BY EmptySeq DEF Texts
<1>2. \A s \in Texts : ByteLength(s) \in Nat
  <2> TAKE s \in Texts
  <2>1. Len(s) \in 0 .. Len(s)
    BY LenProperties DEF Texts
  <2> QED BY <2>1, SizesOf DEF ByteLength
<1>3. CASE text = <<0>>
  <2>1. Lines(text) = <<>> /\ Len(text) = 1 /\ text[1] = 0
    BY <1>3 DEF Lines
  <2>2. <<>> \in Texts /\ Len(<<>>) = 0
    BY EmptySeq DEF Texts
  <2>3. ByteLength(<<>>) = 0
    BY <2>2, SizesOf DEF ByteLength
  <2>4. ByteLength(text) = 0
    <3>1. Sizes(text)[1] = OneMore(Sizes(text)[1 - 1], text[1], 1) /\ Sizes(text)[0] = 0
      BY <2>1, SizesOf
    <3> QED BY <2>1, <3>1 DEF ByteLength, OneMore
  <2> QED BY <1>1, <1>2, <2>1, <2>2, <2>3, <2>4
<1>4. CASE text # <<0>> /\ n > 1 /\ Last(text) = 0
  <2>1. Lines(text) = SubSeq(text, 1, n - 1)
    BY <1>4 DEF Lines, Front
  <2>2. n - 1 \in 1 .. n /\ 1 \in 1 .. n /\ n \in 1 .. n
    BY <1>1, <1>4
  <2>3. /\ Lines(text) \in Texts /\ Len(Lines(text)) = n - 1 - 1 + 1
        /\ ByteLength(Lines(text)) = Sizes(text)[n - 1] - Sizes(text)[1 - 1] - (IF 1 > 1 THEN 1 ELSE 0)
    BY <2>1, <2>2, SizesOfSub
  <2>4. ByteLength(Lines(text)) <= ByteLength(text)
    <3>1. Sizes(text)[0] = 0 /\ Sizes(text)[n - 1] <= Sizes(text)[n]
      BY <2>2, SizesOf, SizesGrow
    <3>2. Sizes(text)[n - 1] \in Nat
      <4>1. n - 1 \in 0 .. n
        BY <2>2
      <4> QED BY <4>1, SizesOf
    <3> QED BY <2>3, <3>1, <3>2 DEF ByteLength
  <2>5. \A i \in 1 .. n - 1 : Lines(text)[i] = text[i]
    <3>1. \A i \in 1 .. n - 1 : text[i] \in Nat
      BY <2>2, ElementOfSeq DEF Texts
    <3>2. \A i \in 1 .. n - 1 - 1 + 1 : Lines(text)[i] = text[1 + i - 1]
      BY <1>1, <2>1, <3>1, SubSeqProperties
    <3> QED BY <1>1, <3>2
  <2>6. Len(Lines(text)) = n - 1 /\ Lines(text) # <<>>
    <3>1. Len(Lines(text)) = n - 1 /\ n - 1 # 0
      <4>1. n - 1 - 1 + 1 = n - 1
        BY <1>1
      <4>2. n > 1
        BY <1>4
      <4> HIDE DEF n
      <4>3. n - 1 # 0
        BY <1>1, <4>2
      <4> QED BY <2>3, <4>1, <4>3
    <3> QED BY <3>1, EmptySeq
  <2> QED BY <1>1, <1>2, <2>3, <2>4, <2>5, <2>6
<1>5. CASE text # <<0>> /\ ~(n > 1 /\ Last(text) = 0)
  <2>1. Lines(text) = text
    BY <1>5 DEF Lines
  <2> QED BY <1>1, <1>2, <2>1
<1> QED BY <1>3, <1>4, <1>5

\* What of a text is shown first: all, nothing of a line that is too long, or at least
\* one line and not the last.
LEMMA HeadShows ==
  ASSUME ViewsAssumption, NEW text \in Texts, text # <<>>, NEW h, h = TruncateHead(text)
  PROVE  \/ ~h.truncated /\ ~h.firstLineExceedsLimit
         \/ h.truncated /\ h.firstLineExceedsLimit /\ text[1] > MaxBytes
         \/ /\ h.truncated /\ ~h.firstLineExceedsLimit
            /\ h.outputLines \in 1 .. Len(text) - 1
<1> DEFINE lines == Lines(text)
           t == Taken(lines)
<1>1. CASE Whole(text)
  BY <1>1 DEF TruncateHead
<1>2. CASE ~Whole(text)
  <2>1. /\ Len(text) \in Nat \ {0} /\ lines \in Texts
        /\ lines = text \/ Len(lines) = Len(text) - 1
        /\ \A i \in 1 .. Len(lines) : lines[i] = text[i]
        /\ ByteLength(text) \in Nat
        /\ lines = <<>> => ByteLength(text) = 0
    BY LinesOf
  <2>2. MaxBytes \in Nat \ {0} /\ MaxLines \in Nat \ {0}
    BY DEF ViewsAssumption
  <2>3. lines # <<>> /\ Len(lines) \in Nat \ {0}
    <3>1. lines = <<>> => Len(lines) = 0
      BY EmptySeq
    <3>2. lines # <<>>
      BY <1>2, <2>1, <2>2, <3>1 DEF Whole
    <3> QED BY <2>1, <3>2, EmptySeq DEF Texts
  <2>4. lines[1] = text[1] /\ lines[1] \in Nat
    <3>1. 1 \in 1 .. Len(lines)
      BY <2>3
    <3> QED BY <2>1, <3>1, ElementOfSeq DEF Texts
  <2>5. CASE lines[1] > MaxBytes
    BY <1>2, <2>4, <2>5 DEF TruncateHead
  <2>6. CASE ~(lines[1] > MaxBytes)
    <3>1. h = [outputLines |-> t, truncated |-> TRUE, firstLineExceedsLimit |-> FALSE]
      BY <1>2, <2>6 DEF TruncateHead
    <3>2. /\ t \in 0 .. Len(lines) /\ t <= MaxLines /\ Sizes(lines)[t] <= MaxBytes
          /\ t < Len(lines) => t = MaxLines \/ Sizes(lines)[t + 1] > MaxBytes
      BY <2>1, TakenFits
    <3>3. Sizes(lines)[0 + 1] = lines[1]
      <4>1. Sizes(lines)[1] = OneMore(Sizes(lines)[1 - 1], lines[1], 1) /\ Sizes(lines)[0] = 0
        <5>1. 1 \in 1 .. Len(lines)
          BY <2>3
        <5> QED BY <2>1, <5>1, SizesOf
      <4> QED BY <2>4, <4>1 DEF OneMore
    <3> HIDE DEF t
    <3>4. t # 0
      BY <2>2, <2>3, <2>6, <3>2, <3>3
    <3>5. ~(t = Len(lines) /\ lines = text)
      <4> SUFFICES ASSUME t = Len(lines), lines = text PROVE FALSE
        OBVIOUS
      <4>1. ByteLength(text) <= MaxBytes /\ Len(lines) <= MaxLines
        BY <3>2 DEF ByteLength
      <4> QED BY <1>2, <4>1 DEF Whole
    <3>6. t \in 1 .. Len(text) - 1
      <4> HIDE DEF lines
      <4>1. CASE lines = text
        BY <2>1, <3>2, <3>4, <3>5, <4>1
      <4>2. CASE Len(lines) = Len(text) - 1
        BY <2>1, <3>2, <3>4, <4>2
      <4> QED BY <2>1, <4>1, <4>2
    <3> QED BY <3>1, <3>6
  <2> QED BY <2>5, <2>6
<1> QED BY <1>1, <1>2

\* The tail of a text is within both limits and as long as they allow.
LEMMA TailShows ==
  ASSUME ViewsAssumption, file \in Texts, file # <<>>
  PROVE  TailIsLongest
<1> DEFINE all == Lines(file)
           tail == TruncateTail(file)
           n == Len(tail.lines)
           kept == Taken(Reverse(all))
<1>1. /\ all \in Texts /\ ByteLength(all) \in Nat /\ ByteLength(file) \in Nat
      /\ ByteLength(all) <= ByteLength(file)
      /\ all = <<>> => ByteLength(file) = 0
  BY LinesOf
<1>2. MaxBytes \in Nat \ {0} /\ MaxLines \in Nat \ {0} /\ Len(all) \in Nat
  BY <1>1, LenProperties DEF ViewsAssumption, Texts
<1>3. CASE Whole(file)
  <2>1. tail = [lines |-> all, truncated |-> FALSE, lastLinePartial |-> FALSE]
    BY <1>3 DEF TruncateTail
  <2>2. Len(all) <= MaxLines /\ ByteLength(all) <= MaxBytes
    BY <1>1, <1>2, <1>3 DEF Whole
  <2>3. SubSeq(all, Len(all) - Len(all) + 1, Len(all)) = all
    <3>1. Len(all) - Len(all) + 1 = 1
      BY <1>2
    <3> QED BY <1>1, <3>1, SubSeqFull DEF Texts
  <2> HIDE DEF all, tail
  <2>4. n = Len(all) /\ tail.lines = all /\ ~tail.truncated /\ ~tail.lastLinePartial
    BY <2>1
  <2>5. ~(n < Len(all))
    BY <1>2, <2>4
  <2> QED BY <2>2, <2>3, <2>4, <2>5 DEF TailIsLongest, all, tail
<1>4. CASE ~Whole(file)
  <2>1. /\ Reverse(all) \in Texts /\ Len(Reverse(all)) = Len(all)
        /\ \A k \in 1 .. Len(all) : Reverse(all)[k] = all[Len(all) - k + 1]
        /\ \A k \in 1 .. Len(all) :
             Sizes(Reverse(all))[k] = ByteLength(SubSeq(all, Len(all) - k + 1, Len(all)))
    BY <1>1, SizesOfReverse
  <2>2. /\ kept \in 0 .. Len(all) /\ kept <= MaxLines /\ Sizes(Reverse(all))[kept] <= MaxBytes
        /\ kept < Len(all) => kept = MaxLines \/ Sizes(Reverse(all))[kept + 1] > MaxBytes
    BY <2>1, TakenFits
  <2>3. Len(all) # 0
    <3>1. all # <<>>
      <4>1. all = <<>> => Len(all) = 0
        BY EmptySeq
      <4> QED BY <1>1, <1>2, <1>4, <4>1 DEF Whole
    <3> QED BY <1>1, <3>1, EmptySeq DEF Texts
  <2>4. CASE kept = 0
    <3>1. tail = [lines |-> <<MaxBytes>>, truncated |-> TRUE, lastLinePartial |-> TRUE]
      BY <1>4, <2>4 DEF TruncateTail
    <3>2. ByteLength(<<MaxBytes>>) = MaxBytes /\ Len(<<MaxBytes>>) = 1
      <4> DEFINE s == <<MaxBytes>>
      <4>1. s \in Texts /\ Len(s) = 1 /\ s[1] = MaxBytes
        BY <1>2 DEF Texts
      <4> HIDE DEF s
      <4>2. Sizes(s)[1] = OneMore(Sizes(s)[1 - 1], s[1], 1) /\ Sizes(s)[0] = 0
        BY <4>1, SizesOf
      <4>3. ByteLength(s) = MaxBytes
        BY <1>2, <4>1, <4>2 DEF ByteLength, OneMore
      <4> QED BY <4>1, <4>3 DEF s
    <3>3. Last(all) > MaxBytes
      <4>1. 1 \in 1 .. Len(all) /\ 1 \in 1 .. Len(Reverse(all)) /\ Len(all) - 1 + 1 = Len(all)
        BY <1>2, <2>1, <2>3
      <4>2. Reverse(all)[1] = all[Len(all)] /\ Reverse(all)[1] \in Nat
        BY <2>1, <4>1, ElementOfSeq DEF Texts
      <4>3. /\ Sizes(Reverse(all))[1] = OneMore(Sizes(Reverse(all))[1 - 1], Reverse(all)[1], 1)
            /\ Sizes(Reverse(all))[0] = 0
        BY <2>1, <4>1, SizesOf
      <4>4. Sizes(Reverse(all))[1] = all[Len(all)]
        BY <4>2, <4>3 DEF OneMore
      <4>5. Sizes(Reverse(all))[0 + 1] > MaxBytes
        <5>1. 0 < Len(all) /\ MaxLines # 0
          BY <1>2, <2>3
        <5> QED BY <2>2, <2>4, <5>1
      <4> QED BY <4>4, <4>5 DEF Last
    <3>4. 1 <= MaxLines /\ MaxBytes <= MaxBytes
      BY <1>2
    <3> HIDE DEF all, tail
    <3>5. n = 1 /\ tail.lines = <<MaxBytes>> /\ tail.truncated /\ tail.lastLinePartial
      BY <3>1, <3>2
    <3> QED BY <3>2, <3>3, <3>4, <3>5 DEF TailIsLongest, all, tail
  <2>5. CASE kept # 0
    <3> DEFINE shortened == SubSeq(all, Len(all) - kept + 1, Len(all))
    <3>1. tail = [lines |-> shortened, truncated |-> TRUE, lastLinePartial |-> FALSE]
      BY <1>4, <2>5 DEF TruncateTail
    <3> HIDE DEF kept
    <3>2. kept \in 1 .. Len(all)
      BY <1>2, <2>2, <2>5
    <3>3. Len(shortened) = kept
      <4>1. /\ Len(all) - kept + 1 \in 1 .. Len(all) /\ Len(all) \in Len(all) - kept + 1 .. Len(all)
            /\ Len(all) - (Len(all) - kept + 1) + 1 = kept
        BY <1>2, <3>2
      <4> QED BY <1>1, <4>1, SizesOfSub
    <3>4. ByteLength(shortened) <= MaxBytes
      BY <2>1, <2>2, <3>2
    <3>5. kept < Len(all) => \/ kept = MaxLines
                             \/ ByteLength(SubSeq(all, Len(all) - kept, Len(all))) > MaxBytes
      <4> SUFFICES ASSUME kept < Len(all), kept # MaxLines
                   PROVE  ByteLength(SubSeq(all, Len(all) - kept, Len(all))) > MaxBytes
        OBVIOUS
      <4>1. kept + 1 \in 1 .. Len(all) /\ Len(all) - (kept + 1) + 1 = Len(all) - kept
        BY <1>2, <3>2
      <4>2. Sizes(Reverse(all))[kept + 1] > MaxBytes
        BY <2>2
      <4>3. Sizes(Reverse(all))[kept + 1]
              = ByteLength(SubSeq(all, Len(all) - (kept + 1) + 1, Len(all)))
        BY <2>1, <4>1
      <4> QED BY <4>1, <4>2, <4>3
    <3> HIDE DEF all, tail
    <3>6. n = kept /\ tail.lines = shortened /\ tail.truncated /\ ~tail.lastLinePartial
      BY <3>1, <3>3
    <3> HIDE DEF shortened
    <3>7. tail.lines = SubSeq(all, Len(all) - n + 1, Len(all))
      BY <3>6 DEF shortened
    <3> QED BY <2>2, <3>4, <3>5, <3>6, <3>7 DEF TailIsLongest, all, tail
  <2> QED BY <2>4, <2>5
<1> QED BY <1>3, <1>4

-----------------------------------------------------------------------------
(* Views: a reader that follows the notes                                  *)

\* The reader goes on behind what it was shown; a read in vain is its last one.
ViewsInv ==
  /\ file \in Texts /\ file # <<>> /\ limit \in Nat
  /\ shown \in Seq(Nat) /\ shown = [i \in 1 .. Len(shown) |-> i]
  /\ next \in 0 .. Len(file) /\ reads \in Nat
  /\ next # 0 => next = Len(shown) + 1 /\ reads <= Len(shown)
  /\ next = 0 => /\ reads <= Len(shown) + 1
                 /\ \/ Len(shown) = Len(file)
                    \/ stuck = Len(shown) + 1 /\ file[stuck] > MaxBytes

LEMMA ViewsInitInv ==
  ASSUME ViewsAssumption, ViewsInit PROVE ViewsInv
<1>1. PICK n \in 1 .. MaxFile : file \in [1 .. n -> Lengths]
  BY DEF ViewsInit
<1>2. n \in Nat /\ n # 0 /\ Lengths \subseteq Nat /\ Limits \subseteq Nat
  BY <1>1 DEF ViewsAssumption
<1>3. file \in Texts /\ Len(file) = n
  <2>1. file \in [1 .. n -> Nat]
    BY <1>1, <1>2
  <2> QED BY <1>2, <2>1 DEF Texts
<1>4. file # <<>> /\ 1 \in 0 .. Len(file)
  BY <1>2, <1>3, EmptySeq
<1>5. shown = <<>> /\ Len(shown) = 0 /\ shown \in Seq(Nat)
  BY EmptySeq DEF ViewsInit
<1>6. shown = [i \in 1 .. Len(shown) |-> i]
  <2>1. <<>> = [i \in 1 .. 0 |-> i]
    OBVIOUS
  <2> QED BY <1>5, <2>1
<1> QED BY <1>2, <1>3, <1>4, <1>5, <1>6 DEF ViewsInit, ViewsInv

\* A read shows the next lines, and its note says what is behind them.
LEMMA FormatShows ==
  ASSUME ViewsAssumption, ViewsInv, next # 0, NEW view, view = FormatText(next)
  PROVE  /\ view.last \in next - 1 .. Len(file)
         /\ \/ view.last = next - 1 /\ view.next = 0 /\ view.stuck = next /\ file[next] > MaxBytes
            \/ view.last >= next /\ view.next = 0 /\ view.last = Len(file)
            \/ view.last >= next /\ view.next = view.last + 1 /\ view.last < Len(file)
<1> DEFINE start == next - 1
           count == IF limit = 0 \/ limit > Len(file) - start THEN Len(file) - start ELSE limit
           text == SubSeq(file, start + 1, start + count)
           head == TruncateHead(text)
<1>1. file \in Texts /\ Len(file) \in Nat /\ next \in 1 .. Len(file) /\ limit \in Nat
  BY LenProperties DEF ViewsInv, Texts
<1>2. /\ start \in Nat /\ start + 1 = next /\ count \in Nat /\ count >= 1
      /\ start + count \in next .. Len(file)
      /\ limit = 0 => start + count = Len(file)
  BY <1>1
<1> HIDE DEF count
<1>3. text \in Texts /\ text # <<>> /\ Len(text) = count /\ text[1] = file[next]
  <2>1. text \in Texts /\ Len(text) = start + count - next + 1
    BY <1>1, <1>2, SizesOfSub
  <2>2. Len(text) = count
    BY <1>1, <1>2, <2>1
  <2>3. \A i \in next .. start + count : file[i] \in Nat
    <3>1. \A i \in next .. start + count : i \in 1 .. Len(file)
      BY <1>1, <1>2
    <3> QED BY <1>1, <3>1, ElementOfSeq DEF Texts
  <2>4. \A i \in 1 .. start + count - next + 1 : text[i] = file[next + i - 1]
    BY <1>1, <1>2, <2>3, SubSeqProperties
  <2>5. text[1] = file[next]
    <3>1. 1 \in 1 .. start + count - next + 1 /\ next + 1 - 1 = next
      BY <1>1, <1>2
    <3> QED BY <2>4, <3>1
  <2>6. text # <<>>
    <3>1. text = <<>> => Len(text) = 0
      BY EmptySeq
    <3> QED BY <1>2, <2>2, <3>1
  <2> QED BY <2>1, <2>2, <2>5, <2>6
<1> HIDE DEF text
<1>4. \/ ~head.truncated /\ ~head.firstLineExceedsLimit
      \/ head.truncated /\ head.firstLineExceedsLimit /\ text[1] > MaxBytes
      \/ /\ head.truncated /\ ~head.firstLineExceedsLimit
         /\ head.outputLines \in 1 .. Len(text) - 1
  BY <1>3, HeadShows
<1>5. view = CASE head.firstLineExceedsLimit ->
                    [last |-> start, next |-> 0, stuck |-> next]
               [] head.truncated /\ ~head.firstLineExceedsLimit ->
                    [last |-> start + head.outputLines, next |-> start + head.outputLines + 1,
                     stuck |-> 0]
               [] ~head.truncated ->
                    [last |-> start + count, stuck |-> 0,
                     next |-> IF limit # 0 /\ start + count < Len(file)
                              THEN start + count + 1 ELSE 0]
  BY DEF FormatText, text, count
<1> HIDE DEF head
<1>6. CASE ~head.truncated /\ ~head.firstLineExceedsLimit
  <2>1. view = [last |-> start + count, stuck |-> 0,
                next |-> IF limit # 0 /\ start + count < Len(file)
                         THEN start + count + 1 ELSE 0]
    BY <1>5, <1>6
  <2> QED BY <1>1, <1>2, <2>1
<1>7. CASE head.truncated /\ head.firstLineExceedsLimit /\ text[1] > MaxBytes
  <2>1. view = [last |-> start, next |-> 0, stuck |-> next]
    BY <1>5, <1>7
  <2> QED BY <1>1, <1>2, <1>3, <1>7, <2>1
<1>8. CASE /\ head.truncated /\ ~head.firstLineExceedsLimit
           /\ head.outputLines \in 1 .. Len(text) - 1
  <2>1. view = [last |-> start + head.outputLines, next |-> start + head.outputLines + 1,
                stuck |-> 0]
    BY <1>5, <1>8
  <2> QED BY <1>1, <1>2, <1>3, <1>8, <2>1
<1> QED BY <1>4, <1>6, <1>7, <1>8

LEMMA ReadOnInv ==
  ASSUME ViewsAssumption, ViewsInv, ReadOn PROVE ViewsInv'
<1> DEFINE view == FormatText(next)
           more == [i \in 1 .. view.last - next + 1 |-> next + i - 1]
<1>1. /\ next' = view.next /\ stuck' = view.stuck /\ shown' = shown \o more
      /\ reads' = reads + 1 /\ file' = file /\ limit' = limit /\ next \in 1 .. Len(file)
  BY DEF ReadOn
<1>2. /\ file \in Texts /\ Len(file) \in Nat /\ shown \in Seq(Nat) /\ Len(shown) \in Nat
      /\ shown = [i \in 1 .. Len(shown) |-> i] /\ reads \in Nat
      /\ next = Len(shown) + 1 /\ reads <= Len(shown)
  BY <1>1, LenProperties DEF ViewsInv, Texts
<1>3. /\ view.last \in next - 1 .. Len(file)
      /\ \/ view.last = next - 1 /\ view.next = 0 /\ view.stuck = next /\ file[next] > MaxBytes
         \/ view.last >= next /\ view.next = 0 /\ view.last = Len(file)
         \/ view.last >= next /\ view.next = view.last + 1 /\ view.last < Len(file)
  <2>1. next # 0
    BY <1>1
  <2> QED BY <2>1, FormatShows
<1> HIDE DEF view
<1>4. /\ shown' \in Seq(Nat) /\ Len(shown') = view.last
      /\ shown' = [i \in 1 .. Len(shown') |-> i]
  <2> DEFINE size == view.last - next + 1
  <2>1. size \in Nat /\ Len(shown) + size = view.last
    BY <1>1, <1>2, <1>3
  <2>2. \A i \in 1 .. size : next + i - 1 \in Nat
    BY <1>1, <2>1
  <2>3. more \in Seq(Nat) /\ Len(more) = size /\ \A i \in 1 .. size : more[i] = next + i - 1
    <3> HIDE DEF size
    <3>1. more = [i \in 1 .. size |-> next + i - 1]
      BY DEF size
    <3> HIDE DEF more
    <3> QED BY <2>1, <2>2, <3>1
  <2> HIDE DEF more, size
  <2>4. /\ shown' \in Seq(Nat) /\ Len(shown') = Len(shown) + size
        /\ \A i \in 1 .. Len(shown) + size :
             shown'[i] = IF i <= Len(shown) THEN shown[i] ELSE more[i - Len(shown)]
    BY <1>1, <1>2, <2>3, ConcatProperties
  <2>5. ASSUME NEW i \in 1 .. Len(shown') PROVE shown'[i] = i
    <3>1. CASE i <= Len(shown)
      <4>1. i \in 1 .. Len(shown) /\ i \in 1 .. Len(shown) + size
        BY <1>2, <2>1, <2>4, <3>1
      <4>2. shown[i] = i
        BY <1>2, <4>1
      <4> QED BY <2>4, <3>1, <4>1, <4>2
    <3>2. CASE ~(i <= Len(shown))
      <4>1. i - Len(shown) \in 1 .. size /\ i \in 1 .. Len(shown) + size
            /\ next + (i - Len(shown)) - 1 = i
        BY <1>2, <2>1, <2>4, <3>2
      <4> QED BY <2>3, <2>4, <3>2, <4>1
    <3> QED BY <3>1, <3>2
  <2>6. shown' = [i \in 1 .. Len(shown') |-> i]
    <3>1. shown' \in [1 .. Len(shown') -> Nat]
      BY <2>4, LenProperties
    <3> QED BY <2>5, <3>1
  <2> QED BY <2>1, <2>4, <2>6
<1> HIDE DEF more
<1>5. CASE view.last = next - 1 /\ view.next = 0 /\ view.stuck = next /\ file[next] > MaxBytes
  <2>1. next' = 0 /\ Len(shown') = Len(shown) /\ reads' \in Nat /\ reads' <= Len(shown') + 1
    <3>1. Len(shown) \in Nat /\ next = Len(shown) + 1 /\ reads \in Nat /\ reads <= Len(shown)
      BY <1>2
    <3>2. Len(shown') = next - 1 /\ next' = 0 /\ reads' = reads + 1
      BY <1>1, <1>4, <1>5
    <3> QED BY <3>1, <3>2
  <2>2. stuck' = Len(shown') + 1 /\ file'[stuck'] > MaxBytes
    BY <1>1, <1>2, <1>5, <2>1
  <2>3. next' \in 0 .. Len(file')
    BY <1>1, <1>2, <2>1
  <2> QED BY <1>1, <1>4, <2>1, <2>2, <2>3 DEF ViewsInv
<1>6. CASE view.last >= next /\ view.next = 0 /\ view.last = Len(file)
  <2>1. next' = 0 /\ Len(shown') = Len(file') /\ reads' \in Nat /\ reads' <= Len(shown') + 1
    BY <1>1, <1>2, <1>4, <1>6
  <2>2. next' \in 0 .. Len(file')
    BY <1>1, <1>2, <2>1
  <2> QED BY <1>1, <1>4, <2>1, <2>2 DEF ViewsInv
<1>7. CASE view.last >= next /\ view.next = view.last + 1 /\ view.last < Len(file)
  <2>1. next' # 0 /\ next' = Len(shown') + 1 /\ next' \in 0 .. Len(file') /\ reads' <= Len(shown')
        /\ reads' \in Nat
    BY <1>1, <1>2, <1>4, <1>7
  <2> QED BY <1>1, <1>2, <1>4, <2>1 DEF ViewsInv
<1> QED BY <1>3, <1>5, <1>6, <1>7

\* Whatever the text and the limits, a reader that follows the notes is shown every line
\* once up to the end or to one that it is told is too long, and the tail of an output
\* is the longest that fits (formatText, truncateHead, truncateTail).
THEOREM ViewsStayHonest ==
  ASSUME ViewsAssumption PROVE ViewsSpec => []ViewsAreHonest
<1>1. ViewsInit => ViewsInv
  BY ViewsInitInv
<1>2. ViewsInv /\ [ViewsNext]_viewVars => ViewsInv'
  <2> SUFFICES ASSUME ViewsInv, [ViewsNext]_viewVars PROVE ViewsInv'
    OBVIOUS
  <2>1. CASE ReadOn
    BY <2>1, ReadOnInv
  <2>2. CASE UNCHANGED viewVars
    BY <2>2 DEF ViewsInv, viewVars
  <2> QED BY <2>1, <2>2 DEF ViewsNext
<1>3. ViewsInv => ViewsAreHonest
  <2> SUFFICES ASSUME ViewsInv PROVE ViewsAreHonest
    OBVIOUS
  <2>1. Len(shown) \in Nat /\ Len(file) \in Nat
    BY LenProperties DEF ViewsInv, Texts
  <2>2. PagesCoverFile
    BY <2>1 DEF PagesCoverFile, ViewsInv
  <2>3. TailIsLongest
    BY TailShows DEF ViewsInv
  <2> QED BY <2>2, <2>3 DEF ViewsAreHonest
<1> QED BY <1>1, <1>2, <1>3, PTL DEF ViewsSpec
=============================================================================
