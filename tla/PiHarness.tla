------------------------------ MODULE PiHarness ------------------------------
(***************************************************************************)
(* The pi-no-compaction harness (harness.ts): the conversation of a        *)
(* session, the batch of tool calls of its current model turn, and the     *)
(* steering messages that wait for the turn to end.                        *)
(*                                                                         *)
(* An input is handled as a whole: handle plans changes and operations on  *)
(* a context, the runtime gets the operations accepted, and apply commits  *)
(* the changes together with the consumption of the input.  The runtime    *)
(* delivers inputs one at a time, and the completion of an operation once; *)
(* completions of concurrent operations come in any order (SessionRuntime  *)
(* and SessionLog model how).  An operation ID is the pair of the input    *)
(* that planned it and its key: 0 for "llm", i for the tool of call i.     *)
(*                                                                         *)
(* A call is known by whether it mutates files (edit, write) and whether   *)
(* its arguments parse.  Sizes are counted in messages: MaxContext of them *)
(* fit in one request.                                                     *)
(***************************************************************************)
EXTENDS Integers, Sequences, FiniteSets

CONSTANTS
  Batches,      \* tool calls a response may have, in order
  MaxContext,   \* MAX_OPERATION_INPUT_BYTES, in messages of the context
  MaxMessages,  \* bound on user messages
  MaxCancels,   \* bound on cancel inputs
  MaxResumes,   \* bound on resume inputs
  MaxTurns      \* bound on responses with tool calls

Calls == [mutation : BOOLEAN, valid : BOOLEAN]

ASSUME PiAssumption ==
  /\ \A calls \in Batches : calls \in Seq(Calls)
  /\ MaxContext \in Nat
  /\ MaxMessages \in Nat
  /\ MaxCancels \in Nat
  /\ MaxResumes \in Nat
  /\ MaxTurns \in Nat

VARIABLES
  s,         \* the row of pi_no_compaction_state
  messages,  \* table pi_no_compaction_messages
  pending,   \* table pi_no_compaction_pending_messages: events of the messages
  batch,     \* table pi_no_compaction_batch
  status,    \* the status last returned to the host
  sequence,  \* inputs handled so far
  open,      \* the runtime's accepted operations without a completion
  inputs,    \* history: how many inputs of each type were sent
  received,  \* history: the sequence numbers of user messages
  launched   \* history: operation -> <<assistant row, call>> it runs

vars == <<s, messages, pending, batch, status, sequence, open, inputs, received, launched>>

NoOperation == <<0, 0>>
NoResult    == "null"
NoError     == 0

UserMessage(event) == [role |-> "user", event |-> event, in_context |-> TRUE]

AssistantMessage(calls, in_context) ==
  [role |-> "assistant", calls |-> calls, in_context |-> in_context]

\* What a result tells the model: the call ran, it may have run (unknown), or it was
\* not executed.
ToolResult(index, row) ==
  [role |-> "tool_result", index |-> index, result |-> row.result,
   operation_id |-> row.operation_id, in_context |-> TRUE]

-----------------------------------------------------------------------------
(* A context is what handle works on: the state it read, the rows and      *)
(* messages it proposes, the operations it plans.                          *)

Read == [s |-> s, messages |-> messages, pending |-> pending, batch |-> batch,
         operations |-> {}, status |-> status, sequence |-> sequence + 1]

\* A HarnessFailure: what was proposed before it stays.
Fail(ctx, error) ==
  [ctx EXCEPT !.status = "failed",
              !.s = [@ EXCEPT !.phase = "failed", !.active_operation_id = NoOperation,
                              !.active_assistant_sequence = 0, !.next_tool_index = 0,
                              !.last_error = error, !.cancel_requested = FALSE]]

Context(log) == SelectSeq(log, LAMBDA m : m.in_context)

RequestLlm(ctx) ==
  IF Len(Context(ctx.messages)) > MaxContext
  THEN Fail(ctx, ctx.sequence)
  ELSE [ctx EXCEPT !.operations = @ \cup {<<ctx.sequence, 0>>},
                   !.s = [@ EXCEPT !.phase = "llm",
                                   !.active_operation_id = <<ctx.sequence, 0>>,
                                   !.active_assistant_sequence = 0,
                                   !.next_tool_index = 0]]

\* Variant: what is promoted also stays in the pending table.
PromoteAndKeep(ctx) ==
  [ctx EXCEPT !.messages = @ \o [i \in DOMAIN ctx.pending |-> UserMessage(ctx.pending[i])]]

PromoteSteering(ctx) ==
  [ctx EXCEPT !.messages = @ \o [i \in DOMAIN ctx.pending |-> UserMessage(ctx.pending[i])],
              !.pending = <<>>]

FinishTurn(ctx, hadTools) ==
  LET ended == [ctx EXCEPT !.s = [@ EXCEPT !.active_operation_id = NoOperation,
                                           !.active_assistant_sequence = 0,
                                           !.next_tool_index = 0]]
  IN  IF ctx.s.cancel_requested
      THEN [ended EXCEPT !.status = "cancelled", !.s.phase = "cancelled",
                         !.s.cancel_requested = FALSE]
      ELSE IF hadTools \/ ctx.pending # <<>>
           THEN RequestLlm(PromoteSteering(ended))
           ELSE [ended EXCEPT !.status = "idle", !.s.phase = "idle"]

CurrentCalls(ctx) == ctx.messages[ctx.s.active_assistant_sequence].calls

\* Variant: mutations start like any other call.
TriedWithoutLane(rows, calls) == {i \in DOMAIN rows : rows[i].status = "queued"}

\* Variant: an earlier mutation holds the lane even if it will be refused.
TriedBehindRefused(rows, calls) ==
  {i \in DOMAIN rows :
     /\ rows[i].status = "queued"
     /\ calls[i].mutation =>
          \A j \in {k \in DOMAIN rows : calls[k].mutation} :
            rows[j].status # "active" /\ (j < i => rows[j].status = "done")}

\* The queued calls that the pass of advanceTools tries: every read and bash,
\* and a mutation when none is active and no earlier one is about to start.
Tried(rows, calls) ==
  {i \in DOMAIN rows :
     /\ rows[i].status = "queued"
     /\ calls[i].mutation =>
          \A j \in {k \in DOMAIN rows : calls[k].mutation} :
            /\ rows[j].status # "active"
            /\ j < i => ~(rows[j].status = "queued" /\ calls[j].valid)}

\* The batch after the pass: a call that is tried starts, or is refused when
\* its arguments do not parse.  After a failure, what is queued is skipped.
Dispatched(ctx) ==
  LET rows    == ctx.batch
      calls   == CurrentCalls(ctx)
      failed  == ctx.s.last_error # NoError
      starts  == {i \in Tried(rows, calls) : ~failed /\ calls[i].valid}
      refused == IF failed
                 THEN {i \in DOMAIN rows : rows[i].status = "queued"}
                 ELSE Tried(rows, calls) \ starts
  IN  [ctx EXCEPT
        !.operations = @ \cup ({ctx.sequence} \X starts),
        !.batch = [i \in DOMAIN rows |->
          CASE i \in starts ->
                 [rows[i] EXCEPT !.status = "active", !.operation_id = <<ctx.sequence, i>>]
            [] i \in refused ->
                 [rows[i] EXCEPT !.status = "done", !.result = "not_executed"]
            [] OTHER -> rows[i]]]

\* The results of the done rows that follow the flushed ones without a gap
\* enter the transcript.
Flushed(ctx) ==
  LET rows == ctx.batch
      next == ctx.s.next_tool_index
      last == CHOOSE n \in next .. Len(rows) :
                /\ \A i \in next + 1 .. n : rows[i].status = "done"
                /\ n < Len(rows) => rows[n + 1].status # "done"
  IN  [ctx EXCEPT
        !.messages = @ \o [i \in 1 .. last - next |-> ToolResult(next + i, rows[next + i])],
        !.batch = [i \in DOMAIN rows |->
          IF i \in next + 1 .. last THEN [rows[i] EXCEPT !.result = NoResult] ELSE rows[i]],
        !.s.next_tool_index = last]

AdvanceTools(ctx) ==
  LET flushed == Flushed(Dispatched(ctx))
      cleared == [flushed EXCEPT !.batch = <<>>]
  IN  IF flushed.s.next_tool_index # Len(flushed.batch)
      THEN flushed
      ELSE IF ctx.s.last_error # NoError
           THEN Fail(cleared, ctx.s.last_error)
           ELSE FinishTurn(cleared, TRUE)

-----------------------------------------------------------------------------
(* Completions.  An LLM outcome is failed when no response can be stored:  *)
(* it failed, is malformed or too large; excluded when the response is     *)
(* stored outside the context: wrong model, incomplete, unusable calls.    *)

LlmOutcomes == [kind : {"failed", "excluded"}, calls : {<<>>}]
                 \cup [kind : {"succeeded"}, calls : Batches \cup {<<>>}]

CompleteLlm(ctx, outcome) ==
  LET row  == AssistantMessage(outcome.calls, outcome.kind = "succeeded")
      kept == [ctx EXCEPT !.messages = Append(@, row), !.s.active_operation_id = NoOperation]
  IN  IF outcome.kind = "failed" THEN Fail(ctx, ctx.sequence)
      ELSE IF outcome.kind = "excluded" THEN Fail(kept, ctx.sequence)
      ELSE IF outcome.calls = <<>> THEN FinishTurn(kept, FALSE)
      ELSE AdvanceTools(
             [kept EXCEPT
               !.s = [@ EXCEPT !.phase = "tools", !.next_tool_index = 0,
                               !.active_assistant_sequence = Len(kept.messages)],
               !.batch = [i \in DOMAIN outcome.calls |->
                 [status |-> "queued", operation_id |-> NoOperation, result |-> NoResult]]])

\* Whether the tool gave a usable answer (an error of the command is one),
\* the machine lost it, or the outcome failed or cannot be kept.
ToolOutcomes == {"answered", "lost", "unusable"}

\* Variant: an outcome that cannot be kept is told as if nothing had run.
CompleteAsNotExecuted(ctx, operation, outcome) ==
  LET found == {i \in DOMAIN ctx.batch : /\ ctx.batch[i].operation_id = operation
                                         /\ ctx.batch[i].status = "active"}
  IN  AdvanceTools(
        [ctx EXCEPT
          !.batch = [i \in DOMAIN ctx.batch |->
            IF i \in found
            THEN [ctx.batch[i] EXCEPT !.status = "done",
                    !.result = IF outcome = "unusable" THEN "not_executed" ELSE "ran"]
            ELSE ctx.batch[i]],
          !.s.last_error = IF outcome # "answered" /\ @ = NoError THEN ctx.sequence ELSE @])

CompleteTool(ctx, operation, outcome) ==
  LET found  == {i \in DOMAIN ctx.batch : /\ ctx.batch[i].operation_id = operation
                                          /\ ctx.batch[i].status = "active"}
      result == IF outcome = "unusable" THEN "unknown" ELSE "ran"
      error  == IF outcome # "answered" /\ ctx.s.last_error = NoError
                THEN ctx.sequence ELSE ctx.s.last_error
  IN  IF found = {} THEN ctx
      ELSE AdvanceTools(
             [ctx EXCEPT
               !.batch = [i \in DOMAIN ctx.batch |->
                 IF i \in found THEN [ctx.batch[i] EXCEPT !.status = "done", !.result = result]
                                ELSE ctx.batch[i]],
               !.s.last_error = error])

\* A run begins, with a message or by resuming.
StartRun(ctx) ==
  [ctx EXCEPT !.status = "running",
              !.s = [@ EXCEPT !.run_id = ctx.sequence, !.last_error = NoError,
                              !.cancel_requested = FALSE]]

-----------------------------------------------------------------------------
(* handle and apply: one action per type of input.                         *)

Init ==
  /\ s = [phase |-> "idle", run_id |-> 0, active_operation_id |-> NoOperation,
          active_assistant_sequence |-> 0, next_tool_index |-> 0,
          cancel_requested |-> FALSE, last_error |-> NoError]
  /\ messages = <<>>
  /\ pending = <<>>
  /\ batch = <<>>
  /\ status = "idle"
  /\ sequence = 0
  /\ open = {}
  /\ inputs = [message |-> 0, cancel |-> 0, resume |-> 0, turn |-> 0]
  /\ received = {}
  /\ launched = <<>>

\* The runtime's commit of a handled input and of the operations it planned.
Apply(plan, completed) ==
  \E ctx \in {plan} :
    /\ s' = ctx.s
    /\ messages' = ctx.messages
    /\ pending' = ctx.pending
    /\ batch' = ctx.batch
    /\ status' = ctx.status
    /\ sequence' = ctx.sequence
    /\ open' = (open \ completed) \cup ctx.operations
    /\ launched' = [op \in DOMAIN launched \cup {o \in ctx.operations : o[2] # 0} |->
                      IF op \in DOMAIN launched THEN launched[op]
                      ELSE <<ctx.s.active_assistant_sequence, op[2]>>]

Counted(type) == inputs' = [inputs EXCEPT ![type] = @ + 1]

HandleMessage ==
  /\ inputs.message < MaxMessages
  /\ Counted("message")
  /\ received' = received \cup {sequence + 1}
  /\ Apply(IF s.phase = "idle"
           THEN RequestLlm([StartRun(Read) EXCEPT
                  !.messages = Append(@, UserMessage(sequence + 1))])
           ELSE [Read EXCEPT !.pending = Append(@, sequence + 1)],
           {})

HandleCancel(run_id) ==
  /\ inputs.cancel < MaxCancels
  /\ Counted("cancel")
  /\ Apply(IF run_id = s.run_id /\ s.phase \in {"llm", "tools"} /\ ~s.cancel_requested
           THEN [Read EXCEPT !.status = "cancelling", !.s.cancel_requested = TRUE]
           ELSE Read,
           {})
  /\ UNCHANGED received

HandleResume ==
  /\ inputs.resume < MaxResumes
  /\ Counted("resume")
  /\ Apply(IF s.phase \in {"cancelled", "failed"}
           THEN RequestLlm(PromoteSteering(StartRun(Read)))
           ELSE Read,
           {})
  /\ UNCHANGED received

\* A completion that the state does not wait for is consumed without effect.
HandleLlmCompleted(operation, outcome) ==
  /\ operation \in open /\ operation[2] = 0
  /\ outcome.calls # <<>> => inputs.turn < MaxTurns
  /\ IF outcome.calls # <<>> THEN Counted("turn") ELSE UNCHANGED inputs
  /\ Apply(IF s.phase = "llm" /\ operation = s.active_operation_id
           THEN CompleteLlm(Read, outcome) ELSE Read,
           {operation})
  /\ UNCHANGED received

\* Only bash reports that the machine lost a command.
LaunchedCall(operation) == messages[launched[operation][1]].calls[launched[operation][2]]

HandleToolCompleted(operation, outcome) ==
  /\ operation \in open /\ operation[2] # 0
  /\ outcome = "lost" => ~LaunchedCall(operation).mutation
  /\ Apply(IF s.phase = "tools" THEN CompleteTool(Read, operation, outcome) ELSE Read,
           {operation})
  /\ UNCHANGED <<inputs, received>>

Completes ==
  \E operation \in open :
    \/ \E outcome \in LlmOutcomes  : HandleLlmCompleted(operation, outcome)
    \/ \E outcome \in ToolOutcomes : HandleToolCompleted(operation, outcome)

Next ==
  \/ HandleMessage
  \/ \E run_id \in 1 .. sequence : HandleCancel(run_id)
  \/ HandleResume
  \/ Completes

Spec == Init /\ [][Next]_vars

\* Providers deliver an outcome of every accepted operation, and the runtime
\* handles what is admitted.  This is WF_vars(Completes) written out: Completes
\* is enabled while an operation is open, and only it closes one.
Fairness == []<>(open = {}) \/ []<><<open \ open' # {}>>_vars

FairSpec == Spec /\ Fairness

-----------------------------------------------------------------------------
(* Properties.                                                             *)

\* A log is coherent when every response is followed by one result for each of
\* its calls, in the order of the calls, no result stands elsewhere, and a response
\* and its results are in the context together.  What the context leaves out is then
\* outside every such group, so that the groups are as whole in the context.
Coherent(log) ==
  /\ \A i \in DOMAIN log : log[i].role = "assistant" =>
       \A k \in DOMAIN log[i].calls :
         /\ i + k \in DOMAIN log /\ log[i + k].role = "tool_result" /\ log[i + k].index = k
         /\ log[i].in_context /\ log[i + k].in_context
  /\ \A i \in DOMAIN log : log[i].role = "tool_result" =>
       LET a == i - log[i].index
       IN  a \in DOMAIN log /\ log[a].role = "assistant" /\ log[i].index \in DOMAIN log[a].calls

\* Whatever the order of completions, failures, cancellation and steering, the
\* context of a request that is out, or that the next message or resume will
\* send, pairs every call with its result (advanceTools, finishTurn).
ContextCoherent == s.phase # "tools" => Coherent(messages)

\* The harness waits for exactly the operations that are open: no effect is
\* orphaned by a failure or a cancellation, and none is waited for in vain
\* (completeTool: already submitted siblings must settle first).
NoOrphan ==
  open = {op \in {s.active_operation_id} : op # NoOperation}
           \cup {batch[i].operation_id : i \in {j \in DOMAIN batch : batch[j].status = "active"}}

\* Edits and writes of a turn take effect in the order of the calls: while one
\* is active, all earlier ones are done and no later one is (advanceTools).
MutationsInOrder ==
  s.phase = "tools" =>
    \A i, j \in DOMAIN batch :
      LET calls == messages[s.active_assistant_sequence].calls
      IN  /\ i < j /\ calls[i].mutation /\ calls[j].mutation
          /\ batch[j].operation_id # NoOperation
          => batch[i].status = "done"

UserRows == {i \in DOMAIN messages : messages[i].role = "user"}

\* A user message is kept once, in the transcript or among the pending ones,
\* messages enter the transcript in the order of admission, and none is left
\* waiting in a session that waits for a message itself (promoteSteering, the
\* deletion in apply, finishTurn going on when there was steering).
SteeringOnce ==
  /\ {messages[i].event : i \in UserRows} \cup {pending[i] : i \in DOMAIN pending} = received
  /\ \A i, j \in UserRows : i < j => messages[i].event < messages[j].event
  /\ \A i, j \in DOMAIN pending : i < j => pending[i] < pending[j]
  /\ \A i \in UserRows, j \in DOMAIN pending : messages[i].event < pending[j]
  /\ s.phase = "idle" => pending = <<>>

\* The transcript is one a model can be sent, and holds every message once.
TranscriptCoherent == ContextCoherent /\ SteeringOnce

\* Every operation that is out is waited for, mutations one at a time in call order.
CallsInOrder == NoOrphan /\ MutationsInOrder

\* A call runs at most once, and what is told of it is true: a call is reported to
\* the model as not executed exactly if no operation ran it, and the last status the
\* host was given is the one the state stands for, also after a handle that failed.
ResultsAreTrue ==
  /\ \A p, q \in DOMAIN launched : launched[p] = launched[q] => p = q
  /\ \A i \in DOMAIN messages : messages[i].role = "tool_result" =>
       (messages[i].result = "not_executed")
         <=> \A op \in DOMAIN launched : launched[op] # <<i - messages[i].index, messages[i].index>>
  /\ status = IF s.phase \in {"llm", "tools"}
              THEN IF s.cancel_requested THEN "cancelling" ELSE "running"
              ELSE s.phase

\* A batch always drains, its lane of mutations never waiting for nothing, and a
\* cancellation that was accepted takes effect (advanceTools, finishTurn).
TurnsEnd ==
  /\ s.phase = "tools" ~> s.phase # "tools"
  /\ s.cancel_requested ~> s.phase \in {"cancelled", "failed"}
=============================================================================
