------------------------- MODULE MinimalBashHarness -------------------------
(***************************************************************************)
(* The minimal-bash harness (harness.ts, state.ts, openai.ts): one bash    *)
(* call at a time, in the order of the response, and messages that wait    *)
(* for the model turn to end; together with a client that pages through    *)
(* the pending messages and then through the transcript (state.ts).        *)
(*                                                                         *)
(* An input is handled as a whole, as in PiHarness: handle plans changes   *)
(* on a context, and apply commits them with the consumption of the input. *)
(* An operation ID is the pair of the input that planned it and its key: 0 *)
(* for "llm", i for "bash:" and the ID of call i.                          *)
(*                                                                         *)
(* Unlike PiHarness this module keeps the size of a user message, because  *)
(* it decides three things: whether the message may wait, whether it may   *)
(* enter the transcript, and how many rows a page holds.  Other rows have  *)
(* size 1.  turn_count, which is only displayed, is left out.              *)
(***************************************************************************)
EXTENDS Integers, Sequences, FiniteSets, FiniteSetsExt, SequencesExt

CONSTANTS
  Batches,      \* calls a response may have: for each, whether its arguments parse
  Sizes,        \* sizes of user messages
  RowLimit,     \* MAX_OPERATION_OUTCOME_BYTES, the limit of assertMessageSize
  MaxContext,   \* MAX_OPERATION_INPUT_BYTES, in messages of the context
  PageBytes,    \* PAGE_JSON_BYTES
  PageLimit,    \* the limit a client asks for
  MaxMessages,  \* bound on user messages
  MaxCancels,   \* bound on cancel inputs
  MaxResumes,   \* bound on resume inputs
  MaxTurns      \* bound on responses with calls

ASSUME MinimalBashAssumption ==
  /\ \A calls \in Batches : calls \in Seq(BOOLEAN)
  /\ Sizes \subseteq Nat \ {0}
  /\ {RowLimit, MaxContext, PageBytes, PageLimit} \subseteq Nat \ {0}
  /\ {MaxMessages, MaxCancels, MaxResumes, MaxTurns} \subseteq Nat

VARIABLES
  s,         \* the row of minimal_bash_state
  messages,  \* table minimal_bash_messages, by sequence
  pending,   \* table minimal_bash_pending_messages, by input_sequence
  status,    \* the status last returned to the host
  sequence,  \* inputs handled so far
  open,      \* the runtime's accepted operations without a completion
  inputs,    \* history: how many inputs of each type were sent
  received,  \* history: the user messages that were kept
  launched,  \* history: operation -> <<assistant row, call>> it runs
  abandoned, \* history: the operations a run waited for when a size failure ended it
  reader     \* the client that pages: its cursor, and the messages that were kept
             \* when it began and that it has not been shown

harness == <<s, messages, pending, status, sequence, open, inputs, received, launched, abandoned>>
vars == <<harness, reader>>

NoOperation == <<0, 0>>

UserMessage(m) == [role |-> "user", event |-> m.event, size |-> m.size, in_context |-> TRUE]

AssistantMessage(calls, in_context) ==
  [role |-> "assistant", calls |-> calls, size |-> 1, in_context |-> in_context]

\* What a result tells the model: the call ran, may have run, or was not executed.
ToolResult(index, result) ==
  [role |-> "tool_result", index |-> index, result |-> result, size |-> 1, in_context |-> TRUE]

\* assertMessageSize serialises the message with its correlation: the event
\* alone for a message that waits, more fields for a row of the transcript.
MayWait(size)  == size + 1 <= RowLimit
MayEnter(size) == size + 2 <= RowLimit

-----------------------------------------------------------------------------
(* The context of handle.                                                  *)

Read == [s |-> s, messages |-> messages, pending |-> pending, operations |-> {},
         status |-> status, sequence |-> sequence + 1]

\* A HarnessFailure: what was proposed before it stays.
Fail(ctx) ==
  [ctx EXCEPT !.status = "failed",
              !.s = [@ EXCEPT !.phase = "failed", !.active_operation_id = NoOperation,
                              !.active_assistant_sequence = 0, !.next_tool_index = 0,
                              !.failed = TRUE, !.cancel_requested = FALSE]]

Context(log) == SelectSeq(log, LAMBDA m : m.in_context)

RequestLlm(ctx) ==
  IF Len(Context(ctx.messages)) > MaxContext
  THEN Fail(ctx)
  ELSE [ctx EXCEPT !.operations = @ \cup {<<ctx.sequence, 0>>},
                   !.s = [@ EXCEPT !.phase = "llm",
                                   !.active_operation_id = <<ctx.sequence, 0>>,
                                   !.active_assistant_sequence = 0,
                                   !.next_tool_index = 0]]

\* Variant: what is promoted also stays in the pending table.
RequestAndKeepSteering(ctx) ==
  RequestLlm([ctx EXCEPT !.messages = @ \o [i \in DOMAIN ctx.pending |-> UserMessage(ctx.pending[i])]])

\* promoteSteering, and the request that follows it.  A waiting message that
\* may not enter ends the loop: the ones before it are proposed, and none is
\* deleted.
RequestWithSteering(ctx) ==
  LET large == {i \in DOMAIN ctx.pending : ~MayEnter(ctx.pending[i].size)}
      n     == IF large = {} THEN Len(ctx.pending) ELSE Min(large) - 1
      grown == [ctx EXCEPT !.messages = @ \o [i \in 1 .. n |-> UserMessage(ctx.pending[i])]]
  IN  IF large # {} THEN Fail(grown) ELSE RequestLlm([grown EXCEPT !.pending = <<>>])

\* Variant: a turn without calls does not look at the cancellation.
FinishTurnOfText(ctx, hadTools) ==
  LET ended == [ctx EXCEPT !.s = [@ EXCEPT !.active_operation_id = NoOperation,
                                           !.active_assistant_sequence = 0,
                                           !.next_tool_index = 0]]
  IN  IF ctx.s.cancel_requested /\ hadTools
      THEN [ended EXCEPT !.status = "cancelled", !.s.phase = "cancelled",
                         !.s.cancel_requested = FALSE]
      ELSE IF hadTools \/ ctx.pending # <<>>
           THEN RequestWithSteering(ended)
           ELSE [ended EXCEPT !.status = "idle", !.s.phase = "idle"]

FinishTurn(ctx, hadTools) ==
  LET ended == [ctx EXCEPT !.s = [@ EXCEPT !.active_operation_id = NoOperation,
                                           !.active_assistant_sequence = 0,
                                           !.next_tool_index = 0]]
  IN  IF ctx.s.cancel_requested
      THEN [ended EXCEPT !.status = "cancelled", !.s.phase = "cancelled",
                         !.s.cancel_requested = FALSE]
      ELSE IF hadTools \/ ctx.pending # <<>>
           THEN RequestWithSteering(ended)
           ELSE [ended EXCEPT !.status = "idle", !.s.phase = "idle"]

CurrentCalls(ctx) == ctx.messages[ctx.s.active_assistant_sequence].calls

\* Variant: a call whose arguments do not parse is passed over.
AdvancePast(ctx) ==
  LET calls  == CurrentCalls(ctx)
      valid  == {i \in DOMAIN calls : i > ctx.s.next_tool_index /\ calls[i]}
      stop   == IF valid = {} THEN Len(calls) ELSE Min(valid) - 1
      passed == [ctx EXCEPT !.s.next_tool_index = stop]
  IN  IF valid = {} THEN FinishTurn(passed, TRUE)
      ELSE [passed EXCEPT !.operations = @ \cup {<<ctx.sequence, stop + 1>>},
                          !.s.active_operation_id = <<ctx.sequence, stop + 1>>,
                          !.s.phase = "bash"]

\* Calls up to the next one whose arguments parse are refused; that one starts,
\* or the turn is finished.
AdvanceTools(ctx) ==
  LET calls   == CurrentCalls(ctx)
      next    == ctx.s.next_tool_index
      valid   == {i \in DOMAIN calls : i > next /\ calls[i]}
      stop    == IF valid = {} THEN Len(calls) ELSE Min(valid) - 1
      refused == [ctx EXCEPT
                   !.messages = @ \o [i \in 1 .. stop - next |-> ToolResult(next + i, "not_executed")],
                   !.s.next_tool_index = stop]
  IN  IF valid = {} THEN FinishTurn(refused, TRUE)
      ELSE [refused EXCEPT !.operations = @ \cup {<<ctx.sequence, stop + 1>>},
                           !.s.active_operation_id = <<ctx.sequence, stop + 1>>,
                           !.s.phase = "bash"]

-----------------------------------------------------------------------------
(* Completions.  An LLM outcome is failed when no response is stored: it   *)
(* failed, is malformed or does not fit a row; excluded when the response  *)
(* is stored outside the context: wrong model, incomplete, unusable calls. *)
(* The calls that an excluded response is stored with are never run, have  *)
(* no results, and are left out here.                                      *)

LlmOutcomes == [kind : {"failed", "excluded"}, calls : {<<>>}]
                 \cup [kind : {"succeeded"}, calls : Batches \cup {<<>>}]

CompleteLlm(ctx, outcome) ==
  LET row  == AssistantMessage(outcome.calls, outcome.kind = "succeeded")
      kept == [ctx EXCEPT !.messages = Append(@, row), !.s.active_operation_id = NoOperation]
  IN  IF outcome.kind = "failed" THEN Fail(ctx)
      ELSE IF outcome.kind = "excluded" THEN Fail(kept)
      ELSE IF outcome.calls = <<>> THEN FinishTurn(kept, FALSE)
      ELSE AdvanceTools([kept EXCEPT !.s.active_assistant_sequence = Len(kept.messages),
                                     !.s.next_tool_index = 0])

\* Whether bash gave an answer (an error of the command is one), the machine
\* lost the command, the outcome is malformed or failed, or the answer does not
\* fit a row of the transcript.
BashOutcomes == {"answered", "lost", "unusable", "oversized"}

CompleteBash(ctx, outcome) ==
  LET calls   == CurrentCalls(ctx)
      index   == ctx.s.next_tool_index + 1
      result  == ToolResult(index, IF outcome = "unusable" THEN "unknown" ELSE "ran")
      done    == [ctx EXCEPT !.messages = Append(@, result), !.s.next_tool_index = index,
                             !.s.active_operation_id = NoOperation]
      skipped == [i \in 1 .. Len(calls) - index |-> ToolResult(index + i, "not_executed")]
  IN  CASE outcome = "answered"             -> AdvanceTools(done)
        [] outcome \in {"lost", "unusable"} -> Fail([done EXCEPT !.messages = @ \o skipped])
        [] outcome = "oversized"            -> Fail(ctx)

\* A run begins, with a message or by resuming.
StartRun(ctx) ==
  [ctx EXCEPT !.status = "running",
              !.s = [@ EXCEPT !.run_id = ctx.sequence, !.failed = FALSE,
                              !.cancel_requested = FALSE]]

-----------------------------------------------------------------------------
(* handle and apply: one action per type of input.                         *)

Init ==
  /\ s = [phase |-> "idle", run_id |-> 0, active_operation_id |-> NoOperation,
          active_assistant_sequence |-> 0, next_tool_index |-> 0,
          cancel_requested |-> FALSE, failed |-> FALSE]
  /\ messages = <<>>
  /\ pending = <<>>
  /\ status = "idle"
  /\ sequence = 0
  /\ open = {}
  /\ inputs = [message |-> 0, cancel |-> 0, resume |-> 0, turn |-> 0]
  /\ received = {}
  /\ launched = <<>>
  /\ abandoned = {}
  /\ reader = [scan |-> "none", after |-> 0, missing |-> {}]

\* The runtime's commit of a handled input and of the operations it planned.
Apply(plan, completed) ==
  \E ctx \in {plan} :
    /\ s' = ctx.s
    /\ messages' = ctx.messages
    /\ pending' = ctx.pending
    /\ status' = ctx.status
    /\ sequence' = ctx.sequence
    /\ open' = (open \ completed) \cup ctx.operations
    /\ launched' = [op \in DOMAIN launched \cup {o \in ctx.operations : o[2] # 0} |->
                      IF op \in DOMAIN launched THEN launched[op]
                      ELSE <<ctx.s.active_assistant_sequence, op[2]>>]
    /\ UNCHANGED reader

Counted(type) == inputs' = [inputs EXCEPT ![type] = @ + 1]

\* A message begins a run or waits; one that does not fit fails the run, also
\* one that is active.
HandleMessage(size) ==
  LET message == [event |-> sequence + 1, size |-> size]
      fits    == IF s.phase = "idle" THEN MayEnter(size) ELSE MayWait(size)
  IN  /\ inputs.message < MaxMessages
      /\ Counted("message")
      /\ received' = IF fits THEN received \cup {message.event} ELSE received
      /\ abandoned' = IF ~fits THEN abandoned \cup {s.active_operation_id} ELSE abandoned
      /\ Apply(IF s.phase = "idle"
               THEN IF fits
                    THEN RequestLlm([StartRun(Read) EXCEPT !.messages = Append(@, UserMessage(message))])
                    ELSE Fail(StartRun(Read))
               ELSE IF fits THEN [Read EXCEPT !.pending = Append(@, message)] ELSE Fail(Read),
               {})

HandleCancel(run_id) ==
  /\ inputs.cancel < MaxCancels
  /\ Counted("cancel")
  /\ Apply(IF run_id = s.run_id /\ s.phase \in {"llm", "bash"} /\ ~s.cancel_requested
           THEN [Read EXCEPT !.status = "cancelling", !.s.cancel_requested = TRUE]
           ELSE Read,
           {})
  /\ UNCHANGED <<received, abandoned>>

HandleResume ==
  /\ inputs.resume < MaxResumes
  /\ Counted("resume")
  /\ Apply(IF s.phase \in {"cancelled", "failed"}
           THEN RequestWithSteering(StartRun(Read))
           ELSE Read,
           {})
  /\ UNCHANGED <<received, abandoned>>

\* Variant: the phase alone decides what a completion answers.
AwaitedByPhase(operation) == s.phase = IF operation[2] = 0 THEN "llm" ELSE "bash"

\* The completion of an operation that a size failure abandoned is consumed
\* without effect.
Awaited(operation) == operation = s.active_operation_id

HandleLlmCompleted(operation, outcome) ==
  /\ operation \in open /\ operation[2] = 0
  /\ outcome.calls # <<>> => inputs.turn < MaxTurns
  /\ IF outcome.calls # <<>> THEN Counted("turn") ELSE UNCHANGED inputs
  /\ Apply(IF Awaited(operation) THEN CompleteLlm(Read, outcome) ELSE Read, {operation})
  /\ UNCHANGED <<received, abandoned>>

HandleBashCompleted(operation, outcome) ==
  /\ operation \in open /\ operation[2] # 0
  /\ abandoned' = IF Awaited(operation) /\ outcome = "oversized"
                  THEN abandoned \cup {operation} ELSE abandoned
  /\ Apply(IF Awaited(operation) THEN CompleteBash(Read, outcome) ELSE Read, {operation})
  /\ UNCHANGED <<inputs, received>>

Completes ==
  \E operation \in open :
    \/ \E outcome \in LlmOutcomes  : HandleLlmCompleted(operation, outcome)
    \/ \E outcome \in BashOutcomes : HandleBashCompleted(operation, outcome)

-----------------------------------------------------------------------------
(* A client reads all pages of the pending messages, then all pages of the *)
(* transcript.  Each page is one request; inputs are handled in between.   *)

BytesOf(sizes) == FoldSeq(+, 0, sizes)

\* Variant: only the limit tells that there is more, not the byte budget.
PageRowsByLimit(sizes) ==
  LET fits == {n \in 0 .. Min({PageLimit, Len(sizes)}) :
                 n <= 1 \/ BytesOf(SubSeq(sizes, 1, n)) <= PageBytes}
  IN  [length |-> Max(fits), hasMore |-> Len(sizes) > PageLimit]

\* pageRows: how many rows of the cursor the page takes, and whether it says
\* there are more.
PageRows(sizes) ==
  LET fits == {n \in 0 .. Min({PageLimit, Len(sizes)}) :
                 n <= 1 \/ BytesOf(SubSeq(sizes, 1, n)) <= PageBytes}
  IN  [length |-> Max(fits), hasMore |-> Max(fits) < Len(sizes)]

StartReading ==
  /\ reader.scan = "none" /\ received # {}
  /\ reader' = [reader EXCEPT !.scan = "pending", !.missing = received]
  /\ UNCHANGED harness

\* readPendingMessages: rows are found by input_sequence, and may be gone.  The
\* table is in the order of input_sequence, in which messages are appended.
ReadPendingMessages ==
  LET unread == {i \in DOMAIN pending : pending[i].event > reader.after}
      first  == IF unread = {} THEN Len(pending) + 1 ELSE Min(unread)
      rows   == SubSeq(pending, first, Len(pending))
      page == PageRows([i \in 1 .. Min({Len(rows), PageLimit + 1}) |-> rows[i].size])
  IN  /\ reader.scan = "pending"
      /\ reader' = [reader EXCEPT
                     !.scan = IF page.hasMore THEN "pending" ELSE "messages",
                     !.after = IF page.hasMore THEN rows[page.length].event ELSE 0,
                     !.missing = @ \ {rows[i].event : i \in 1 .. page.length}]
      /\ UNCHANGED harness

ReadMinimalBashMessages ==
  LET rows == SubSeq(messages, reader.after + 1, Len(messages))
      page == PageRows([i \in 1 .. Min({Len(rows), PageLimit + 1}) |-> rows[i].size])
  IN  /\ reader.scan = "messages"
      /\ reader' = [reader EXCEPT
                     !.scan = IF page.hasMore THEN "messages" ELSE "done",
                     !.after = IF page.hasMore THEN @ + page.length ELSE 0,
                     !.missing = @ \ {rows[i].event : i \in {j \in 1 .. page.length : rows[j].role = "user"}}]
      /\ UNCHANGED harness

ClientReads == StartReading \/ ReadPendingMessages \/ ReadMinimalBashMessages

Next ==
  \/ \E size \in Sizes : HandleMessage(size)
  \/ \E run_id \in 1 .. sequence : HandleCancel(run_id)
  \/ HandleResume
  \/ Completes
  \/ ClientReads

Spec == Init /\ [][Next]_vars

\* Providers deliver an outcome of every accepted operation, and the runtime
\* handles what is admitted: WF_vars(Completes) written out, as in PiHarness.
Fairness == []<>(open = {}) \/ []<><<open \ open' # {}>>_vars

FairSpec == Spec /\ Fairness

-----------------------------------------------------------------------------
(* Properties.                                                             *)

Answered(a) == {k \in DOMAIN messages[a].calls :
                  /\ a + k \in DOMAIN messages
                  /\ messages[a + k].role = "tool_result"
                  /\ messages[a + k].index = k}

\* In the transcript every response in context is followed by one result for each
\* of its calls, in their order, whatever failed; only the response at work and
\* those whose turn a size failure ended have a shorter run of results.  A result
\* says "not executed" exactly if no operation ran the call (advanceTools,
\* completeBash, the rows it adds for skipped calls).
CallsAnswered ==
  \A i \in DOMAIN messages :
    /\ messages[i].role = "assistant" =>
         \E n \in 0 .. Len(messages[i].calls) :
           /\ Answered(i) = 1 .. n
           /\ \/ n = Len(messages[i].calls)
              \/ i \in {launched[op][1] : op \in abandoned \cap DOMAIN launched}
              \/ s.phase = "bash" /\ i = s.active_assistant_sequence /\ n = s.next_tool_index
    /\ messages[i].role = "tool_result" =>
         LET call == <<i - messages[i].index, messages[i].index>>
         IN  /\ call[1] \in DOMAIN messages /\ messages[call[1]].role = "assistant"
             /\ call[2] \in Answered(call[1])
             /\ (messages[i].result = "not_executed")
                  <=> \A op \in DOMAIN launched : launched[op] # call

\* A call runs at most once and after the calls before it; an active run waits
\* for an operation that is really out, and for no other: the completion of one
\* that was abandoned neither ends nor advances the run that replaced it
\* (handle's test against active_operation_id).
OneAtATime ==
  /\ \A p, q \in DOMAIN launched :
       launched[p] = launched[q] => p = q
  /\ \A p, q \in DOMAIN launched :
       launched[p][1] = launched[q][1] /\ launched[p][2] < launched[q][2] => p[1] < q[1] /\ p \notin open
  /\ open \ abandoned = {s.active_operation_id} \ {NoOperation}
  /\ s.phase \in {"llm", "bash"} <=> s.active_operation_id # NoOperation
  /\ status = IF s.phase \in {"llm", "bash"}
              THEN IF s.cancel_requested THEN "cancelling" ELSE "running"
              ELSE s.phase

UserRows == {i \in DOMAIN messages : messages[i].role = "user"}

\* A waiting message at the edge of the limit failed a promotion: the ones before it
\* have been added to the transcript and still wait, and every resume does it again.
Stuck == s.phase = "failed" /\ \E i \in DOMAIN pending : ~MayEnter(pending[i].size)

\* A message that was kept is in the transcript or among the pending ones; it stands
\* there once, in the order of admission, until a promotion fails on the size of a
\* message that could wait; and none waits in an idle session (promoteSteering,
\* finishTurn, apply's deletion).
HeldOnce ==
  /\ {messages[i].event : i \in UserRows} \cup {pending[i].event : i \in DOMAIN pending} = received
  /\ ~Stuck => /\ \A i, j \in UserRows : i < j => messages[i].event < messages[j].event
               /\ \A i, j \in DOMAIN pending : i < j => pending[i].event < pending[j].event
               /\ \A i \in UserRows, j \in DOMAIN pending : messages[i].event < pending[j].event
  /\ s.phase = "idle" => pending = <<>>

\* A client that pages through the pending messages and then the transcript is
\* shown every message kept before it began, although pages are cut by size and
\* messages move from one table to the other in between (pageRows, apply).
NothingHidden == reader.scan = "done" => reader.missing = {}

\* A turn ends, and a cancellation that was accepted takes effect, whatever is
\* sent meanwhile (finishTurn, fail).
RunsStop ==
  /\ s.phase = "bash" ~> s.phase # "bash"
  /\ s.cancel_requested ~> s.phase \in {"cancelled", "failed"}
=============================================================================
