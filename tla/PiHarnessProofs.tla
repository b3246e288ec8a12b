--------------------------- MODULE PiHarnessProofs ---------------------------
(***************************************************************************)
(* Proofs about the pi-no-compaction harness: the transcript is one a      *)
(* model can be sent, every operation that is out is waited for, and what  *)
(* the model is told of its calls is true.                                 *)
(*                                                                         *)
(* handle works on contexts.  The invariant is therefore stated of the     *)
(* values that a context holds, once for the committed state and once for  *)
(* what a handler has planned; each operator on contexts has a lemma.      *)
(***************************************************************************)
EXTENDS PiHarness, SequenceTheorems, NaturalsInduction, WellFoundedInduction, TLAPS

-----------------------------------------------------------------------------
(* The invariant *)

Operations == Nat \X Nat

HarnessStates ==
  [phase : {"idle", "llm", "tools", "cancelled", "failed"}, run_id : Nat,
   active_operation_id : Operations, active_assistant_sequence : Nat, next_tool_index : Nat,
   cancel_requested : BOOLEAN, last_error : Nat]

MessageRows ==
  [role : {"user"}, event : Nat, in_context : {TRUE}]
    \cup [role : {"assistant"}, calls : Seq(Calls), in_context : BOOLEAN]
    \cup [role : {"tool_result"}, index : Nat,
          result : {NoResult, "ran", "unknown", "not_executed"},
          operation_id : Operations, in_context : {TRUE}]

BatchRows ==
  [status : {"queued", "active", "done"}, operation_id : Operations,
   result : {NoResult, "ran", "unknown", "not_executed"}]

HostStatuses == {"idle", "running", "cancelling", "cancelled", "failed"}

Contexts ==
  [s : HarnessStates, messages : Seq(MessageRows), pending : Seq(Nat), batch : Seq(BatchRows),
   operations : SUBSET Operations, status : HostStatuses, sequence : Nat]

\* Operations were planned by an earlier input, for a call of a stored response, and
\* no two of them for the same call.
LaunchesFit(L, seq, m) ==
  /\ L \in [DOMAIN L -> Operations] /\ DOMAIN L \subseteq Operations
  /\ \A op \in DOMAIN L : /\ op[1] \in 1 .. seq /\ op[2] # 0
                          /\ L[op][1] \in DOMAIN m /\ L[op][2] = op[2]
  /\ \A p, q \in DOMAIN L : L[p] = L[q] => p = q

\* A result says that a call was not executed exactly if no operation ran it.
Told(m, L) ==
  \A i \in DOMAIN m : m[i].role = "tool_result" =>
    (m[i].result = "not_executed")
      <=> \A op \in DOMAIN L : L[op] # <<i - m[i].index, m[i].index>>

\* The log is coherent, but for the response at a, whose calls are being served.
Paired(m, a) ==
  /\ \A i \in DOMAIN m : m[i].role = "assistant" /\ i # a =>
       \A k \in DOMAIN m[i].calls :
         /\ i + k \in DOMAIN m /\ m[i + k].role = "tool_result" /\ m[i + k].index = k
         /\ m[i].in_context /\ m[i + k].in_context
  /\ \A i \in DOMAIN m : m[i].role = "tool_result" =>
       /\ i - m[i].index \in DOMAIN m /\ m[i - m[i].index].role = "assistant"
       /\ m[i].index \in DOMAIN m[i - m[i].index].calls

\* The mutations of a batch have started in the order of the calls.
Lane(rows, calls) ==
  \A i, j \in DOMAIN rows :
    /\ i < j /\ calls[i].mutation /\ calls[j].mutation
    /\ rows[j].operation_id # NoOperation
    => rows[i].status = "done"

\* A row has an operation once it was started, and its result, until it is flushed,
\* tells whether it was.
RowTells(row) ==
  /\ row.status = "queued" => row.operation_id = NoOperation
  /\ row.status = "active" => row.operation_id # NoOperation

\* A batch is served: its response is the last but for the results of the first n
\* calls, and its rows and the launched operations agree.
Serving(st, m, rows, L) ==
  LET a == st.active_assistant_sequence
      n == st.next_tool_index
  IN  /\ a \in DOMAIN m /\ m[a].role = "assistant" /\ m[a].in_context
      /\ Len(rows) = Len(m[a].calls) /\ n \in 0 .. Len(rows) /\ Len(m) = a + n
      /\ \A k \in 1 .. n : /\ m[a + k].role = "tool_result" /\ m[a + k].index = k
                           /\ rows[k].status = "done"
      /\ \A i \in DOMAIN rows :
           /\ RowTells(rows[i])
           /\ n < i /\ rows[i].status = "done" =>
                (rows[i].result = "not_executed" <=> rows[i].operation_id = NoOperation)
           /\ rows[i].operation_id # NoOperation =>
                rows[i].operation_id \in DOMAIN L /\ L[rows[i].operation_id] = <<a, i>>
      /\ \A op \in DOMAIN L : L[op][1] = a =>
           op[2] \in DOMAIN rows /\ rows[op[2]].operation_id = op
      /\ Lane(rows, m[a].calls)

ActiveOperations(rows) ==
  {rows[i].operation_id : i \in {j \in DOMAIN rows : rows[j].status = "active"}}

\* What the phase says of the batch and of the operations that are out.
PhaseFits(st, m, rows, out, L) ==
  /\ st.phase = "tools" =>
       /\ Serving(st, m, rows, L)
       /\ st.active_operation_id = NoOperation /\ out = ActiveOperations(rows)
  /\ st.phase # "tools" => rows = <<>> /\ st.active_assistant_sequence = 0
  /\ st.phase = "llm" =>
       /\ out = {st.active_operation_id}
       /\ st.active_operation_id[2] = 0 /\ st.active_operation_id # NoOperation
  /\ st.phase \notin {"llm", "tools"} => out = {} /\ st.active_operation_id = NoOperation

StatusFits(st, stat) ==
  stat = IF st.phase \in {"llm", "tools"}
         THEN IF st.cancel_requested THEN "cancelling" ELSE "running"
         ELSE st.phase

\* Every user message is kept once, in order, and none is later than the last input.
Steered(m, p, rec, seq) ==
  LET users == {i \in DOMAIN m : m[i].role = "user"}
  IN  /\ {m[i].event : i \in users} \cup {p[i] : i \in DOMAIN p} = rec
      /\ \A i, j \in users : i < j => m[i].event < m[j].event
      /\ \A i, j \in DOMAIN p : i < j => p[i] < p[j]
      /\ \A i \in users, j \in DOMAIN p : m[i].event < p[j]
      /\ rec \subseteq 1 .. seq

Holds(st, m, p, rows, stat, seq, out, rec, L) ==
  /\ st \in HarnessStates /\ m \in Seq(MessageRows) /\ p \in Seq(Nat) /\ rows \in Seq(BatchRows)
  /\ stat \in HostStatuses /\ seq \in Nat
  /\ LaunchesFit(L, seq, m)
  /\ Told(m, L)
  /\ Paired(m, st.active_assistant_sequence)
  /\ PhaseFits(st, m, rows, out, L)
  /\ StatusFits(st, stat)
  /\ Steered(m, p, rec, seq)
  /\ st.phase = "idle" => p = <<>>

HarnessInv == Holds(s, messages, pending, batch, status, sequence, open, received, launched)

-----------------------------------------------------------------------------
(* Logs *)

\* Two sequences one after the other, by their indices.
LEMMA Joined ==
  ASSUME NEW S, NEW m \in Seq(S), NEW rest \in Seq(S)
  PROVE  /\ m \o rest \in Seq(S)
         /\ Len(m) \in Nat /\ Len(rest) \in Nat /\ Len(m \o rest) = Len(m) + Len(rest)
         /\ DOMAIN m = 1 .. Len(m) /\ DOMAIN rest = 1 .. Len(rest)
         /\ DOMAIN (m \o rest) = 1 .. Len(m) + Len(rest)
         /\ \A i \in DOMAIN m : i \in DOMAIN (m \o rest) /\ (m \o rest)[i] = m[i]
         /\ \A j \in DOMAIN rest : /\ Len(m) + j \in DOMAIN (m \o rest)
                                   /\ (m \o rest)[Len(m) + j] = rest[j]
         /\ \A i \in DOMAIN (m \o rest) :
              i \in DOMAIN m \/ \E j \in DOMAIN rest : i = Len(m) + j
<1> DEFINE both == m \o rest
<1>1. /\ both \in Seq(S) /\ Len(both) = Len(m) + Len(rest)
      /\ \A i \in 1 .. Len(m) + Len(rest) : both[i] = IF i <= Len(m) THEN m[i]
                                                                    ELSE rest[i - Len(m)]
  BY ConcatProperties
<1>2. /\ Len(m) \in Nat /\ DOMAIN m = 1 .. Len(m)
      /\ Len(rest) \in Nat /\ DOMAIN rest = 1 .. Len(rest)
      /\ DOMAIN both = 1 .. Len(m) + Len(rest)
  BY <1>1, LenProperties
<1> HIDE DEF both
<1>3. \A i \in DOMAIN m : i \in DOMAIN both /\ both[i] = m[i]
  BY <1>1, <1>2
<1>4. \A j \in DOMAIN rest : Len(m) + j \in DOMAIN both /\ both[Len(m) + j] = rest[j]
  <2> SUFFICES ASSUME NEW j \in DOMAIN rest
               PROVE  Len(m) + j \in DOMAIN both /\ both[Len(m) + j] = rest[j]
    OBVIOUS
  <2>1. Len(m) + j \in 1 .. Len(m) + Len(rest) /\ ~(Len(m) + j <= Len(m)) /\ Len(m) + j - Len(m) = j
    BY <1>2
  <2> QED BY <1>1, <1>2, <2>1
<1>5. \A i \in DOMAIN both : i \in DOMAIN m \/ \E j \in DOMAIN rest : i = Len(m) + j
  <2> SUFFICES ASSUME NEW i \in DOMAIN both, i \notin DOMAIN m
               PROVE  \E j \in DOMAIN rest : i = Len(m) + j
    OBVIOUS
  <2>1. i - Len(m) \in DOMAIN rest /\ i = Len(m) + (i - Len(m))
    BY <1>2
  <2> QED BY <2>1
<1> QED
  BY <1>1, <1>2, <1>3, <1>4, <1>5 DEF both

\* A function on 1 .. n is a sequence of length n.
LEMMA FunctionIsSeq ==
  ASSUME NEW S, NEW n \in Nat, NEW f \in [1 .. n -> S]
  PROVE  f \in Seq(S) /\ Len(f) = n /\ DOMAIN f = 1 .. n
<1>1. f \in Seq(S)
  BY SeqDef
<1> QED
  BY <1>1, LenProperties

\* What is appended without a user message leaves the account of messages alone.
LEMMA SteeredJoined ==
  ASSUME NEW m \in Seq(MessageRows), NEW rest \in Seq(MessageRows), NEW p, NEW rec, NEW seq,
         Steered(m, p, rec, seq), \A j \in DOMAIN rest : rest[j].role # "user"
  PROVE  Steered(m \o rest, p, rec, seq)
<1> DEFINE both == m \o rest
<1>1. /\ \A i \in DOMAIN m : i \in DOMAIN both /\ both[i] = m[i]
      /\ \A j \in DOMAIN rest : both[Len(m) + j] = rest[j]
      /\ \A i \in DOMAIN both : i \in DOMAIN m \/ \E j \in DOMAIN rest : i = Len(m) + j
  BY Joined
<1> HIDE DEF both
<1>2. {i \in DOMAIN both : both[i].role = "user"} = {i \in DOMAIN m : m[i].role = "user"}
  BY <1>1
<1>3. {both[i].event : i \in {j \in DOMAIN m : m[j].role = "user"}} =
      {m[i].event : i \in {j \in DOMAIN m : m[j].role = "user"}}
  BY <1>1
<1>4. Steered(both, p, rec, seq)
  BY <1>1, <1>2, <1>3 DEF Steered
<1> QED
  BY <1>4 DEF both

\* The pending messages as rows of the transcript.
Promoted(p) == [i \in DOMAIN p |-> UserMessage(p[i])]

\* Promotion keeps the account: every pending message comes after the others.
LEMMA SteeredPromoted ==
  ASSUME NEW m \in Seq(MessageRows), NEW p \in Seq(Nat), NEW rec, NEW seq, Steered(m, p, rec, seq)
  PROVE  /\ Promoted(p) \in Seq(MessageRows) /\ DOMAIN Promoted(p) = DOMAIN p
         /\ \A j \in DOMAIN p : Promoted(p)[j].role = "user" /\ Promoted(p)[j].event = p[j]
         /\ Steered(m \o Promoted(p), <<>>, rec, seq)
<1> DEFINE rest == Promoted(p)
           both == m \o rest
           old  == {i \in DOMAIN m : m[i].role = "user"}
           all  == {i \in DOMAIN both : both[i].role = "user"}
<1>1. Len(p) \in Nat /\ DOMAIN p = 1 .. Len(p) /\ \A j \in DOMAIN p : p[j] \in Nat
  BY LenProperties
<1>2. \A j \in DOMAIN p : /\ rest[j].role = "user" /\ rest[j].event = p[j]
                          /\ rest[j] \in MessageRows
  BY <1>1 DEF Promoted, UserMessage, MessageRows
<1>3. rest \in Seq(MessageRows) /\ DOMAIN rest = DOMAIN p
  <2>1. rest \in [1 .. Len(p) -> MessageRows]
    BY <1>1, <1>2 DEF Promoted
  <2> QED BY <1>1, <2>1, FunctionIsSeq
<1>4. /\ \A i \in DOMAIN m : i \in DOMAIN both /\ both[i] = m[i]
      /\ \A j \in DOMAIN rest : Len(m) + j \in DOMAIN both /\ both[Len(m) + j] = rest[j]
      /\ \A i \in DOMAIN both : i \in DOMAIN m \/ \E j \in DOMAIN rest : i = Len(m) + j
      /\ DOMAIN m = 1 .. Len(m) /\ Len(m) \in Nat
  BY <1>3, Joined
<1> HIDE DEF rest, both
<1>5. \A i \in all : i \in old \/ \E j \in DOMAIN p : i = Len(m) + j /\ both[i].event = p[j]
  BY <1>2, <1>3, <1>4
<1>6. /\ \A i \in old : i \in all /\ both[i].event = m[i].event
      /\ \A j \in DOMAIN p : Len(m) + j \in all /\ both[Len(m) + j].event = p[j]
  BY <1>2, <1>3, <1>4
<1>7. /\ {m[i].event : i \in old} \cup {p[i] : i \in DOMAIN p} = rec /\ rec \subseteq 1 .. seq
      /\ \A i, j \in old : i < j => m[i].event < m[j].event
      /\ \A i, j \in DOMAIN p : i < j => p[i] < p[j]
      /\ \A i \in old, j \in DOMAIN p : m[i].event < p[j]
  BY DEF Steered
<1>8. \A i \in old : i \in 1 .. Len(m)
  BY <1>4
<1> HIDE DEF old, all
<1>9. {both[i].event : i \in all} \cup {<<>>[i] : i \in DOMAIN <<>>} = rec
  <2>1. {both[i].event : i \in all} \subseteq rec
    BY <1>5, <1>6, <1>7
  <2>2. rec \subseteq {both[i].event : i \in all}
    BY <1>6, <1>7
  <2>3. {<<>>[i] : i \in DOMAIN <<>>} = {}
    OBVIOUS
  <2> QED BY <2>1, <2>2, <2>3
<1>10. \A i, j \in all : i < j => both[i].event < both[j].event
  <2> SUFFICES ASSUME NEW i \in all, NEW j \in all, i < j PROVE both[i].event < both[j].event
    OBVIOUS
  <2>1. CASE i \in old /\ j \in old
    BY <1>6, <1>7, <2>1
  <2>2. CASE i \in old /\ \E k \in DOMAIN p : j = Len(m) + k /\ both[j].event = p[k]
    BY <1>6, <1>7, <2>2
  <2>3. CASE /\ \E k \in DOMAIN p : i = Len(m) + k /\ both[i].event = p[k]
             /\ \E k \in DOMAIN p : j = Len(m) + k /\ both[j].event = p[k]
    <3> PICK k \in DOMAIN p : i = Len(m) + k /\ both[i].event = p[k]
      BY <2>3
    <3> PICK l \in DOMAIN p : j = Len(m) + l /\ both[j].event = p[l]
      BY <2>3
    <3>1. k < l
      BY <1>1, <1>4
    <3> QED BY <1>7, <3>1
  <2>4. ~(j \in old /\ \E k \in DOMAIN p : i = Len(m) + k /\ both[i].event = p[k])
    BY <1>1, <1>4, <1>8
  <2> QED BY <1>5, <2>1, <2>2, <2>3, <2>4
<1>11. Steered(both, <<>>, rec, seq)
  <2>1. DOMAIN <<>> = {}
    OBVIOUS
  <2> QED BY <1>7, <1>9, <1>10, <2>1 DEF Steered, all
<1> QED
  BY <1>2, <1>3, <1>11 DEF both, rest

\* Operations stay well formed when the log and the inputs grow.
LEMMA LaunchesGrow ==
  ASSUME NEW L, NEW seq \in Nat, NEW later \in Nat, seq <= later, NEW m, NEW longer,
         LaunchesFit(L, seq, m), DOMAIN m \subseteq DOMAIN longer
  PROVE  LaunchesFit(L, later, longer)
<1>1. 1 .. seq \subseteq 1 .. later
  OBVIOUS
<1> QED
  BY <1>1 DEF LaunchesFit

\* Rows without results or responses keep the log paired and its results true.
LEMMA UsersJoined ==
  ASSUME NEW m \in Seq(MessageRows), NEW rest \in Seq(MessageRows), NEW L,
         \A j \in DOMAIN rest : rest[j].role = "user", Told(m, L), Paired(m, 0)
  PROVE  Told(m \o rest, L) /\ Paired(m \o rest, 0)
<1> DEFINE both == m \o rest
<1>1. /\ \A i \in DOMAIN m : i \in DOMAIN both /\ both[i] = m[i]
      /\ \A j \in DOMAIN rest : both[Len(m) + j] = rest[j]
      /\ \A i \in DOMAIN both : i \in DOMAIN m \/ \E j \in DOMAIN rest : i = Len(m) + j
  BY Joined
<1> HIDE DEF both
<1>2. \A i \in DOMAIN both : both[i].role # "user" => i \in DOMAIN m /\ both[i] = m[i]
  BY <1>1
<1>3. Told(both, L)
  BY <1>2 DEF Told
<1>4. Paired(both, 0)
  <2>1. ASSUME NEW i \in DOMAIN both, both[i].role = "assistant", i # 0, NEW k \in DOMAIN both[i].calls
        PROVE  /\ i + k \in DOMAIN both /\ both[i + k].role = "tool_result" /\ both[i + k].index = k
               /\ both[i].in_context /\ both[i + k].in_context
    <3>1. i \in DOMAIN m /\ both[i] = m[i]
      BY <1>2, <2>1
    <3>2. /\ i + k \in DOMAIN m /\ m[i + k].role = "tool_result" /\ m[i + k].index = k
          /\ m[i].in_context /\ m[i + k].in_context
      BY <2>1, <3>1 DEF Paired
    <3> QED BY <1>1, <3>1, <3>2
  <2>2. ASSUME NEW i \in DOMAIN both, both[i].role = "tool_result"
        PROVE  /\ i - both[i].index \in DOMAIN both
               /\ both[i - both[i].index].role = "assistant"
               /\ both[i].index \in DOMAIN both[i - both[i].index].calls
    <3>1. i \in DOMAIN m /\ both[i] = m[i]
      BY <1>2, <2>2
    <3>2. /\ i - m[i].index \in DOMAIN m /\ m[i - m[i].index].role = "assistant"
          /\ m[i].index \in DOMAIN m[i - m[i].index].calls
      BY <2>2, <3>1 DEF Paired
    <3> QED BY <1>1, <3>1, <3>2
  <2> QED BY <2>1, <2>2 DEF Paired
<1> QED
  BY <1>3, <1>4 DEF both

-----------------------------------------------------------------------------
(* Between two requests of the model                                       *)

\* The launched operations after a plan is committed.
LaunchedBy(ctx) ==
  [op \in DOMAIN launched \cup {o \in ctx.operations : o[2] # 0} |->
     IF op \in DOMAIN launched THEN launched[op]
     ELSE <<ctx.s.active_assistant_sequence, op[2]>>]

\* A plan that keeps the invariant when it is committed.
PlanHolds(ctx, out, rec) ==
  Holds(ctx.s, ctx.messages, ctx.pending, ctx.batch, ctx.status, ctx.sequence,
        out \cup ctx.operations, rec, LaunchedBy(ctx))

\* A context in which no call is served and nothing is planned yet.
Between(ctx, rec) ==
  /\ ctx \in Contexts /\ ctx.operations = {} /\ ctx.batch = <<>> /\ ctx.sequence # 0
  /\ LaunchesFit(launched, ctx.sequence, ctx.messages)
  /\ Told(ctx.messages, launched)
  /\ Paired(ctx.messages, 0)
  /\ Steered(ctx.messages, ctx.pending, rec, ctx.sequence)

\* What a context holds has its type.
LEMMA ContextFields ==
  ASSUME NEW ctx \in Contexts
  PROVE  /\ ctx.s \in HarnessStates /\ ctx.messages \in Seq(MessageRows)
         /\ ctx.pending \in Seq(Nat) /\ ctx.batch \in Seq(BatchRows)
         /\ ctx.operations \subseteq Operations /\ ctx.status \in HostStatuses
         /\ ctx.sequence \in Nat
BY DEF Contexts

\* Without an operation of a tool nothing is launched.
LEMMA NothingLaunched ==
  ASSUME NEW ctx, \A o \in ctx.operations : o[2] = 0, NEW seq, NEW m, LaunchesFit(launched, seq, m)
  PROVE  LaunchedBy(ctx) = launched
<1>1. {o \in ctx.operations : o[2] # 0} = {}
  OBVIOUS
<1>2. launched = [op \in DOMAIN launched |-> launched[op]]
  BY DEF LaunchesFit
<1> QED
  BY <1>1, <1>2 DEF LaunchedBy

\* Fail: the state it leaves.
LEMMA FailFields ==
  ASSUME NEW ctx \in Contexts, NEW error \in Nat
  PROVE  /\ Fail(ctx, error) \in Contexts
         /\ Fail(ctx, error).messages = ctx.messages /\ Fail(ctx, error).pending = ctx.pending
         /\ Fail(ctx, error).batch = ctx.batch /\ Fail(ctx, error).operations = ctx.operations
         /\ Fail(ctx, error).sequence = ctx.sequence /\ Fail(ctx, error).status = "failed"
         /\ Fail(ctx, error).s.phase = "failed"
         /\ Fail(ctx, error).s.active_operation_id = NoOperation
         /\ Fail(ctx, error).s.active_assistant_sequence = 0
         /\ Fail(ctx, error).s.cancel_requested = FALSE
<1> DEFINE st == [ctx.s EXCEPT !.phase = "failed", !.active_operation_id = NoOperation,
                               !.active_assistant_sequence = 0, !.next_tool_index = 0,
                               !.last_error = error, !.cancel_requested = FALSE]
<1>1. ctx.s \in HarnessStates /\ NoOperation \in Operations
  BY DEF Contexts, NoOperation, Operations
<1>2. /\ st \in HarnessStates /\ st.phase = "failed" /\ st.active_operation_id = NoOperation
      /\ st.active_assistant_sequence = 0 /\ st.cancel_requested = FALSE
  BY <1>1 DEF HarnessStates
<1>3. Fail(ctx, error) = [ctx EXCEPT !.status = "failed", !.s = st]
  BY DEF Fail
<1>4. "failed" \in HostStatuses
  BY DEF HostStatuses
<1> HIDE DEF st
<1> QED
  BY <1>2, <1>3, <1>4 DEF Contexts

\* A failure between two requests.
LEMMA FailHolds ==
  ASSUME NEW ctx, NEW error \in Nat, NEW rec, Between(ctx, rec)
  PROVE  PlanHolds(Fail(ctx, error), {}, rec)
<1> DEFINE f == Fail(ctx, error)
<1>1. /\ f \in Contexts /\ f.messages = ctx.messages /\ f.pending = ctx.pending
      /\ f.batch = <<>> /\ f.operations = {} /\ f.sequence = ctx.sequence /\ f.status = "failed"
      /\ f.s.phase = "failed" /\ f.s.active_operation_id = NoOperation
      /\ f.s.active_assistant_sequence = 0 /\ f.s.cancel_requested = FALSE
  BY FailFields DEF Between
<1> HIDE DEF f
<1>2. LaunchedBy(f) = launched
  BY <1>1, NothingLaunched DEF Between
<1>3. PhaseFits(f.s, f.messages, f.batch, {} \cup f.operations, launched) /\ StatusFits(f.s, f.status)
  BY <1>1 DEF PhaseFits, StatusFits
<1>4. PlanHolds(f, {}, rec)
  BY <1>1, <1>2, <1>3, ContextFields DEF PlanHolds, Holds, Between
<1> QED
  BY <1>4 DEF f

\* RequestLlm: the request that is out is the one the state waits for, or the run failed.
LEMMA RequestHolds ==
  ASSUME NEW ctx, NEW rec, Between(ctx, rec), ctx.status = "running", ctx.s.cancel_requested = FALSE
  PROVE  PlanHolds(RequestLlm(ctx), {}, rec)
<1>0. ctx \in Contexts /\ ctx.sequence \in Nat /\ ctx.s \in HarnessStates
  BY ContextFields DEF Between
<1>1. CASE Len(Context(ctx.messages)) > MaxContext
  BY <1>0, <1>1, FailHolds DEF RequestLlm
<1>2. CASE ~(Len(Context(ctx.messages)) > MaxContext)
  <2> DEFINE op == <<ctx.sequence, 0>>
             st == [ctx.s EXCEPT !.phase = "llm", !.active_operation_id = op,
                                 !.active_assistant_sequence = 0, !.next_tool_index = 0]
             r  == [ctx EXCEPT !.operations = @ \cup {op}, !.s = st]
  <2>1. RequestLlm(ctx) = r
    BY <1>2 DEF RequestLlm
  <2>2. op \in Operations /\ op[2] = 0 /\ op # NoOperation
    BY <1>0 DEF Operations, NoOperation, Between
  <2> HIDE DEF op
  <2>3. /\ st \in HarnessStates /\ st.phase = "llm" /\ st.active_operation_id = op
        /\ st.active_assistant_sequence = 0 /\ st.cancel_requested = FALSE
    BY <1>0, <2>2 DEF HarnessStates
  <2> HIDE DEF st
  <2>4. /\ r \in Contexts /\ r.s = st /\ r.messages = ctx.messages /\ r.pending = ctx.pending
        /\ r.batch = <<>> /\ r.operations = {op} /\ r.sequence = ctx.sequence
        /\ r.status = "running"
    <3>1. ctx.operations = {} /\ ctx.batch = <<>>
      BY DEF Between
    <3>2. {op} \in SUBSET Operations
      BY <2>2
    <3> QED BY <1>0, <2>3, <3>1, <3>2 DEF Contexts
  <2> HIDE DEF r
  <2>5. LaunchedBy(r) = launched
    BY <2>2, <2>4, NothingLaunched DEF Between
  <2>6. PhaseFits(r.s, r.messages, r.batch, {} \cup r.operations, launched)
    BY <2>2, <2>3, <2>4 DEF PhaseFits
  <2>7. StatusFits(r.s, r.status)
    BY <2>3, <2>4 DEF StatusFits
  <2>8. PlanHolds(r, {}, rec)
    BY <2>3, <2>4, <2>5, <2>6, <2>7, ContextFields DEF PlanHolds, Holds, Between
  <2> QED BY <2>1, <2>8
<1> QED
  BY <1>1, <1>2

\* promoteSteering: the messages move to the transcript.
LEMMA PromoteHolds ==
  ASSUME NEW ctx, NEW rec, Between(ctx, rec)
  PROVE  /\ Between(PromoteSteering(ctx), rec)
         /\ PromoteSteering(ctx).s = ctx.s /\ PromoteSteering(ctx).status = ctx.status
         /\ PromoteSteering(ctx).pending = <<>>
<1> DEFINE p == PromoteSteering(ctx)
           rest == Promoted(ctx.pending)
           m == ctx.messages \o rest
<1>0. ctx \in Contexts /\ ctx.messages \in Seq(MessageRows) /\ ctx.pending \in Seq(Nat)
  BY ContextFields DEF Between
<1>1. /\ rest \in Seq(MessageRows) /\ \A j \in DOMAIN rest : rest[j].role = "user"
      /\ Steered(m, <<>>, rec, ctx.sequence)
  BY <1>0, SteeredPromoted DEF Between
<1>2. m \in Seq(MessageRows) /\ DOMAIN ctx.messages \subseteq DOMAIN m
  BY <1>0, <1>1, Joined
<1>3. Told(m, launched) /\ Paired(m, 0)
  BY <1>0, <1>1, UsersJoined DEF Between
<1>4. LaunchesFit(launched, ctx.sequence, m)
  <2>1. ctx.sequence \in Nat /\ ctx.sequence <= ctx.sequence
    BY <1>0, ContextFields
  <2>2. LaunchesFit(launched, ctx.sequence, ctx.messages)
    BY DEF Between
  <2> HIDE DEF m
  <2> QED BY <1>2, <2>1, <2>2, LaunchesGrow
<1>5. p = [ctx EXCEPT !.messages = m, !.pending = <<>>]
  BY DEF PromoteSteering, Promoted
<1> HIDE DEF m, rest, p
<1>6. /\ p \in Contexts /\ p.messages = m /\ p.pending = <<>> /\ p.s = ctx.s
      /\ p.batch = ctx.batch /\ p.operations = ctx.operations /\ p.status = ctx.status
      /\ p.sequence = ctx.sequence
  BY <1>0, <1>2, <1>5, EmptySeq DEF Contexts
<1>7. Between(p, rec)
  BY <1>1, <1>3, <1>4, <1>6 DEF Between
<1> QED
  BY <1>6, <1>7 DEF p

\* finishTurn: the run is cancelled, goes on, or is over with nothing pending.
LEMMA FinishHolds ==
  ASSUME NEW ctx, NEW rec, Between(ctx, rec), NEW hadTools \in BOOLEAN,
         ctx.status = IF ctx.s.cancel_requested THEN "cancelling" ELSE "running"
  PROVE  PlanHolds(FinishTurn(ctx, hadTools), {}, rec)
<1> DEFINE st == [ctx.s EXCEPT !.active_operation_id = NoOperation,
                               !.active_assistant_sequence = 0, !.next_tool_index = 0]
           ended == [ctx EXCEPT !.s = st]
<1>0. ctx \in Contexts /\ ctx.s \in HarnessStates /\ NoOperation \in Operations
  BY ContextFields DEF Between, NoOperation, Operations
<1>1. /\ st \in HarnessStates /\ st.active_operation_id = NoOperation
      /\ st.active_assistant_sequence = 0 /\ st.cancel_requested = ctx.s.cancel_requested
  BY <1>0 DEF HarnessStates
<1>2. ended = [ctx EXCEPT !.s = [@ EXCEPT !.active_operation_id = NoOperation,
                                          !.active_assistant_sequence = 0,
                                          !.next_tool_index = 0]]
  OBVIOUS
<1> HIDE DEF st
<1>3. /\ ended \in Contexts /\ ended.s = st /\ ended.messages = ctx.messages
      /\ ended.pending = ctx.pending /\ ended.batch = ctx.batch
      /\ ended.operations = ctx.operations /\ ended.status = ctx.status
      /\ ended.sequence = ctx.sequence
  BY <1>0, <1>1 DEF Contexts
<1> HIDE DEF ended
<1>4. Between(ended, rec)
  BY <1>3 DEF Between
<1>5. ASSUME NEW f, NEW phase \in {"cancelled", "idle"}, f \in Contexts,
             f.messages = ended.messages, f.pending = ended.pending,
             f.batch = ended.batch, f.operations = ended.operations,
             f.sequence = ended.sequence, f.status = phase, f.s.phase = phase,
             f.s.active_operation_id = NoOperation, f.s.active_assistant_sequence = 0,
             phase = "idle" => f.pending = <<>>
      PROVE  PlanHolds(f, {}, rec)
  <2>1. LaunchedBy(f) = launched
    BY <1>4, <1>5, NothingLaunched DEF Between
  <2>2. PhaseFits(f.s, f.messages, f.batch, {} \cup f.operations, launched) /\ StatusFits(f.s, f.status)
    BY <1>4, <1>5 DEF PhaseFits, StatusFits, Between
  <2> QED BY <1>4, <1>5, <2>1, <2>2, ContextFields DEF PlanHolds, Holds, Between
<1>6. CASE ctx.s.cancel_requested
  <2> DEFINE f == [ended EXCEPT !.status = "cancelled", !.s.phase = "cancelled",
                                !.s.cancel_requested = FALSE]
  <2>1. FinishTurn(ctx, hadTools) = f
    BY <1>2, <1>6 DEF FinishTurn
  <2>2. /\ f \in Contexts /\ f.messages = ended.messages /\ f.pending = ended.pending
        /\ f.batch = ended.batch /\ f.operations = ended.operations
        /\ f.sequence = ended.sequence /\ f.status = "cancelled" /\ f.s.phase = "cancelled"
        /\ f.s.active_operation_id = NoOperation /\ f.s.active_assistant_sequence = 0
    <3> DEFINE new == [st EXCEPT !.phase = "cancelled", !.cancel_requested = FALSE]
    <3>1. /\ new \in HarnessStates /\ new.phase = "cancelled"
          /\ new.active_operation_id = NoOperation /\ new.active_assistant_sequence = 0
      BY <1>1 DEF HarnessStates
    <3>2. f = [ended EXCEPT !.status = "cancelled", !.s = new]
      BY <1>3, <1>1 DEF Contexts, HarnessStates
    <3>3. "cancelled" \in HostStatuses
      BY DEF HostStatuses
    <3> HIDE DEF new, f
    <3> QED BY <1>3, <3>1, <3>2, <3>3 DEF Contexts
  <2> HIDE DEF f
  <2> QED BY <1>5, <2>1, <2>2
<1>7. CASE ~ctx.s.cancel_requested /\ (hadTools \/ ctx.pending # <<>>)
  <2>1. FinishTurn(ctx, hadTools) = RequestLlm(PromoteSteering(ended))
    BY <1>2, <1>7 DEF FinishTurn
  <2>2. ctx.s.cancel_requested \in BOOLEAN
    BY <1>0 DEF HarnessStates
  <2>3. /\ Between(PromoteSteering(ended), rec)
        /\ PromoteSteering(ended).s = ended.s /\ PromoteSteering(ended).status = ended.status
    BY <1>4, PromoteHolds
  <2>4. PromoteSteering(ended).status = "running" /\ PromoteSteering(ended).s.cancel_requested = FALSE
    BY <1>1, <1>3, <1>7, <2>2, <2>3
  <2> QED BY <2>1, <2>3, <2>4, RequestHolds
<1>8. CASE ~ctx.s.cancel_requested /\ ~(hadTools \/ ctx.pending # <<>>)
  <2> DEFINE f == [ended EXCEPT !.status = "idle", !.s.phase = "idle"]
  <2>1. FinishTurn(ctx, hadTools) = f
    BY <1>2, <1>8 DEF FinishTurn
  <2>2. /\ f \in Contexts /\ f.messages = ended.messages /\ f.pending = ended.pending
        /\ f.batch = ended.batch /\ f.operations = ended.operations
        /\ f.sequence = ended.sequence /\ f.status = "idle" /\ f.s.phase = "idle"
        /\ f.s.active_operation_id = NoOperation /\ f.s.active_assistant_sequence = 0
    <3> DEFINE new == [st EXCEPT !.phase = "idle"]
    <3>1. /\ new \in HarnessStates /\ new.phase = "idle"
          /\ new.active_operation_id = NoOperation /\ new.active_assistant_sequence = 0
      BY <1>1 DEF HarnessStates
    <3>2. f = [ended EXCEPT !.status = "idle", !.s = new]
      BY <1>3, <1>1 DEF Contexts, HarnessStates
    <3>3. "idle" \in HostStatuses
      BY DEF HostStatuses
    <3> HIDE DEF new, f
    <3> QED BY <1>3, <3>1, <3>2, <3>3 DEF Contexts
  <2>3. f.pending = <<>>
    BY <1>3, <1>8, <2>2
  <2> HIDE DEF f
  <2> QED BY <1>5, <2>1, <2>2, <2>3
<1> QED
  BY <1>6, <1>7, <1>8

-----------------------------------------------------------------------------
(* Serving a batch                                                         *)

\* A context whose batch is served, with the operations launched for it.
Working(ctx, L, rec) ==
  /\ ctx \in Contexts /\ ctx.sequence # 0
  /\ ctx.s.phase = "tools" /\ ctx.s.active_operation_id = NoOperation
  /\ LaunchesFit(L, ctx.sequence, ctx.messages)
  /\ Told(ctx.messages, L)
  /\ Paired(ctx.messages, ctx.s.active_assistant_sequence)
  /\ Serving(ctx.s, ctx.messages, ctx.batch, L)
  /\ Steered(ctx.messages, ctx.pending, rec, ctx.sequence)
  /\ ctx.status = IF ctx.s.cancel_requested THEN "cancelling" ELSE "running"

\* The calls that a pass of advanceTools starts, and those that it refuses.
Starting(ctx) ==
  {i \in Tried(ctx.batch, CurrentCalls(ctx)) :
     ctx.s.last_error = NoError /\ CurrentCalls(ctx)[i].valid}

Refused(ctx) ==
  IF ctx.s.last_error # NoError
  THEN {i \in DOMAIN ctx.batch : ctx.batch[i].status = "queued"}
  ELSE Tried(ctx.batch, CurrentCalls(ctx)) \ Starting(ctx)

\* The pass of advanceTools, field by field and row by row.
LEMMA DispatchFields ==
  ASSUME NEW ctx \in Contexts
  PROVE  /\ Dispatched(ctx) \in Contexts
         /\ Dispatched(ctx).s = ctx.s /\ Dispatched(ctx).messages = ctx.messages
         /\ Dispatched(ctx).pending = ctx.pending /\ Dispatched(ctx).status = ctx.status
         /\ Dispatched(ctx).sequence = ctx.sequence
         /\ Dispatched(ctx).operations = ctx.operations \cup ({ctx.sequence} \X Starting(ctx))
         /\ Len(Dispatched(ctx).batch) = Len(ctx.batch)
         /\ DOMAIN Dispatched(ctx).batch = DOMAIN ctx.batch
         /\ Starting(ctx) \cup Refused(ctx) \subseteq {i \in DOMAIN ctx.batch : ctx.batch[i].status = "queued"}
         /\ Starting(ctx) \cap Refused(ctx) = {}
         /\ \A i \in Starting(ctx) :
              /\ Dispatched(ctx).batch[i].status = "active"
              /\ Dispatched(ctx).batch[i].operation_id = <<ctx.sequence, i>>
         /\ \A i \in Refused(ctx) :
              /\ Dispatched(ctx).batch[i].status = "done"
              /\ Dispatched(ctx).batch[i].result = "not_executed"
              /\ Dispatched(ctx).batch[i].operation_id = ctx.batch[i].operation_id
         /\ \A i \in DOMAIN ctx.batch \ (Starting(ctx) \cup Refused(ctx)) :
              Dispatched(ctx).batch[i] = ctx.batch[i]
<1> DEFINE rows == ctx.batch
           row(i) == CASE i \in Starting(ctx) ->
                            [rows[i] EXCEPT !.status = "active", !.operation_id = <<ctx.sequence, i>>]
                       [] i \in Refused(ctx) ->
                            [rows[i] EXCEPT !.status = "done", !.result = "not_executed"]
                       [] OTHER -> rows[i]
           new == [i \in DOMAIN rows |-> row(i)]
           ops == ctx.operations \cup ({ctx.sequence} \X Starting(ctx))
           d == Dispatched(ctx)
<1>0. /\ rows \in Seq(BatchRows) /\ ctx.sequence \in Nat /\ ctx.operations \subseteq Operations
      /\ Len(rows) \in Nat /\ DOMAIN rows = 1 .. Len(rows)
      /\ \A i \in DOMAIN rows : rows[i] \in BatchRows
  BY ContextFields, LenProperties
<1>1. d = [ctx EXCEPT !.operations = ops, !.batch = new]
  BY DEF Dispatched, Starting, Refused, CurrentCalls
<1>2. /\ Starting(ctx) \subseteq {i \in DOMAIN rows : rows[i].status = "queued"}
      /\ Refused(ctx) \subseteq {i \in DOMAIN rows : rows[i].status = "queued"}
      /\ Starting(ctx) \cap Refused(ctx) = {}
  BY DEF Starting, Refused, Tried
<1>3. ASSUME NEW i \in Starting(ctx)
      PROVE  new[i] \in BatchRows /\ new[i].status = "active" /\ new[i].operation_id = <<ctx.sequence, i>>
  <2>1. new[i] = [rows[i] EXCEPT !.status = "active", !.operation_id = <<ctx.sequence, i>>]
    BY <1>2
  <2>2. <<ctx.sequence, i>> \in Operations /\ rows[i] \in BatchRows
    BY <1>0, <1>2 DEF Operations
  <2> HIDE DEF new, rows
  <2> QED BY <2>1, <2>2 DEF BatchRows
<1>4. ASSUME NEW i \in Refused(ctx)
      PROVE  /\ new[i] \in BatchRows /\ new[i].status = "done" /\ new[i].result = "not_executed"
             /\ new[i].operation_id = rows[i].operation_id
  <2>1. new[i] = [rows[i] EXCEPT !.status = "done", !.result = "not_executed"]
    BY <1>2
  <2>2. rows[i] \in BatchRows
    BY <1>0, <1>2
  <2> HIDE DEF new, rows
  <2> QED BY <2>1, <2>2 DEF BatchRows
<1>5. ASSUME NEW i \in DOMAIN rows \ (Starting(ctx) \cup Refused(ctx))
      PROVE  new[i] = rows[i]
  <2>1. i \in DOMAIN rows /\ i \notin Starting(ctx) /\ i \notin Refused(ctx)
    OBVIOUS
  <2> HIDE DEF rows
  <2> QED BY <2>1
<1>6. new \in Seq(BatchRows) /\ Len(new) = Len(rows) /\ DOMAIN new = DOMAIN rows
  <2> HIDE DEF row, rows
  <2>1. DOMAIN new = DOMAIN rows /\ new = [i \in DOMAIN rows |-> new[i]]
    OBVIOUS
  <2> HIDE DEF new
  <2>2. \A i \in DOMAIN rows : new[i] \in BatchRows
    BY <1>0, <1>3, <1>4, <1>5
  <2>3. new \in [1 .. Len(rows) -> BatchRows]
    BY <1>0, <2>1, <2>2
  <2> QED BY <1>0, <2>1, <2>3, FunctionIsSeq
<1>7. ops \subseteq Operations
  BY <1>0, <1>2 DEF Operations
<1> HIDE DEF new, ops, d
<1>8. /\ d \in Contexts /\ d.s = ctx.s /\ d.messages = ctx.messages /\ d.pending = ctx.pending
      /\ d.status = ctx.status /\ d.sequence = ctx.sequence /\ d.operations = ops /\ d.batch = new
  BY <1>1, <1>6, <1>7 DEF Contexts
<1> QED
  BY <1>2, <1>3, <1>4, <1>5, <1>6, <1>8 DEF d, ops

\* A pass starts what it may: the operations that are out are those of the active rows,
\* each launched for its call.
LEMMA DispatchHolds ==
  ASSUME NEW ctx, NEW rec, Working(ctx, launched, rec), ctx.operations = {},
         ctx.sequence \notin {op[1] : op \in DOMAIN launched}
  PROVE  /\ Working(Dispatched(ctx), LaunchedBy(Dispatched(ctx)), rec)
         /\ ActiveOperations(Dispatched(ctx).batch)
              = ActiveOperations(ctx.batch) \cup Dispatched(ctx).operations
         /\ \A op \in Dispatched(ctx).operations : op[2] # 0
<1> DEFINE d == Dispatched(ctx)
           L == LaunchedBy(d)
           a == ctx.s.active_assistant_sequence
           n == ctx.s.next_tool_index
           m == ctx.messages
           calls == m[a].calls
           rows == ctx.batch
           new == d.batch
           starts == Starting(ctx)
           refused == Refused(ctx)
<1>0. ctx \in Contexts
  BY DEF Working
<1>1. /\ d \in Contexts /\ d.s = ctx.s /\ d.messages = m /\ d.pending = ctx.pending
      /\ d.status = ctx.status /\ d.sequence = ctx.sequence
      /\ d.operations = {ctx.sequence} \X starts
      /\ Len(new) = Len(rows) /\ DOMAIN new = DOMAIN rows
      /\ starts \cup refused \subseteq {i \in DOMAIN rows : rows[i].status = "queued"}
      /\ starts \cap refused = {}
  BY <1>0, DispatchFields DEF Working
<1>2. /\ \A i \in starts : new[i].status = "active" /\ new[i].operation_id = <<ctx.sequence, i>>
      /\ \A i \in refused : /\ new[i].status = "done" /\ new[i].result = "not_executed"
                            /\ new[i].operation_id = rows[i].operation_id
      /\ \A i \in DOMAIN rows \ (starts \cup refused) : new[i] = rows[i]
  BY <1>0, DispatchFields
<1>3. /\ ctx.sequence \in Nat \ {0} /\ rows \in Seq(BatchRows)
      /\ DOMAIN rows = 1 .. Len(rows) /\ Len(rows) \in Nat
      /\ a \in Nat /\ n \in Nat /\ m \in Seq(MessageRows)
  <2>1. ctx.s \in HarnessStates /\ rows \in Seq(BatchRows) /\ m \in Seq(MessageRows) /\ ctx.sequence \in Nat
    BY <1>0, ContextFields
  <2> QED BY <2>1, LenProperties DEF HarnessStates, Working
<1>4. /\ LaunchesFit(launched, ctx.sequence, m) /\ Told(m, launched) /\ Paired(m, a)
      /\ Steered(m, ctx.pending, rec, ctx.sequence)
      /\ ctx.s.phase = "tools" /\ ctx.s.active_operation_id = NoOperation
      /\ ctx.status = IF ctx.s.cancel_requested THEN "cancelling" ELSE "running"
  BY DEF Working
<1>5. /\ a \in DOMAIN m /\ m[a].role = "assistant" /\ m[a].in_context
      /\ Len(rows) = Len(calls) /\ n \in 0 .. Len(rows) /\ Len(m) = a + n
      /\ \A k \in 1 .. n : /\ m[a + k].role = "tool_result" /\ m[a + k].index = k
                           /\ rows[k].status = "done"
      /\ Lane(rows, calls)
  BY DEF Working, Serving
<1>6. /\ \A i \in DOMAIN rows :
           /\ RowTells(rows[i])
           /\ n < i /\ rows[i].status = "done" =>
                (rows[i].result = "not_executed" <=> rows[i].operation_id = NoOperation)
           /\ rows[i].operation_id # NoOperation =>
                /\ rows[i].operation_id \in DOMAIN launched
                /\ launched[rows[i].operation_id] = <<a, i>>
      /\ \A op \in DOMAIN launched : launched[op][1] = a =>
           op[2] \in DOMAIN rows /\ rows[op[2]].operation_id = op
  BY DEF Working, Serving
<1>7. /\ DOMAIN L = DOMAIN launched \cup {<<ctx.sequence, i>> : i \in starts}
      /\ \A op \in DOMAIN launched : L[op] = launched[op]
      /\ \A i \in starts : <<ctx.sequence, i>> \notin DOMAIN launched /\ L[<<ctx.sequence, i>>] = <<a, i>>
  <2>1. {o \in d.operations : o[2] # 0} = {<<ctx.sequence, i>> : i \in starts}
    BY <1>1, <1>3
  <2>2. \A i \in starts : <<ctx.sequence, i>> \notin DOMAIN launched
    <3> SUFFICES ASSUME NEW i \in starts, <<ctx.sequence, i>> \in DOMAIN launched PROVE FALSE
      OBVIOUS
    <3>1. <<ctx.sequence, i>>[1] = ctx.sequence
      OBVIOUS
    <3> QED BY <3>1
  <2>3. L = [op \in DOMAIN launched \cup {<<ctx.sequence, i>> : i \in starts} |->
              IF op \in DOMAIN launched THEN launched[op] ELSE <<a, op[2]>>]
    BY <1>1, <2>1 DEF LaunchedBy
  <2> HIDE DEF L, starts
  <2> QED BY <2>2, <2>3
<1> HIDE DEF d, L, new, starts, refused, rows, calls, m, a, n
<1>8. LaunchesFit(L, ctx.sequence, m)
  <2>1. \A op \in DOMAIN L : op \in DOMAIN launched \/ \E i \in starts : op = <<ctx.sequence, i>>
    BY <1>7
  <2>2. /\ launched \in [DOMAIN launched -> Operations] /\ DOMAIN launched \subseteq Operations
        /\ \A op \in DOMAIN launched : /\ op[1] \in 1 .. ctx.sequence /\ op[2] # 0
                                       /\ launched[op][1] \in DOMAIN m /\ launched[op][2] = op[2]
        /\ \A p, q \in DOMAIN launched : launched[p] = launched[q] => p = q
    BY <1>4 DEF LaunchesFit
  <2>3. \A i \in starts : i \in DOMAIN rows /\ i \in Nat \ {0} /\ rows[i].operation_id = NoOperation
    BY <1>1, <1>3, <1>6 DEF RowTells
  <2>4. \A op \in DOMAIN L : op \in Operations /\ L[op] \in Operations
    BY <1>3, <1>7, <2>1, <2>2, <2>3 DEF Operations
  <2>5. ASSUME NEW op \in DOMAIN L
        PROVE  op[1] \in 1 .. ctx.sequence /\ op[2] # 0 /\ L[op][1] \in DOMAIN m /\ L[op][2] = op[2]
    <3>1. CASE op \in DOMAIN launched
      BY <1>7, <2>2, <3>1
    <3>2. CASE \E i \in starts : op = <<ctx.sequence, i>>
      <4> PICK i \in starts : op = <<ctx.sequence, i>>
        BY <3>2
      <4>1. L[op] = <<a, i>>
        BY <1>7
      <4> QED BY <1>3, <1>5, <2>3, <4>1
    <3> QED BY <2>1, <3>1, <3>2
  <2>6. \A op \in DOMAIN launched, i \in starts : L[op] # L[<<ctx.sequence, i>>]
    <3> SUFFICES ASSUME NEW op \in DOMAIN launched, NEW i \in starts, launched[op] = <<a, i>>
                 PROVE  FALSE
      BY <1>7
    <3>1. launched[op][1] = a /\ op[2] = i
      BY <2>2
    <3>2. rows[i].operation_id = op
      BY <1>6, <3>1
    <3> QED BY <2>2, <2>3, <3>1, <3>2 DEF NoOperation
  <2>7. ASSUME NEW p \in DOMAIN L, NEW q \in DOMAIN L, L[p] = L[q] PROVE p = q
    <3>1. CASE p \in DOMAIN launched /\ q \in DOMAIN launched
      BY <1>7, <2>2, <2>7, <3>1
    <3>2. CASE p \in DOMAIN launched /\ \E i \in starts : q = <<ctx.sequence, i>>
      BY <2>6, <2>7, <3>2
    <3>3. CASE q \in DOMAIN launched /\ \E i \in starts : p = <<ctx.sequence, i>>
      BY <2>6, <2>7, <3>3
    <3>4. CASE /\ \E i \in starts : p = <<ctx.sequence, i>>
               /\ \E i \in starts : q = <<ctx.sequence, i>>
      <4> PICK i \in starts : p = <<ctx.sequence, i>>
        BY <3>4
      <4> PICK j \in starts : q = <<ctx.sequence, j>>
        BY <3>4
      <4>1. L[p] = <<a, i>> /\ L[q] = <<a, j>>
        BY <1>7
      <4>2. <<a, i>> = <<a, j>>
        BY <2>7, <4>1
      <4>3. i = j
        BY <4>2
      <4> QED BY <4>3
    <3> QED BY <2>1, <3>1, <3>2, <3>3, <3>4
  <2>8. L \in [DOMAIN L -> Operations]
    <3>1. L = [op \in DOMAIN L |-> L[op]]
      BY DEF L, LaunchedBy
    <3> QED BY <2>4, <3>1
  <2> QED BY <2>4, <2>5, <2>7, <2>8 DEF LaunchesFit
<1>9. Told(m, L)
  <2> SUFFICES ASSUME NEW i \in DOMAIN m, m[i].role = "tool_result"
               PROVE  (m[i].result = "not_executed")
                        <=> \A op \in DOMAIN L : L[op] # <<i - m[i].index, m[i].index>>
    BY DEF Told
  <2>1. (m[i].result = "not_executed")
          <=> \A op \in DOMAIN launched : launched[op] # <<i - m[i].index, m[i].index>>
    BY <1>4 DEF Told
  <2>2. \A k \in starts : L[<<ctx.sequence, k>>] # <<i - m[i].index, m[i].index>>
    <3> SUFFICES ASSUME NEW k \in starts, <<a, k>> = <<i - m[i].index, m[i].index>> PROVE FALSE
      BY <1>7
    <3>1. a = i - m[i].index /\ k = m[i].index /\ k \in DOMAIN rows /\ rows[k].status = "queued"
      BY <1>1
    <3>2. i \in 1 .. a + n /\ k \in 1 .. Len(rows)
      <4>1. DOMAIN m = 1 .. Len(m)
        BY <1>3, LenProperties
      <4> QED BY <1>3, <1>5, <3>1, <4>1
    <3>3. k \in 1 .. n
      <4>1. m[i].index \in Nat
        BY <1>3, <3>1
      <4>2. i = a + k
        BY <1>3, <3>1, <3>2, <4>1
      <4> QED BY <1>3, <3>2, <4>2
    <3> QED BY <1>5, <3>1, <3>3
  <2>3. \A op \in DOMAIN L : op \in DOMAIN launched \/ \E k \in starts : op = <<ctx.sequence, k>>
    BY <1>7
  <2> QED BY <1>7, <2>1, <2>2, <2>3
<1>10. \A i \in DOMAIN new :
         /\ RowTells(new[i])
         /\ n < i /\ new[i].status = "done" =>
              (new[i].result = "not_executed" <=> new[i].operation_id = NoOperation)
         /\ new[i].operation_id # NoOperation =>
              new[i].operation_id \in DOMAIN L /\ L[new[i].operation_id] = <<a, i>>
  <2> SUFFICES ASSUME NEW i \in DOMAIN rows
               PROVE  /\ RowTells(new[i])
                      /\ n < i /\ new[i].status = "done" =>
                           (new[i].result = "not_executed" <=> new[i].operation_id = NoOperation)
                      /\ new[i].operation_id # NoOperation =>
                           new[i].operation_id \in DOMAIN L /\ L[new[i].operation_id] = <<a, i>>
    BY <1>1
  <2>1. CASE i \in starts
    <3>1. new[i].operation_id # NoOperation
      BY <1>2, <1>3, <2>1 DEF NoOperation
    <3> QED BY <1>2, <1>7, <2>1, <3>1 DEF RowTells
  <2>2. CASE i \in refused
    <3>1. rows[i].operation_id = NoOperation
      BY <1>1, <1>6, <2>2 DEF RowTells
    <3> QED BY <1>2, <2>2, <3>1 DEF RowTells
  <2>3. CASE i \notin starts \cup refused
    <3>1. new[i] = rows[i]
      BY <1>2, <2>3
    <3> QED BY <1>6, <1>7, <3>1
  <2> QED BY <2>1, <2>2, <2>3
<1>11. \A op \in DOMAIN L : L[op][1] = a => op[2] \in DOMAIN new /\ new[op[2]].operation_id = op
  <2> SUFFICES ASSUME NEW op \in DOMAIN L, L[op][1] = a
               PROVE  op[2] \in DOMAIN rows /\ new[op[2]].operation_id = op
    BY <1>1
  <2>1. CASE \E i \in starts : op = <<ctx.sequence, i>>
    <3> PICK i \in starts : op = <<ctx.sequence, i>>
      BY <2>1
    <3>1. op[2] = i
      OBVIOUS
    <3> QED BY <1>1, <1>2, <3>1
  <2>2. CASE op \in DOMAIN launched
    <3>1. op[2] \in DOMAIN rows /\ rows[op[2]].operation_id = op
      BY <1>6, <1>7, <2>2
    <3>2. op # NoOperation
      BY <1>4, <2>2 DEF LaunchesFit, NoOperation
    <3>3. rows[op[2]].status # "queued"
      BY <1>6, <3>1, <3>2 DEF RowTells
    <3>4. op[2] \notin starts \cup refused
      BY <1>1, <3>3
    <3> QED BY <1>2, <3>1, <3>4
  <2> QED BY <1>7, <2>1, <2>2
<1>12. Lane(new, calls)
  <2> SUFFICES ASSUME NEW i \in DOMAIN rows, NEW j \in DOMAIN rows, i < j, calls[i].mutation,
                      calls[j].mutation, new[j].operation_id # NoOperation
               PROVE  new[i].status = "done"
    BY <1>1 DEF Lane
  <2>1. CASE j \notin starts
    <3>1. rows[j].operation_id # NoOperation
      BY <1>2, <2>1
    <3>2. rows[i].status = "done"
      BY <1>5, <3>1 DEF Lane
    <3> QED BY <1>1, <1>2, <3>2
  <2>2. CASE j \in starts
    <3>1. /\ ctx.s.last_error = NoError
          /\ \A k \in {l \in DOMAIN rows : calls[l].mutation} :
               /\ rows[k].status # "active"
               /\ k < j => ~(rows[k].status = "queued" /\ calls[k].valid)
      BY <2>2 DEF starts, Starting, Tried, CurrentCalls, rows, calls, m, a
    <3>2. rows[i].status \in {"queued", "active", "done"}
      <4>1. rows[i] \in BatchRows
        BY <1>3, ElementOfSeq
      <4> QED BY <4>1 DEF BatchRows
    <3>3. CASE rows[i].status = "done"
      BY <1>1, <1>2, <3>3
    <3>4. CASE rows[i].status = "queued"
      <4>1. ~calls[i].valid
        BY <3>1, <3>4
      <4>2. i \in Tried(rows, calls)
        <5>1. \A k \in {l \in DOMAIN rows : calls[l].mutation} :
                 /\ rows[k].status # "active"
                 /\ k < i => ~(rows[k].status = "queued" /\ calls[k].valid)
          BY <1>3, <3>1
        <5> QED BY <3>4, <5>1 DEF Tried
      <4>3. i \in refused
        BY <3>1, <4>1, <4>2 DEF refused, Refused, Starting, CurrentCalls, rows, calls, m, a
      <4> QED BY <1>2, <4>3
    <3> QED BY <3>1, <3>2, <3>3, <3>4
  <2> QED BY <2>1, <2>2
<1>13. \A k \in 1 .. n : new[k].status = "done"
  <2> SUFFICES ASSUME NEW k \in 1 .. n PROVE new[k].status = "done"
    OBVIOUS
  <2>1. k \in DOMAIN rows /\ rows[k].status = "done"
    BY <1>3, <1>5
  <2>2. k \notin starts \cup refused
    BY <1>1, <2>1
  <2> QED BY <1>2, <2>1, <2>2
<1>14. Serving(ctx.s, m, new, L)
  BY <1>1, <1>5, <1>10, <1>11, <1>12, <1>13 DEF Serving, a, n, calls
<1>15. Working(d, L, rec)
  BY <1>1, <1>3, <1>4, <1>8, <1>9, <1>14 DEF Working, new, m, a
<1>16. ActiveOperations(new) = ActiveOperations(rows) \cup d.operations
  <2>1. ASSUME NEW i \in DOMAIN rows
        PROVE  new[i].status = "active" <=> rows[i].status = "active" \/ i \in starts
    <3>1. CASE i \in starts
      BY <1>2, <3>1
    <3>2. CASE i \in refused
      <4>1. rows[i].status = "queued" /\ i \notin starts
        BY <1>1, <3>2
      <4> QED BY <1>2, <3>2, <4>1
    <3>3. CASE i \notin starts \cup refused
      BY <1>2, <3>3
    <3> QED BY <3>1, <3>2, <3>3
  <2>2. ASSUME NEW i \in DOMAIN rows, rows[i].status = "active"
        PROVE  new[i].operation_id = rows[i].operation_id
    <3>1. i \notin starts \cup refused
      BY <1>1, <2>2
    <3> QED BY <1>2, <3>1
  <2>3. d.operations = {new[i].operation_id : i \in starts}
    <3>1. {ctx.sequence} \X starts = {<<ctx.sequence, i>> : i \in starts}
      OBVIOUS
    <3>2. \A i \in starts : new[i].operation_id = <<ctx.sequence, i>>
      BY <1>2
    <3>3. d.operations = {<<ctx.sequence, i>> : i \in starts}
      BY <1>1, <3>1
    <3>4. {new[i].operation_id : i \in starts} = {<<ctx.sequence, i>> : i \in starts}
      BY <3>2
    <3> QED BY <3>3, <3>4
  <2>4. {i \in DOMAIN new : new[i].status = "active"} = {i \in DOMAIN rows : rows[i].status = "active"} \cup starts
    BY <1>1, <2>1
  <2> QED BY <2>2, <2>3, <2>4 DEF ActiveOperations
<1>17. \A op \in d.operations : op[2] # 0
  BY <1>1, <1>3
<1> QED
  BY <1>15, <1>16, <1>17 DEF d, L, new, rows

\* A set of naturals has a least element.
LEMMA LeastNatural ==
  ASSUME NEW T, T \subseteq Nat, T # {}
  PROVE  \E x \in T : \A y \in T : x <= y
<1> DEFINE R == OpToRel(<, Nat)
<1>1. IsWellFoundedOn(R, Nat)
  BY NatLessThanWellFounded
<1> HIDE DEF R
<1>2. PICK x \in T : \A y \in T : <<y, x>> \notin R
  BY <1>1, WFMin
<1>3. ASSUME NEW y \in T PROVE x <= y
  <2>1. x \in Nat /\ y \in Nat /\ <<y, x>> \notin R
    BY <1>2
  <2>2. ~(y < x)
    BY <2>1 DEF R, OpToRel
  <2> QED BY <2>1, <2>2
<1> QED
  BY <1>3

\* How far the results of a batch can be flushed.
FlushEnd(rows, next, n) ==
  /\ \A i \in next + 1 .. n : rows[i].status = "done"
  /\ n < Len(rows) => rows[n + 1].status # "done"

\* There is such a point.
LEMMA FlushEnds ==
  ASSUME NEW rows, Len(rows) \in Nat, NEW next \in 0 .. Len(rows)
  PROVE  \E n \in next .. Len(rows) : FlushEnd(rows, next, n)
<1> DEFINE T == {i \in next + 1 .. Len(rows) : rows[i].status # "done"}
<1>1. CASE T = {}
  <2>1. FlushEnd(rows, next, Len(rows))
    BY <1>1 DEF FlushEnd
  <2> QED BY <2>1
<1>2. CASE T # {}
  <2>1. T \subseteq Nat
    OBVIOUS
  <2>2. PICK x \in T : \A y \in T : x <= y
    <3> HIDE DEF T
    <3> QED BY <1>2, <2>1, LeastNatural
  <2>3. x - 1 \in next .. Len(rows) /\ (x - 1) + 1 = x /\ rows[x].status # "done"
    OBVIOUS
  <2>4. \A i \in next + 1 .. x - 1 : rows[i].status = "done"
    BY <2>2
  <2>5. FlushEnd(rows, next, x - 1)
    BY <2>3, <2>4 DEF FlushEnd
  <2> QED BY <2>3, <2>5
<1> QED
  BY <1>1, <1>2

\* What flushToolResults makes of a context: the results up to last are appended.
FlushedAs(ctx, f, last, rest) ==
  /\ \A i \in ctx.s.next_tool_index + 1 .. last : ctx.batch[i].status = "done"
  /\ Len(rest) = last - ctx.s.next_tool_index
  /\ \A j \in DOMAIN rest :
       rest[j] = ToolResult(ctx.s.next_tool_index + j, ctx.batch[ctx.s.next_tool_index + j])
  /\ f \in Contexts
  /\ f.messages = ctx.messages \o rest
  /\ f.pending = ctx.pending /\ f.status = ctx.status
  /\ f.sequence = ctx.sequence /\ f.operations = ctx.operations
  /\ f.s.next_tool_index = last
  /\ f.s.phase = ctx.s.phase
  /\ f.s.active_operation_id = ctx.s.active_operation_id
  /\ f.s.active_assistant_sequence = ctx.s.active_assistant_sequence
  /\ f.s.cancel_requested = ctx.s.cancel_requested
  /\ f.s.last_error = ctx.s.last_error
  /\ Len(f.batch) = Len(ctx.batch)
  /\ DOMAIN f.batch = DOMAIN ctx.batch
  /\ \A i \in DOMAIN ctx.batch :
       /\ f.batch[i].status = ctx.batch[i].status
       /\ f.batch[i].operation_id = ctx.batch[i].operation_id
       /\ last < i => f.batch[i] = ctx.batch[i]

\* flushToolResults, field by field and row by row.
LEMMA FlushFields ==
  ASSUME NEW ctx \in Contexts, ctx.s.next_tool_index \in 0 .. Len(ctx.batch)
  PROVE  \E last \in ctx.s.next_tool_index .. Len(ctx.batch), rest \in Seq(MessageRows) :
           FlushedAs(ctx, Flushed(ctx), last, rest)
<1> DEFINE rows == ctx.batch
           next == ctx.s.next_tool_index
           last == CHOOSE n \in next .. Len(rows) : FlushEnd(rows, next, n)
           rest == [i \in 1 .. last - next |-> ToolResult(next + i, rows[next + i])]
           row(i) == IF i \in next + 1 .. last THEN [rows[i] EXCEPT !.result = NoResult] ELSE rows[i]
           new == [i \in DOMAIN rows |-> row(i)]
           st == [ctx.s EXCEPT !.next_tool_index = last]
           f == Flushed(ctx)
<1>0. /\ rows \in Seq(BatchRows) /\ ctx.messages \in Seq(MessageRows) /\ ctx.s \in HarnessStates
      /\ Len(rows) \in Nat /\ DOMAIN rows = 1 .. Len(rows)
      /\ \A i \in DOMAIN rows : rows[i] \in BatchRows
  BY ContextFields, LenProperties
<1>1. f = [ctx EXCEPT !.messages = @ \o rest, !.batch = new, !.s.next_tool_index = last]
  BY DEF Flushed, FlushEnd
<1>2. last \in next .. Len(rows) /\ FlushEnd(rows, next, last)
  <2> HIDE DEF rows, next
  <2>1. \E n \in next .. Len(rows) : FlushEnd(rows, next, n)
    BY <1>0, FlushEnds DEF rows, next
  <2> QED BY <2>1
<1>3. next \in Nat /\ last \in Nat /\ last - next \in Nat
  BY <1>0, <1>2 DEF HarnessStates
<1> HIDE DEF last
<1>4. rest \in Seq(MessageRows) /\ Len(rest) = last - next /\ DOMAIN rest = 1 .. last - next
  <2>1. ASSUME NEW i \in 1 .. last - next
        PROVE  ToolResult(next + i, rows[next + i]) \in MessageRows
    <3>1. next + i \in DOMAIN rows /\ next + i \in Nat
      BY <1>0, <1>2, <1>3
    <3>2. rows[next + i] \in BatchRows
      BY <1>0, <3>1
    <3> HIDE DEF rows, next
    <3> QED BY <3>1, <3>2 DEF ToolResult, MessageRows, BatchRows
  <2>2. rest \in [1 .. last - next -> MessageRows]
    BY <2>1
  <2> HIDE DEF rest
  <2> QED BY <1>3, <2>2, FunctionIsSeq
<1>5. \A j \in DOMAIN rest : rest[j] = ToolResult(next + j, rows[next + j])
  <2>1. DOMAIN rest = 1 .. last - next
    BY <1>4
  <2> QED BY <2>1
<1>6. ASSUME NEW i \in DOMAIN rows
      PROVE  /\ row(i) \in BatchRows /\ row(i).status = rows[i].status
             /\ row(i).operation_id = rows[i].operation_id
             /\ last < i => row(i) = rows[i]
  <2>1. rows[i] \in BatchRows /\ i \in Nat
    BY <1>0
  <2> HIDE DEF rows, next
  <2>2. CASE i \in next + 1 .. last
    <3>1. row(i) = [rows[i] EXCEPT !.result = NoResult] /\ ~(last < i)
      BY <1>3, <2>2
    <3>2. /\ [rows[i] EXCEPT !.result = NoResult] \in BatchRows
          /\ [rows[i] EXCEPT !.result = NoResult].status = rows[i].status
          /\ [rows[i] EXCEPT !.result = NoResult].operation_id = rows[i].operation_id
      BY <2>1 DEF BatchRows
    <3> HIDE DEF row
    <3> QED BY <3>1, <3>2
  <2>3. CASE i \notin next + 1 .. last
    BY <2>1, <2>3
  <2> QED BY <2>2, <2>3
<1> HIDE DEF row
<1>7. new \in Seq(BatchRows) /\ Len(new) = Len(rows) /\ DOMAIN new = DOMAIN rows
  <2>1. new \in [1 .. Len(rows) -> BatchRows] /\ DOMAIN new = DOMAIN rows
    BY <1>0, <1>6
  <2> HIDE DEF new
  <2> QED BY <1>0, <2>1, FunctionIsSeq
<1>8. \A i \in DOMAIN rows : new[i] = row(i)
  OBVIOUS
<1>9. /\ st \in HarnessStates /\ st.next_tool_index = last /\ st.phase = ctx.s.phase
      /\ st.active_operation_id = ctx.s.active_operation_id
      /\ st.active_assistant_sequence = ctx.s.active_assistant_sequence
      /\ st.cancel_requested = ctx.s.cancel_requested /\ st.last_error = ctx.s.last_error
  BY <1>0, <1>3 DEF HarnessStates
<1>10. f = [ctx EXCEPT !.messages = ctx.messages \o rest, !.batch = new, !.s = st]
  BY <1>1 DEF Contexts
<1>11. ctx.messages \o rest \in Seq(MessageRows)
  BY <1>0, <1>4, ConcatProperties
<1> HIDE DEF st, new, f, rest
<1>12. /\ f \in Contexts /\ f.messages = ctx.messages \o rest /\ f.batch = new /\ f.s = st
       /\ f.pending = ctx.pending /\ f.status = ctx.status /\ f.sequence = ctx.sequence
       /\ f.operations = ctx.operations
  BY <1>7, <1>9, <1>10, <1>11 DEF Contexts
<1>13. \A i \in DOMAIN rows : /\ f.batch[i].status = rows[i].status
                              /\ f.batch[i].operation_id = rows[i].operation_id
                              /\ last < i => f.batch[i] = rows[i]
  BY <1>6, <1>8, <1>12
<1>14. \A i \in next + 1 .. last : rows[i].status = "done"
  BY <1>2 DEF FlushEnd
<1> HIDE DEF rows, next
<1>15. /\ Len(f.batch) = Len(rows) /\ DOMAIN f.batch = DOMAIN rows /\ f.s.next_tool_index = last
       /\ f.s.phase = ctx.s.phase /\ f.s.active_operation_id = ctx.s.active_operation_id
       /\ f.s.active_assistant_sequence = ctx.s.active_assistant_sequence
       /\ f.s.cancel_requested = ctx.s.cancel_requested /\ f.s.last_error = ctx.s.last_error
  BY <1>7, <1>9, <1>12
<1>16. FlushedAs(ctx, f, last, rest)
  BY <1>4, <1>5, <1>12, <1>13, <1>14, <1>15 DEF FlushedAs, rows, next
<1> QED
  BY <1>2, <1>4, <1>16 DEF f, rows, next

\* Flushing keeps the batch served: each result stands at the place of its call and
\* tells whether the call was launched.
LEMMA FlushHolds ==
  ASSUME NEW ctx, NEW L, NEW rec, Working(ctx, L, rec)
  PROVE  /\ Working(Flushed(ctx), L, rec)
         /\ ActiveOperations(Flushed(ctx).batch) = ActiveOperations(ctx.batch)
         /\ Flushed(ctx).operations = ctx.operations
         /\ Flushed(ctx).s.active_assistant_sequence = ctx.s.active_assistant_sequence
         /\ Flushed(ctx).s.last_error = ctx.s.last_error
         /\ Flushed(ctx).s.next_tool_index = Len(Flushed(ctx).batch) =>
              ActiveOperations(Flushed(ctx).batch) = {}
<1> DEFINE f == Flushed(ctx)
           a == ctx.s.active_assistant_sequence
           n == ctx.s.next_tool_index
           m == ctx.messages
           rows == ctx.batch
<1>0. /\ ctx \in Contexts /\ rows \in Seq(BatchRows) /\ m \in Seq(MessageRows)
      /\ Len(rows) \in Nat /\ DOMAIN rows = 1 .. Len(rows) /\ ctx.sequence \in Nat
      /\ a \in Nat /\ n \in Nat /\ \A i \in DOMAIN rows : rows[i] \in BatchRows
  <2>1. ctx \in Contexts
    BY DEF Working
  <2>2. /\ ctx.s \in HarnessStates /\ rows \in Seq(BatchRows) /\ m \in Seq(MessageRows)
        /\ ctx.sequence \in Nat
    BY <2>1, ContextFields
  <2> QED BY <2>1, <2>2, LenProperties DEF HarnessStates
<1>1. /\ ctx.sequence # 0 /\ ctx.s.phase = "tools" /\ ctx.s.active_operation_id = NoOperation
      /\ LaunchesFit(L, ctx.sequence, m) /\ Told(m, L) /\ Paired(m, a)
      /\ Steered(m, ctx.pending, rec, ctx.sequence)
      /\ ctx.status = IF ctx.s.cancel_requested THEN "cancelling" ELSE "running"
  BY DEF Working
<1>2. /\ a \in DOMAIN m /\ m[a].role = "assistant" /\ m[a].in_context
      /\ Len(rows) = Len(m[a].calls) /\ n \in 0 .. Len(rows) /\ Len(m) = a + n
      /\ \A k \in 1 .. n : /\ m[a + k].role = "tool_result" /\ m[a + k].index = k
                           /\ rows[k].status = "done"
      /\ Lane(rows, m[a].calls)
  BY DEF Working, Serving
<1>3. /\ \A i \in DOMAIN rows :
           /\ RowTells(rows[i])
           /\ n < i /\ rows[i].status = "done" =>
                (rows[i].result = "not_executed" <=> rows[i].operation_id = NoOperation)
           /\ rows[i].operation_id # NoOperation =>
                rows[i].operation_id \in DOMAIN L /\ L[rows[i].operation_id] = <<a, i>>
      /\ \A op \in DOMAIN L : L[op][1] = a =>
           op[2] \in DOMAIN rows /\ rows[op[2]].operation_id = op
  BY DEF Working, Serving
<1>4p. PICK last \in n .. Len(rows), rest \in Seq(MessageRows) : FlushedAs(ctx, f, last, rest)
  <2>1. ctx \in Contexts /\ ctx.s.next_tool_index \in 0 .. Len(ctx.batch)
    BY <1>0, <1>2
  <2> QED BY <2>1, FlushFields
<1>4. /\ \A i \in n + 1 .. last : rows[i].status = "done"
      /\ Len(rest) = last - n
      /\ \A j \in DOMAIN rest : rest[j] = ToolResult(n + j, rows[n + j])
      /\ f \in Contexts /\ f.messages = m \o rest
      /\ f.pending = ctx.pending /\ f.status = ctx.status
      /\ f.sequence = ctx.sequence /\ f.operations = ctx.operations
      /\ f.s.next_tool_index = last
      /\ f.s.phase = ctx.s.phase
      /\ f.s.active_operation_id = ctx.s.active_operation_id
      /\ f.s.active_assistant_sequence = a
      /\ f.s.cancel_requested = ctx.s.cancel_requested
      /\ f.s.last_error = ctx.s.last_error
      /\ Len(f.batch) = Len(rows) /\ DOMAIN f.batch = DOMAIN rows
      /\ \A i \in DOMAIN rows :
           /\ f.batch[i].status = rows[i].status
           /\ f.batch[i].operation_id = rows[i].operation_id
           /\ last < i => f.batch[i] = rows[i]
  BY <1>4p DEF FlushedAs
<1> DEFINE both == m \o rest
           new == f.batch
           calls == m[a].calls
<1> HIDE DEF f, rows, m, a, n
<1>5. /\ \A i \in DOMAIN m : i \in DOMAIN both /\ both[i] = m[i]
      /\ \A j \in DOMAIN rest : Len(m) + j \in DOMAIN both /\ both[Len(m) + j] = rest[j]
      /\ \A i \in DOMAIN both : i \in DOMAIN m \/ \E j \in DOMAIN rest : i = Len(m) + j
      /\ DOMAIN m = 1 .. Len(m) /\ DOMAIN rest = 1 .. last - n
      /\ both \in Seq(MessageRows) /\ Len(both) = Len(m) + (last - n)
  <2>1. /\ both \in Seq(MessageRows) /\ Len(both) = Len(m) + Len(rest)
        /\ DOMAIN m = 1 .. Len(m) /\ DOMAIN rest = 1 .. Len(rest)
        /\ \A i \in DOMAIN m : i \in DOMAIN both /\ both[i] = m[i]
        /\ \A j \in DOMAIN rest : Len(m) + j \in DOMAIN both /\ both[Len(m) + j] = rest[j]
        /\ \A i \in DOMAIN both : i \in DOMAIN m \/ \E j \in DOMAIN rest : i = Len(m) + j
    BY <1>0, Joined
  <2>2. Len(rest) = last - n
    BY <1>4
  <2> HIDE DEF both
  <2> QED BY <2>1, <2>2
<1>6. ASSUME NEW j \in DOMAIN rest
      PROVE  /\ rest[j].role = "tool_result" /\ rest[j].index = n + j
             /\ rest[j].result = rows[n + j].result /\ rest[j].in_context
             /\ n + j \in DOMAIN rows /\ n < n + j /\ rows[n + j].status = "done"
  <2>1. rest[j] = ToolResult(n + j, rows[n + j])
    BY <1>4
  <2>2. j \in Nat /\ 0 < j /\ n + j \in n + 1 .. last /\ n + j \in DOMAIN rows /\ n < n + j
    <3>1. j \in 1 .. last - n
      BY <1>5
    <3>2. DOMAIN rows = 1 .. Len(rows) /\ last \in n .. Len(rows) /\ n \in Nat /\ Len(rows) \in Nat
      BY <1>0
    <3> QED BY <3>1, <3>2
  <2>3. rows[n + j].status = "done"
    BY <1>4, <2>2
  <2> QED BY <2>1, <2>2, <2>3 DEF ToolResult
<1> HIDE DEF both
<1>7. LaunchesFit(L, ctx.sequence, both)
  <2>1. ctx.sequence <= ctx.sequence /\ DOMAIN m \subseteq DOMAIN both
    BY <1>0, <1>5
  <2> QED BY <1>0, <1>1, <2>1, LaunchesGrow
<1>8. Told(both, L)
  <2> SUFFICES ASSUME NEW i \in DOMAIN both, both[i].role = "tool_result"
               PROVE  (both[i].result = "not_executed")
                        <=> \A op \in DOMAIN L : L[op] # <<i - both[i].index, both[i].index>>
    BY DEF Told
  <2>1. CASE i \in DOMAIN m
    <3>1. both[i] = m[i]
      BY <1>5, <2>1
    <3> QED BY <1>1, <2>1, <3>1 DEF Told
  <2>2. CASE \E j \in DOMAIN rest : i = Len(m) + j
    <3> PICK j \in DOMAIN rest : i = Len(m) + j
      BY <2>2
    <3> DEFINE k == n + j
    <3>1. /\ both[i].index = k /\ both[i].result = rows[k].result /\ k \in DOMAIN rows
          /\ n < k /\ rows[k].status = "done" /\ i - both[i].index = a
      <4>1. both[i] = rest[j]
        BY <1>5
      <4>2. i - (n + j) = a
        BY <1>0, <1>2, <1>5
      <4> QED BY <1>6, <4>1, <4>2
    <3> HIDE DEF k
    <3>2. rows[k].result = "not_executed" <=> rows[k].operation_id = NoOperation
      BY <1>3, <3>1
    <3>3. rows[k].operation_id = NoOperation => \A op \in DOMAIN L : L[op] # <<a, k>>
      <4> SUFFICES ASSUME rows[k].operation_id = NoOperation, NEW op \in DOMAIN L, L[op] = <<a, k>>
                   PROVE  FALSE
        OBVIOUS
      <4>1. L[op][1] = a /\ L[op][2] = k
        OBVIOUS
      <4>2. op[2] = k /\ op[2] # 0
        BY <1>1, <4>1 DEF LaunchesFit
      <4>3. rows[k].operation_id = op
        BY <1>3, <4>1, <4>2
      <4> QED BY <4>2, <4>3 DEF NoOperation
    <3>4. rows[k].operation_id # NoOperation => \E op \in DOMAIN L : L[op] = <<a, k>>
      BY <1>3, <3>1
    <3> QED BY <3>1, <3>2, <3>3, <3>4
  <2> QED BY <1>5, <2>1, <2>2
<1>9. Paired(both, a)
  <2>1. ASSUME NEW i \in DOMAIN both, both[i].role = "assistant", i # a, NEW k \in DOMAIN both[i].calls
        PROVE  /\ i + k \in DOMAIN both /\ both[i + k].role = "tool_result" /\ both[i + k].index = k
               /\ both[i].in_context /\ both[i + k].in_context
    <3>1. i \in DOMAIN m
      BY <1>5, <1>6, <2>1
    <3>2. both[i] = m[i]
      BY <1>5, <3>1
    <3>3. /\ i + k \in DOMAIN m /\ m[i + k].role = "tool_result" /\ m[i + k].index = k
          /\ m[i].in_context /\ m[i + k].in_context
      BY <1>1, <2>1, <3>1, <3>2 DEF Paired
    <3> QED BY <1>5, <3>2, <3>3
  <2>2. ASSUME NEW i \in DOMAIN both, both[i].role = "tool_result"
        PROVE  /\ i - both[i].index \in DOMAIN both
               /\ both[i - both[i].index].role = "assistant"
               /\ both[i].index \in DOMAIN both[i - both[i].index].calls
    <3>1. CASE i \in DOMAIN m
      <4>1. both[i] = m[i]
        BY <1>5, <3>1
      <4>2. /\ i - m[i].index \in DOMAIN m /\ m[i - m[i].index].role = "assistant"
            /\ m[i].index \in DOMAIN m[i - m[i].index].calls
        BY <1>1, <2>2, <3>1, <4>1 DEF Paired
      <4> QED BY <1>5, <4>1, <4>2
    <3>2. CASE \E j \in DOMAIN rest : i = Len(m) + j
      <4> PICK j \in DOMAIN rest : i = Len(m) + j
        BY <3>2
      <4>0. both[i] = rest[j] /\ rest[j].index = n + j /\ n + j \in DOMAIN rows
        BY <1>5, <1>6
      <4>1. both[i].index = n + j /\ n + j \in DOMAIN rows /\ i - (n + j) = a
        <5>1. a \in Nat /\ n \in Nat /\ j \in Int /\ i = (a + n) + j
          BY <1>0, <1>2, <1>5
        <5>2. i - (n + j) = a
          BY <5>1
        <5> QED BY <4>0, <5>2
      <4>2. n + j \in DOMAIN m[a].calls
        <5>1. m[a] \in MessageRows
          BY <1>0, <1>2, <1>5, ElementOfSeq
        <5>2. m[a].calls \in Seq(Calls)
          BY <1>2, <5>1 DEF MessageRows
        <5>3. DOMAIN m[a].calls = 1 .. Len(m[a].calls)
          BY <5>2, LenProperties
        <5> QED BY <1>0, <1>2, <4>0, <5>3
      <4>3. a \in DOMAIN both /\ both[a] = m[a] /\ m[a].role = "assistant"
        BY <1>2, <1>5
      <4>4. i - both[i].index = a /\ both[i].index \in DOMAIN m[a].calls
        BY <4>1, <4>2
      <4> QED BY <4>3, <4>4
    <3> QED BY <1>5, <3>1, <3>2
  <2> QED BY <2>1, <2>2 DEF Paired
<1>10. Serving(f.s, both, new, L)
  <2>1. /\ a \in DOMAIN both /\ both[a] = m[a]
        /\ Len(new) = Len(both[a].calls) /\ last \in 0 .. Len(new) /\ Len(both) = a + last
    BY <1>0, <1>2, <1>4, <1>5
  <2>2. ASSUME NEW k \in 1 .. last
        PROVE  both[a + k].role = "tool_result" /\ both[a + k].index = k /\ new[k].status = "done"
    <3>1. CASE k \in 1 .. n
      <4>1. DOMAIN m = 1 .. a + n /\ DOMAIN rows = 1 .. Len(rows) /\ n \in 0 .. Len(rows)
        BY <1>0, <1>2, <1>5
      <4>2. a + k \in DOMAIN m /\ k \in DOMAIN rows
        BY <1>0, <3>1, <4>1
      <4>3. both[a + k] = m[a + k] /\ new[k].status = rows[k].status
        BY <1>4, <1>5, <4>2
      <4> QED BY <1>2, <3>1, <4>3
    <3>2. CASE k \in n + 1 .. last
      <4> DEFINE j == k - n
      <4>1. j \in DOMAIN rest /\ k = n + j /\ a + k = Len(m) + j
        BY <1>0, <1>2, <1>4, <1>5, <3>2
      <4> HIDE DEF j
      <4>2. /\ rest[j].role = "tool_result" /\ rest[j].index = k
            /\ k \in DOMAIN rows /\ rows[k].status = "done"
        BY <1>6, <4>1
      <4>3. both[a + k] = rest[j] /\ new[k].status = rows[k].status
        BY <1>4, <1>5, <4>1, <4>2
      <4> QED BY <4>2, <4>3
    <3> QED BY <1>0, <1>4, <3>1, <3>2
  <2>3. ASSUME NEW i \in DOMAIN new
        PROVE  /\ RowTells(new[i])
               /\ last < i /\ new[i].status = "done" =>
                    (new[i].result = "not_executed" <=> new[i].operation_id = NoOperation)
               /\ new[i].operation_id # NoOperation =>
                    new[i].operation_id \in DOMAIN L /\ L[new[i].operation_id] = <<a, i>>
    <3>1. i \in DOMAIN rows /\ (last < i => n < i)
      BY <1>0, <1>4
    <3>2. /\ new[i].status = rows[i].status /\ new[i].operation_id = rows[i].operation_id
          /\ last < i => new[i] = rows[i]
      BY <1>4, <3>1
    <3> QED BY <1>3, <3>1, <3>2 DEF RowTells
  <2>4. \A op \in DOMAIN L : L[op][1] = a => op[2] \in DOMAIN new /\ new[op[2]].operation_id = op
    <3> SUFFICES ASSUME NEW op \in DOMAIN L, L[op][1] = a
                 PROVE  op[2] \in DOMAIN new /\ new[op[2]].operation_id = op
      OBVIOUS
    <3>1. op[2] \in DOMAIN rows /\ rows[op[2]].operation_id = op
      BY <1>3
    <3> QED BY <1>4, <3>1
  <2>5. Lane(new, both[a].calls)
    <3>1. /\ \A i \in DOMAIN rows : /\ new[i].status = rows[i].status
                                     /\ new[i].operation_id = rows[i].operation_id
          /\ DOMAIN new = DOMAIN rows /\ both[a].calls = m[a].calls
      BY <1>4, <2>1
    <3> HIDE DEF new
    <3> QED BY <1>2, <3>1 DEF Lane
  <2> HIDE DEF new
  <2> QED BY <1>2, <1>4, <2>1, <2>2, <2>3, <2>4, <2>5 DEF Serving
<1>11. Steered(both, ctx.pending, rec, ctx.sequence)
  <2>1. \A j \in DOMAIN rest : rest[j].role # "user"
    BY <1>6
  <2> QED BY <1>0, <1>1, <2>1, SteeredJoined DEF both
<1>12. Working(f, L, rec)
  BY <1>1, <1>4, <1>7, <1>8, <1>9, <1>10, <1>11 DEF Working, both
<1>13. ActiveOperations(new) = ActiveOperations(rows)
  <2>1. {i \in DOMAIN new : new[i].status = "active"} = {i \in DOMAIN rows : rows[i].status = "active"}
    BY <1>4
  <2>2. \A i \in DOMAIN rows : new[i].operation_id = rows[i].operation_id
    BY <1>4
  <2> HIDE DEF new
  <2> QED BY <2>1, <2>2 DEF ActiveOperations
<1>14. f.s.next_tool_index = Len(new) => ActiveOperations(new) = {}
  <2> SUFFICES ASSUME last = Len(new) PROVE ActiveOperations(new) = {}
    BY <1>4
  <2>1. \A i \in DOMAIN new : new[i].status = "done"
    <3>1. \A k \in 1 .. f.s.next_tool_index : new[k].status = "done"
      BY <1>10 DEF Serving
    <3> QED BY <1>0, <1>4, <3>1
  <2> QED BY <2>1 DEF ActiveOperations
<1> QED
  BY <1>4, <1>12, <1>13, <1>14 DEF f, rows, a

\* A batch that was flushed to its end leaves a paired log.
LEMMA FlushedToTheEnd ==
  ASSUME NEW ctx, NEW L, NEW rec, Working(ctx, L, rec), ctx.s.next_tool_index = Len(ctx.batch)
  PROVE  Paired(ctx.messages, 0)
<1> DEFINE a == ctx.s.active_assistant_sequence
           n == ctx.s.next_tool_index
           m == ctx.messages
<1>1. /\ Paired(m, a) /\ a \in DOMAIN m /\ m[a].role = "assistant" /\ m[a].in_context
      /\ n = Len(m[a].calls) /\ Len(m) = a + n
      /\ \A k \in 1 .. n : m[a + k].role = "tool_result" /\ m[a + k].index = k
  BY DEF Working, Serving
<1>2. m \in Seq(MessageRows) /\ DOMAIN m = 1 .. Len(m) /\ Len(m) \in Nat /\ a \in Nat /\ n \in Nat
  <2>1. ctx \in Contexts
    BY DEF Working
  <2>2. ctx.s \in HarnessStates /\ m \in Seq(MessageRows)
    BY <2>1, ContextFields
  <2> QED BY <2>2, LenProperties DEF HarnessStates
<1> HIDE DEF m, n, a
<1>3. \A i \in DOMAIN m : m[i] \in MessageRows
  BY <1>2, ElementOfSeq
<1>4. DOMAIN m[a].calls = 1 .. n
  <2>1. m[a].calls \in Seq(Calls)
    BY <1>1, <1>3 DEF MessageRows
  <2> QED BY <1>1, <2>1, LenProperties
<1>5. \A k \in 1 .. n : a + k \in DOMAIN m /\ m[a + k].in_context
  <2> SUFFICES ASSUME NEW k \in 1 .. n PROVE a + k \in DOMAIN m /\ m[a + k].in_context
    OBVIOUS
  <2>1. a + k \in DOMAIN m
    <3>1. DOMAIN m = 1 .. a + n
      BY <1>1, <1>2
    <3> QED BY <1>2, <3>1
  <2>2. m[a + k] \in MessageRows /\ m[a + k].role = "tool_result"
    BY <1>1, <1>3, <2>1
  <2> QED BY <2>1, <2>2 DEF MessageRows
<1>6. Paired(m, 0)
  <2>1. \A k \in DOMAIN m[a].calls :
          /\ a + k \in DOMAIN m /\ m[a + k].role = "tool_result" /\ m[a + k].index = k
          /\ m[a].in_context /\ m[a + k].in_context
    BY <1>1, <1>4, <1>5
  <2>2. ASSUME NEW i \in DOMAIN m, m[i].role = "assistant", NEW k \in DOMAIN m[i].calls
        PROVE  /\ i + k \in DOMAIN m /\ m[i + k].role = "tool_result" /\ m[i + k].index = k
               /\ m[i].in_context /\ m[i + k].in_context
    <3>1. CASE i = a
      BY <2>1, <2>2, <3>1
    <3>2. CASE i # a
      BY <1>1, <2>2, <3>2 DEF Paired
    <3> QED BY <3>1, <3>2
  <2> QED BY <1>1, <2>2 DEF Paired
<1> QED
  BY <1>6 DEF m

\* advanceTools: calls start, results are flushed, and the turn ends with its batch.
LEMMA AdvanceHolds ==
  ASSUME NEW ctx, NEW rec, Working(ctx, launched, rec), ctx.operations = {},
         ctx.sequence \notin {op[1] : op \in DOMAIN launched}
  PROVE  PlanHolds(AdvanceTools(ctx), ActiveOperations(ctx.batch), rec)
<1> DEFINE d == Dispatched(ctx)
           f == Flushed(d)
           L == LaunchedBy(d)
           out == ActiveOperations(ctx.batch)
           cleared == [f EXCEPT !.batch = <<>>]
<1>1. /\ Working(d, L, rec) /\ ActiveOperations(d.batch) = out \cup d.operations
      /\ \A op \in d.operations : op[2] # 0
  BY DispatchHolds
<1>2. ctx \in Contexts /\ d.s = ctx.s
  BY DispatchFields DEF Working
<1> HIDE DEF d, L
<1>3. /\ Working(f, L, rec) /\ ActiveOperations(f.batch) = out \cup d.operations
      /\ f.operations = d.operations
      /\ f.s.active_assistant_sequence = d.s.active_assistant_sequence
      /\ f.s.last_error = d.s.last_error
      /\ f.s.next_tool_index = Len(f.batch) => ActiveOperations(f.batch) = {}
  BY <1>1, FlushHolds
<1>4. AdvanceTools(ctx) = IF f.s.next_tool_index # Len(f.batch)
                          THEN f
                          ELSE IF ctx.s.last_error # NoError
                               THEN Fail(cleared, ctx.s.last_error)
                               ELSE FinishTurn(cleared, TRUE)
  BY DEF AdvanceTools, d
<1> HIDE DEF f, out
<1>5. f \in Contexts /\ ctx.s.last_error \in Nat
  <2>1. f \in Contexts
    BY <1>3 DEF Working
  <2>2. ctx.s \in HarnessStates
    BY <1>2, ContextFields
  <2> QED BY <2>1, <2>2 DEF HarnessStates
<1>6. CASE f.s.next_tool_index # Len(f.batch)
  <2>1. LaunchedBy(f) = L
    BY <1>3 DEF LaunchedBy, L
  <2>2. PhaseFits(f.s, f.messages, f.batch, out \cup f.operations, L) /\ StatusFits(f.s, f.status)
    BY <1>3 DEF PhaseFits, StatusFits, Working
  <2>3. PlanHolds(f, out, rec)
    BY <1>3, <1>5, <2>1, <2>2, ContextFields DEF PlanHolds, Holds, Working
  <2> QED BY <1>4, <1>6, <2>3 DEF out
<1>7. CASE f.s.next_tool_index = Len(f.batch)
  <2>1. out = {} /\ f.operations = {}
    BY <1>3, <1>7
  <2>2. L = launched
    <3>1. \A o \in d.operations : o[2] = 0
      BY <1>3, <2>1
    <3>2. LaunchesFit(launched, ctx.sequence, ctx.messages)
      BY DEF Working
    <3> QED BY <3>1, <3>2, NothingLaunched DEF L
  <2>3. Paired(f.messages, 0)
    BY <1>3, <1>7, FlushedToTheEnd
  <2>4. /\ cleared \in Contexts /\ cleared.batch = <<>> /\ cleared.messages = f.messages
        /\ cleared.pending = f.pending /\ cleared.operations = f.operations
        /\ cleared.status = f.status /\ cleared.sequence = f.sequence /\ cleared.s = f.s
    BY <1>5, EmptySeq DEF Contexts
  <2> HIDE DEF cleared
  <2>5. Between(cleared, rec)
    BY <1>3, <2>1, <2>2, <2>3, <2>4 DEF Between, Working
  <2>6. cleared.status = IF cleared.s.cancel_requested THEN "cancelling" ELSE "running"
    BY <1>3, <2>4 DEF Working
  <2>7. PlanHolds(Fail(cleared, ctx.s.last_error), {}, rec) /\ PlanHolds(FinishTurn(cleared, TRUE), {}, rec)
    BY <1>5, <2>5, <2>6, FailHolds, FinishHolds
  <2> QED BY <1>4, <1>7, <2>1, <2>7 DEF out
<1> QED
  BY <1>6, <1>7 DEF out

-----------------------------------------------------------------------------
(* The inputs                                                              *)

\* The state as handle reads it has its type.
LEMMA ReadFields ==
  ASSUME HarnessInv
  PROVE  /\ Read \in Contexts /\ Read.s = s /\ Read.messages = messages /\ Read.pending = pending
         /\ Read.batch = batch /\ Read.operations = {} /\ Read.status = status
         /\ Read.sequence = sequence + 1 /\ sequence \in Nat /\ sequence + 1 # 0
         /\ LaunchesFit(launched, sequence + 1, messages)
         /\ sequence + 1 \notin {op[1] : op \in DOMAIN launched}
         /\ Steered(messages, pending, received, sequence + 1)
<1>1. /\ s \in HarnessStates /\ messages \in Seq(MessageRows) /\ pending \in Seq(Nat)
      /\ batch \in Seq(BatchRows) /\ status \in HostStatuses /\ sequence \in Nat
      /\ LaunchesFit(launched, sequence, messages)
      /\ Steered(messages, pending, received, sequence)
  BY DEF HarnessInv, Holds
<1>2. sequence + 1 \in Nat /\ sequence + 1 # 0 /\ sequence <= sequence + 1
  BY <1>1
<1>3. Read \in Contexts
  BY <1>1, <1>2 DEF Read, Contexts
<1>4. LaunchesFit(launched, sequence + 1, messages)
  BY <1>1, <1>2, LaunchesGrow
<1>5. sequence + 1 \notin {op[1] : op \in DOMAIN launched}
  <2>1. \A op \in DOMAIN launched : op[1] \in 1 .. sequence
    BY <1>1 DEF LaunchesFit
  <2>2. sequence + 1 \notin 1 .. sequence
    BY <1>1
  <2> QED BY <2>1, <2>2
<1>6. Steered(messages, pending, received, sequence + 1)
  <2>1. 1 .. sequence \subseteq 1 .. sequence + 1
    BY <1>1
  <2> QED BY <1>1, <2>1 DEF Steered
<1> QED
  BY <1>1, <1>2, <1>3, <1>4, <1>5, <1>6 DEF Read

\* Outside a batch a handler begins between two requests.
LEMMA ReadBetween ==
  ASSUME HarnessInv, s.phase # "tools"
  PROVE  Between(Read, received)
<1>1. Told(messages, launched) /\ Paired(messages, 0) /\ batch = <<>>
  BY DEF HarnessInv, Holds, PhaseFits
<1> QED
  BY <1>1, ReadFields DEF Between

\* Nothing is out while the session waits for a message or a resume.
LEMMA NothingOut ==
  ASSUME HarnessInv, s.phase \notin {"llm", "tools"}
  PROVE  open = {}
BY DEF HarnessInv, Holds, PhaseFits

\* apply: what a plan holds is what the committed state holds.
LEMMA ApplyStep ==
  ASSUME NEW plan, NEW completed, Apply(plan, completed),
         PlanHolds(plan, open \ completed, received')
  PROVE  HarnessInv'
<1>1. /\ s' = plan.s /\ messages' = plan.messages /\ pending' = plan.pending
      /\ batch' = plan.batch /\ status' = plan.status /\ sequence' = plan.sequence
      /\ open' = (open \ completed) \cup plan.operations
      /\ launched' = LaunchedBy(plan)
  BY DEF Apply, LaunchedBy
<1> QED
  BY <1>1 DEF HarnessInv, PlanHolds

\* StartRun: a run begins, in a context like the one before.
LEMMA StartRunHolds ==
  ASSUME NEW ctx, NEW rec, Between(ctx, rec)
  PROVE  /\ Between(StartRun(ctx), rec) /\ StartRun(ctx).status = "running"
         /\ StartRun(ctx).s.cancel_requested = FALSE /\ StartRun(ctx).messages = ctx.messages
         /\ StartRun(ctx).pending = ctx.pending /\ StartRun(ctx).sequence = ctx.sequence
<1> DEFINE st == [ctx.s EXCEPT !.run_id = ctx.sequence, !.last_error = NoError,
                               !.cancel_requested = FALSE]
           c == StartRun(ctx)
<1>0. ctx \in Contexts /\ ctx.s \in HarnessStates /\ ctx.sequence \in Nat
  BY ContextFields DEF Between
<1>1. st \in HarnessStates /\ st.cancel_requested = FALSE
  BY <1>0 DEF HarnessStates, NoError
<1>2. c = [ctx EXCEPT !.status = "running", !.s = st]
  BY DEF StartRun
<1>3. "running" \in HostStatuses
  BY DEF HostStatuses
<1> HIDE DEF st, c
<1>4. /\ c \in Contexts /\ c.s = st /\ c.status = "running" /\ c.messages = ctx.messages
      /\ c.pending = ctx.pending /\ c.batch = ctx.batch /\ c.operations = ctx.operations
      /\ c.sequence = ctx.sequence
  BY <1>0, <1>1, <1>2, <1>3 DEF Contexts
<1>5. Between(c, rec)
  BY <1>4 DEF Between
<1> QED
  BY <1>1, <1>4, <1>5 DEF c

\* A message that starts a run: the first of the new ones.
LEMMA NewMessage ==
  ASSUME NEW m \in Seq(MessageRows), NEW rec, NEW seq \in Nat, NEW L,
         Steered(m, <<>>, rec, seq), Told(m, L), Paired(m, 0), LaunchesFit(L, seq + 1, m)
  PROVE  /\ Append(m, UserMessage(seq + 1)) \in Seq(MessageRows)
         /\ Steered(Append(m, UserMessage(seq + 1)), <<>>, rec \cup {seq + 1}, seq + 1)
         /\ Told(Append(m, UserMessage(seq + 1)), L) /\ Paired(Append(m, UserMessage(seq + 1)), 0)
         /\ LaunchesFit(L, seq + 1, Append(m, UserMessage(seq + 1)))
<1> DEFINE p == <<seq + 1>>
           both == m \o Promoted(p)
<1>1. p \in Seq(Nat) /\ Len(p) = 1 /\ DOMAIN p = {1} /\ p[1] = seq + 1
  OBVIOUS
<1>2. Steered(m, p, rec \cup {seq + 1}, seq + 1)
  <2> DEFINE users == {i \in DOMAIN m : m[i].role = "user"}
  <2>1. /\ {m[i].event : i \in users} = rec /\ rec \subseteq 1 .. seq
        /\ \A i, j \in users : i < j => m[i].event < m[j].event
    <3>1. {<<>>[i] : i \in DOMAIN <<>>} = {}
      OBVIOUS
    <3> QED BY <3>1 DEF Steered
  <2>2. {p[i] : i \in DOMAIN p} = {seq + 1}
    BY <1>1
  <2>3. \A i \in users : m[i].event < seq + 1
    <3>1. \A e \in rec : e < seq + 1
      BY <2>1
    <3> QED BY <2>1, <3>1
  <2>4. rec \cup {seq + 1} \subseteq 1 .. seq + 1
    BY <2>1
  <2> HIDE DEF p
  <2> QED BY <1>1, <2>1, <2>2, <2>3, <2>4 DEF Steered
<1> HIDE DEF p
<1>3. /\ Promoted(p) \in Seq(MessageRows) /\ DOMAIN Promoted(p) = {1}
      /\ \A j \in DOMAIN Promoted(p) : Promoted(p)[j].role = "user"
      /\ Steered(both, <<>>, rec \cup {seq + 1}, seq + 1)
  BY <1>1, <1>2, SteeredPromoted
<1>4. both = Append(m, UserMessage(seq + 1))
  <2>1. UserMessage(seq + 1) \in MessageRows
    <3>1. seq + 1 \in Nat
      OBVIOUS
    <3>2. UserMessage(seq + 1) \in [role : {"user"}, event : Nat, in_context : {TRUE}]
      BY <3>1 DEF UserMessage
    <3> QED BY <3>2 DEF MessageRows
  <2>2. Promoted(p) = <<UserMessage(seq + 1)>>
    <3> DEFINE u == UserMessage(seq + 1)
    <3>1. Promoted(p)[1] = u
      BY <1>1 DEF Promoted
    <3>2. Len(Promoted(p)) = 1
      <4>1. DOMAIN Promoted(p) = 1 .. Len(Promoted(p)) /\ Len(Promoted(p)) \in Nat
        BY <1>3, LenProperties
      <4> QED BY <1>3, <4>1
    <3> HIDE DEF u
    <3>3. <<u>> \in Seq(MessageRows) /\ Len(<<u>>) = 1 /\ <<u>>[1] = u
      BY <2>1 DEF u
    <3>4. \A i \in 1 .. Len(Promoted(p)) : Promoted(p)[i] = <<u>>[i]
      BY <3>1, <3>2, <3>3
    <3> QED BY <1>3, <3>2, <3>3, <3>4, SeqEqual DEF u
  <2> QED BY <2>1, <2>2, AppendIsConcat
<1>5. both \in Seq(MessageRows) /\ DOMAIN m \subseteq DOMAIN both
  BY <1>3, Joined
<1>6. Told(both, L) /\ Paired(both, 0)
  BY <1>3, UsersJoined
<1>7. LaunchesFit(L, seq + 1, both)
  <2>1. seq + 1 \in Nat /\ seq + 1 <= seq + 1
    OBVIOUS
  <2> HIDE DEF both
  <2> QED BY <1>5, <2>1, LaunchesGrow
<1> HIDE DEF both
<1> QED
  BY <1>3, <1>4, <1>5, <1>6, <1>7

\* A later message waits behind the others.
LEMMA LaterMessage ==
  ASSUME NEW m, NEW p \in Seq(Nat), NEW rec, NEW seq \in Nat, Steered(m, p, rec, seq)
  PROVE  /\ Append(p, seq + 1) \in Seq(Nat)
         /\ Steered(m, Append(p, seq + 1), rec \cup {seq + 1}, seq + 1)
<1> DEFINE q == Append(p, seq + 1)
           users == {i \in DOMAIN m : m[i].role = "user"}
<1>1. /\ q \in Seq(Nat) /\ Len(q) = Len(p) + 1 /\ q[Len(p) + 1] = seq + 1
      /\ \A i \in 1 .. Len(p) : q[i] = p[i]
  BY AppendProperties
<1>2. /\ Len(p) \in Nat /\ DOMAIN p = 1 .. Len(p) /\ DOMAIN q = 1 .. Len(p) + 1
  BY <1>1, LenProperties
<1> HIDE DEF q
<1>3. /\ {m[i].event : i \in users} \cup {p[i] : i \in DOMAIN p} = rec /\ rec \subseteq 1 .. seq
      /\ \A i, j \in users : i < j => m[i].event < m[j].event
      /\ \A i, j \in DOMAIN p : i < j => p[i] < p[j]
      /\ \A i \in users, j \in DOMAIN p : m[i].event < p[j]
  BY DEF Steered
<1>4. \A e \in rec : e < seq + 1
  BY <1>3
<1>5. /\ \A i \in users : m[i].event < seq + 1
      /\ \A i \in DOMAIN p : p[i] < seq + 1
  <2> HIDE DEF users
  <2> QED BY <1>3, <1>4
<1>6. \A i \in DOMAIN q : i \in DOMAIN p \/ i = Len(p) + 1
  BY <1>2
<1>7. {q[i] : i \in DOMAIN q} = {p[i] : i \in DOMAIN p} \cup {seq + 1}
  <2>1. \A i \in DOMAIN p : i \in DOMAIN q /\ q[i] = p[i]
    BY <1>1, <1>2
  <2>2. Len(p) + 1 \in DOMAIN q
    BY <1>2
  <2> QED BY <1>1, <1>6, <2>1, <2>2
<1>8. \A i, j \in DOMAIN q : i < j => q[i] < q[j]
  <2> SUFFICES ASSUME NEW i \in DOMAIN q, NEW j \in DOMAIN q, i < j PROVE q[i] < q[j]
    OBVIOUS
  <2>1. i \in DOMAIN p /\ q[i] = p[i]
    BY <1>1, <1>2
  <2>2. CASE j \in DOMAIN p
    BY <1>1, <1>2, <1>3, <2>1, <2>2
  <2>3. CASE j = Len(p) + 1
    BY <1>1, <1>5, <2>1, <2>3
  <2> QED BY <1>6, <2>2, <2>3
<1>9. \A i \in users, j \in DOMAIN q : m[i].event < q[j]
  <2> SUFFICES ASSUME NEW i \in users, NEW j \in DOMAIN q PROVE m[i].event < q[j]
    OBVIOUS
  <2>1. CASE j \in DOMAIN p
    BY <1>1, <1>2, <1>3, <2>1
  <2>2. CASE j = Len(p) + 1
    BY <1>1, <1>5, <2>2
  <2> QED BY <1>6, <2>1, <2>2
<1>10. rec \cup {seq + 1} \subseteq 1 .. seq + 1
  BY <1>3
<1>11. {m[i].event : i \in users} \cup {q[i] : i \in DOMAIN q} = rec \cup {seq + 1}
  BY <1>3, <1>7
<1>12. Steered(m, q, rec \cup {seq + 1}, seq + 1)
  BY <1>3, <1>8, <1>9, <1>10, <1>11 DEF Steered
<1> QED
  BY <1>1, <1>12 DEF q

\* A plan that changes nothing but the number of inputs, what is asked of the run and
\* the messages that wait.
LEMMA QuietPlan ==
  ASSUME HarnessInv, NEW plan \in Contexts, NEW rec,
         plan.messages = messages, plan.batch = batch, plan.operations = {},
         plan.sequence = sequence + 1, plan.s.phase = s.phase,
         plan.s.active_operation_id = s.active_operation_id,
         plan.s.active_assistant_sequence = s.active_assistant_sequence,
         plan.s.next_tool_index = s.next_tool_index,
         StatusFits(plan.s, plan.status), Steered(messages, plan.pending, rec, sequence + 1),
         s.phase = "idle" => plan.pending = <<>>
  PROVE  PlanHolds(plan, open, rec)
<1>1. LaunchedBy(plan) = launched
  BY ReadFields, NothingLaunched
<1>2. PhaseFits(plan.s, plan.messages, plan.batch, open \cup plan.operations, launched)
  <2>1. PhaseFits(s, messages, batch, open, launched)
    BY DEF HarnessInv, Holds
  <2>2. Serving(s, messages, batch, launched) => Serving(plan.s, messages, batch, launched)
    BY DEF Serving
  <2>3. open \cup plan.operations = open
    OBVIOUS
  <2> QED BY <2>1, <2>2, <2>3 DEF PhaseFits
<1>3. LaunchesFit(launched, plan.sequence, plan.messages)
  BY ReadFields
<1>4. Told(plan.messages, launched) /\ Paired(plan.messages, plan.s.active_assistant_sequence)
  BY DEF HarnessInv, Holds
<1> QED
  BY <1>1, <1>2, <1>3, <1>4, ContextFields DEF PlanHolds, Holds

\* An input that is read and has no effect.
LEMMA ReadHolds ==
  ASSUME HarnessInv
  PROVE  PlanHolds(Read, open, received)
<1>1. StatusFits(s, status) /\ (s.phase = "idle" => pending = <<>>)
  BY DEF HarnessInv, Holds
<1> QED
  BY <1>1, ReadFields, QuietPlan

\* onMessage.
LEMMA MessageStep ==
  ASSUME HarnessInv, HandleMessage
  PROVE  HarnessInv'
<1> DEFINE rec == received \cup {sequence + 1}
<1>0. received' = rec /\ open \ {} = open
  BY DEF HandleMessage
<1>1. CASE s.phase = "idle"
  <2> DEFINE c == StartRun(Read)
             m == Append(messages, UserMessage(sequence + 1))
             plan == [c EXCEPT !.messages = m]
  <2>1. Apply(RequestLlm([StartRun(Read) EXCEPT
                 !.messages = Append(@, UserMessage(sequence + 1))]), {})
    BY <1>1 DEF HandleMessage
  <2>2. /\ Between(c, received) /\ c.status = "running" /\ c.s.cancel_requested = FALSE
        /\ c.messages = messages /\ c.pending = pending /\ c.sequence = sequence + 1
    BY <1>1, ReadBetween, ReadFields, StartRunHolds
  <2>3. pending = <<>> /\ open = {} /\ sequence \in Nat /\ messages \in Seq(MessageRows)
        /\ Told(messages, launched) /\ Paired(messages, 0)
        /\ Steered(messages, <<>>, received, sequence)
    BY <1>1, NothingOut DEF HarnessInv, Holds, PhaseFits
  <2>4. /\ m \in Seq(MessageRows) /\ Steered(m, <<>>, rec, sequence + 1)
        /\ Told(m, launched) /\ Paired(m, 0) /\ LaunchesFit(launched, sequence + 1, m)
    BY <2>3, ReadFields, NewMessage
  <2> HIDE DEF m, c
  <2>5. plan = [c EXCEPT !.messages = Append(@, UserMessage(sequence + 1))]
    <3>1. c \in Contexts
      BY <2>2 DEF Between
    <3> QED BY <2>2, <3>1 DEF m, Contexts
  <2> HIDE DEF plan
  <2>6. /\ plan \in Contexts /\ plan.messages = m /\ plan.s = c.s /\ plan.pending = <<>>
        /\ plan.batch = c.batch /\ plan.operations = c.operations /\ plan.status = c.status
        /\ plan.sequence = sequence + 1
    <3>1. c \in Contexts
      BY <2>2 DEF Between
    <3> QED BY <2>2, <2>3, <2>4, <3>1 DEF Contexts, plan
  <2>7. Between(plan, rec)
    BY <2>2, <2>4, <2>6 DEF Between
  <2>8. PlanHolds(RequestLlm(plan), {}, rec)
    BY <2>2, <2>6, <2>7, RequestHolds
  <2>9. Apply(RequestLlm(plan), {}) /\ open \ {} = {}
    BY <2>1, <2>3, <2>5 DEF c
  <2> HIDE DEF rec
  <2> QED BY <1>0, <2>8, <2>9, ApplyStep
<1>2. CASE s.phase # "idle"
  <2> DEFINE p == Append(pending, sequence + 1)
             plan == [Read EXCEPT !.pending = p]
  <2>1. Apply([Read EXCEPT !.pending = Append(@, sequence + 1)], {})
    BY <1>2 DEF HandleMessage
  <2>2. [Read EXCEPT !.pending = Append(@, sequence + 1)] = plan
    BY ReadFields DEF Contexts
  <2>3. p \in Seq(Nat) /\ Steered(messages, p, rec, sequence + 1)
    BY LaterMessage DEF HarnessInv, Holds
  <2> HIDE DEF p
  <2>4. /\ plan \in Contexts /\ plan.messages = messages /\ plan.s = s /\ plan.pending = p
        /\ plan.batch = batch /\ plan.operations = {} /\ plan.status = status
        /\ plan.sequence = sequence + 1
    BY <2>3, ReadFields DEF Contexts
  <2> HIDE DEF plan
  <2>5. StatusFits(plan.s, plan.status)
    BY <2>4 DEF HarnessInv, Holds
  <2> HIDE DEF rec
  <2>6. PlanHolds(plan, open, rec)
    BY <1>2, <2>3, <2>4, <2>5, QuietPlan
  <2> QED BY <1>0, <2>1, <2>2, <2>6, ApplyStep
<1> QED
  BY <1>1, <1>2

\* onCancel.
LEMMA CancelStep ==
  ASSUME HarnessInv, NEW run_id, HandleCancel(run_id)
  PROVE  HarnessInv'
<1>0. received' = received /\ open \ {} = open
  BY DEF HandleCancel
<1>1. CASE run_id = s.run_id /\ s.phase \in {"llm", "tools"} /\ ~s.cancel_requested
  <2> DEFINE st == [s EXCEPT !.cancel_requested = TRUE]
             plan == [Read EXCEPT !.status = "cancelling", !.s.cancel_requested = TRUE]
  <2>1. Apply(plan, {})
    BY <1>1 DEF HandleCancel
  <2>2. /\ st \in HarnessStates /\ st.cancel_requested = TRUE /\ st.phase = s.phase
        /\ st.active_operation_id = s.active_operation_id
        /\ st.active_assistant_sequence = s.active_assistant_sequence
        /\ st.next_tool_index = s.next_tool_index
    BY DEF HarnessInv, Holds, HarnessStates
  <2>3. plan = [Read EXCEPT !.status = "cancelling", !.s = st]
    BY ReadFields DEF Contexts
  <2> HIDE DEF st, plan
  <2>4. "cancelling" \in HostStatuses
    BY DEF HostStatuses
  <2>5. /\ plan \in Contexts /\ plan.messages = messages /\ plan.s = st /\ plan.pending = pending
        /\ plan.batch = batch /\ plan.operations = {} /\ plan.status = "cancelling"
        /\ plan.sequence = sequence + 1
    BY <2>2, <2>3, <2>4, ReadFields DEF Contexts
  <2>6. StatusFits(plan.s, plan.status)
    BY <1>1, <2>2, <2>5 DEF StatusFits
  <2>7. Steered(messages, plan.pending, received, sequence + 1) /\ s.phase # "idle"
    BY <1>1, <2>5, ReadFields
  <2>8. PlanHolds(plan, open, received)
    BY <2>2, <2>5, <2>6, <2>7, QuietPlan
  <2> QED BY <1>0, <2>1, <2>8, ApplyStep
<1>2. CASE ~(run_id = s.run_id /\ s.phase \in {"llm", "tools"} /\ ~s.cancel_requested)
  <2>1. Apply(Read, {})
    BY <1>2 DEF HandleCancel
  <2> QED BY <1>0, <2>1, ReadHolds, ApplyStep
<1> QED
  BY <1>1, <1>2

\* onResume.
LEMMA ResumeStep ==
  ASSUME HarnessInv, HandleResume
  PROVE  HarnessInv'
<1>0. received' = received /\ open \ {} = open
  BY DEF HandleResume
<1>1. CASE s.phase \in {"cancelled", "failed"}
  <2>1. Apply(RequestLlm(PromoteSteering(StartRun(Read))), {})
    BY <1>1 DEF HandleResume
  <2>2. /\ Between(StartRun(Read), received) /\ StartRun(Read).status = "running"
        /\ StartRun(Read).s.cancel_requested = FALSE
    BY <1>1, ReadBetween, StartRunHolds
  <2>3. PlanHolds(RequestLlm(PromoteSteering(StartRun(Read))), {}, received)
    BY <2>2, PromoteHolds, RequestHolds
  <2>4. open = {}
    BY <1>1, NothingOut
  <2> QED BY <1>0, <2>1, <2>3, <2>4, ApplyStep
<1>2. CASE s.phase \notin {"cancelled", "failed"}
  <2>1. Apply(Read, {})
    BY <1>2 DEF HandleResume
  <2> QED BY <1>0, <2>1, ReadHolds, ApplyStep
<1> QED
  BY <1>1, <1>2

\* The log longer is the log m with a response added: its results are still to come.
Answered(longer, m, L, p, rec, seq, row) ==
  /\ longer \in Seq(MessageRows) /\ Len(longer) = Len(m) + 1
  /\ Len(m) + 1 \in DOMAIN longer /\ longer[Len(m) + 1] = row
  /\ LaunchesFit(L, seq, longer) /\ Told(longer, L) /\ Paired(longer, Len(m) + 1)
  /\ Steered(longer, p, rec, seq)
  /\ \A op \in DOMAIN L : L[op][1] # Len(m) + 1
  /\ row.calls = <<>> => Paired(longer, 0)

\* A response enters the log: nothing was launched for it yet.
LEMMA ResponseJoined ==
  ASSUME NEW m \in Seq(MessageRows), NEW L, NEW p, NEW rec, NEW seq \in Nat,
         LaunchesFit(L, seq, m), Told(m, L), Paired(m, 0), Steered(m, p, rec, seq),
         NEW calls \in Seq(Calls), NEW in_context \in BOOLEAN,
         NEW row, row = AssistantMessage(calls, in_context), NEW longer, longer = Append(m, row)
  PROVE  Answered(longer, m, L, p, rec, seq, row)
<1> DEFINE a == Len(m) + 1
<1>1. row \in MessageRows /\ row.role = "assistant" /\ row.calls = calls
  BY DEF AssistantMessage, MessageRows
<1>2. /\ longer \in Seq(MessageRows) /\ Len(longer) = a /\ longer[a] = row
      /\ \A i \in 1 .. Len(m) : longer[i] = m[i]
  BY <1>1, AppendProperties
<1>3. Len(m) \in Nat /\ DOMAIN m = 1 .. Len(m) /\ DOMAIN longer = 1 .. a
  BY <1>2, LenProperties
<1>4. /\ \A i \in DOMAIN m : i \in DOMAIN longer /\ longer[i] = m[i] /\ i # a
      /\ \A i \in DOMAIN longer : i \in DOMAIN m \/ i = a
      /\ a \in DOMAIN longer /\ a \notin DOMAIN m
  BY <1>2, <1>3
<1> HIDE DEF a
<1>5. LaunchesFit(L, seq, longer)
  <2>1. seq <= seq /\ DOMAIN m \subseteq DOMAIN longer
    BY <1>4
  <2> QED BY <2>1, LaunchesGrow
<1>6. Told(longer, L)
  BY <1>1, <1>2, <1>4 DEF Told
<1>7. Paired(longer, a)
  <2>1. ASSUME NEW i \in DOMAIN longer, longer[i].role = "assistant", i # a,
               NEW k \in DOMAIN longer[i].calls
        PROVE  /\ i + k \in DOMAIN longer /\ longer[i + k].role = "tool_result"
               /\ longer[i + k].index = k /\ longer[i].in_context /\ longer[i + k].in_context
    <3>1. i \in DOMAIN m /\ longer[i] = m[i] /\ i # 0
      BY <1>3, <1>4, <2>1
    <3>2. /\ i + k \in DOMAIN m /\ m[i + k].role = "tool_result" /\ m[i + k].index = k
          /\ m[i].in_context /\ m[i + k].in_context
      BY <2>1, <3>1 DEF Paired
    <3> QED BY <1>4, <3>1, <3>2
  <2>2. ASSUME NEW i \in DOMAIN longer, longer[i].role = "tool_result"
        PROVE  /\ i - longer[i].index \in DOMAIN longer
               /\ longer[i - longer[i].index].role = "assistant"
               /\ longer[i].index \in DOMAIN longer[i - longer[i].index].calls
    <3>1. i \in DOMAIN m /\ longer[i] = m[i]
      BY <1>1, <1>2, <1>4, <2>2
    <3>2. /\ i - m[i].index \in DOMAIN m /\ m[i - m[i].index].role = "assistant"
          /\ m[i].index \in DOMAIN m[i - m[i].index].calls
      BY <2>2, <3>1 DEF Paired
    <3> QED BY <1>4, <3>1, <3>2
  <2> QED BY <2>1, <2>2 DEF Paired
<1>8. Steered(longer, p, rec, seq)
  <2>1. <<row>> \in Seq(MessageRows) /\ DOMAIN <<row>> = {1} /\ <<row>>[1] = row
    BY <1>1
  <2>2. longer = m \o <<row>>
    BY <1>1, AppendIsConcat
  <2>3. \A j \in DOMAIN <<row>> : <<row>>[j].role # "user"
    BY <1>1, <2>1
  <2> QED BY <2>1, <2>2, <2>3, SteeredJoined
<1>9. \A op \in DOMAIN L : L[op][1] # a
  BY <1>4 DEF LaunchesFit
<1>10. calls = <<>> => Paired(longer, 0)
  <2> SUFFICES ASSUME calls = <<>> PROVE Paired(longer, 0)
    OBVIOUS
  <2>1. DOMAIN longer[a].calls = {}
    BY <1>1, <1>2
  <2> QED BY <1>7, <2>1 DEF Paired
<1> QED
  BY <1>1, <1>2, <1>4, <1>5, <1>6, <1>7, <1>8, <1>9, <1>10 DEF a, Answered

\* onLlmCompleted: the response is stored, and its batch begins or the turn ends.
LEMMA LlmHolds ==
  ASSUME HarnessInv, s.phase = "llm", NEW outcome \in LlmOutcomes
  PROVE  PlanHolds(CompleteLlm(Read, outcome), {}, received)
<1> DEFINE row == AssistantMessage(outcome.calls, outcome.kind = "succeeded")
           m == Append(messages, row)
           a == Len(messages) + 1
           st == [s EXCEPT !.active_operation_id = NoOperation]
           kept == [Read EXCEPT !.messages = Append(@, row), !.s.active_operation_id = NoOperation]
<1>1. /\ outcome.kind \in {"failed", "excluded", "succeeded"} /\ outcome.calls \in Seq(Calls)
      /\ outcome.kind # "succeeded" => outcome.calls = <<>>
  <2>1. <<>> \in Seq(Calls) /\ \A calls \in Batches : calls \in Seq(Calls)
    BY PiAssumption, EmptySeq
  <2> QED BY <2>1 DEF LlmOutcomes
<1>2. /\ Between(Read, received) /\ sequence + 1 \in Nat
      /\ Told(messages, launched) /\ Paired(messages, 0) /\ batch = <<>>
      /\ s \in HarnessStates /\ messages \in Seq(MessageRows) /\ StatusFits(s, status)
  BY ReadBetween, ReadFields DEF HarnessInv, Holds, PhaseFits
<1>3. /\ m \in Seq(MessageRows) /\ Len(m) = a /\ a \in DOMAIN m /\ m[a] = row
      /\ LaunchesFit(launched, sequence + 1, m) /\ Told(m, launched) /\ Paired(m, a)
      /\ Steered(m, pending, received, sequence + 1)
      /\ \A op \in DOMAIN launched : launched[op][1] # a
      /\ outcome.calls = <<>> => Paired(m, 0)
  <2> DEFINE calls == outcome.calls
             in_context == outcome.kind = "succeeded"
             seq == sequence + 1
  <2>1. in_context \in BOOLEAN /\ calls \in Seq(Calls)
    BY <1>1
  <2>2. LaunchesFit(launched, seq, messages) /\ Steered(messages, pending, received, seq)
    BY ReadFields
  <2>3. row = AssistantMessage(calls, in_context) /\ m = Append(messages, row)
    OBVIOUS
  <2>4. /\ messages \in Seq(MessageRows) /\ seq \in Nat
        /\ Told(messages, launched) /\ Paired(messages, 0)
    BY <1>2
  <2> HIDE DEF row, m, calls, in_context, seq
  <2>5. Answered(m, messages, launched, pending, received, seq, row)
    BY <2>1, <2>2, <2>3, <2>4, ResponseJoined
  <2>6. row.calls = outcome.calls
    BY DEF row, AssistantMessage
  <2> QED BY <2>5, <2>6 DEF Answered, seq
<1>4. /\ row.role = "assistant" /\ row.calls = outcome.calls
      /\ row.in_context <=> outcome.kind = "succeeded"
  BY DEF AssistantMessage
<1>5. NoOperation \in Operations
  BY DEF NoOperation, Operations
<1>6. /\ st \in HarnessStates /\ st.active_operation_id = NoOperation /\ st.phase = s.phase
      /\ st.cancel_requested = s.cancel_requested /\ st.last_error = s.last_error
      /\ st.run_id = s.run_id
  BY <1>2, <1>5 DEF HarnessStates
<1> HIDE DEF row, m, st
<1>7. kept = [Read EXCEPT !.messages = m, !.s = st]
  BY ReadFields DEF Contexts, m, st
<1> HIDE DEF kept
<1>8. /\ kept \in Contexts /\ kept.messages = m /\ kept.s = st /\ kept.pending = pending
      /\ kept.batch = <<>> /\ kept.operations = {} /\ kept.status = status
      /\ kept.sequence = sequence + 1
  BY <1>2, <1>3, <1>6, <1>7, ReadFields DEF Contexts
<1>9. Read.sequence \in Nat /\ Read.sequence = sequence + 1
  BY <1>2, ReadFields
<1>10. CASE outcome.kind = "failed"
  <2>1. CompleteLlm(Read, outcome) = Fail(Read, Read.sequence)
    BY <1>10 DEF CompleteLlm
  <2> QED BY <1>2, <1>9, <2>1, FailHolds
<1>11. outcome.calls = <<>> => Between(kept, received)
  BY <1>2, <1>3, <1>8, ReadFields DEF Between
<1>12. CASE outcome.kind = "excluded"
  <2>1. CompleteLlm(Read, outcome) = Fail(kept, Read.sequence)
    BY <1>12 DEF CompleteLlm, kept, row
  <2> QED BY <1>1, <1>9, <1>11, <1>12, <2>1, FailHolds
<1>13. kept.status = IF kept.s.cancel_requested THEN "cancelling" ELSE "running"
  BY <1>2, <1>6, <1>8 DEF StatusFits
<1>14. CASE outcome.kind = "succeeded" /\ outcome.calls = <<>>
  <2>1. CompleteLlm(Read, outcome) = FinishTurn(kept, FALSE)
    BY <1>14 DEF CompleteLlm, kept, row
  <2>2. Between(kept, received) /\ FALSE \in BOOLEAN
    BY <1>11, <1>14
  <2> QED BY <1>13, <2>1, <2>2, FinishHolds
<1>15. CASE outcome.kind = "succeeded" /\ outcome.calls # <<>>
  <2> DEFINE fresh == [status |-> "queued", operation_id |-> NoOperation, result |-> NoResult]
             rows == [i \in DOMAIN outcome.calls |-> fresh]
             new == [st EXCEPT !.phase = "tools", !.next_tool_index = 0,
                               !.active_assistant_sequence = a]
             ctx == [kept EXCEPT
                      !.s = [@ EXCEPT !.phase = "tools", !.next_tool_index = 0,
                                      !.active_assistant_sequence = Len(kept.messages)],
                      !.batch = rows]
  <2>1. CompleteLlm(Read, outcome) = AdvanceTools(ctx)
    BY <1>15 DEF CompleteLlm, kept, row
  <2>2. /\ fresh \in BatchRows /\ fresh.status = "queued" /\ fresh.operation_id = NoOperation
    BY <1>5 DEF BatchRows
  <2> HIDE DEF fresh
  <2>3. Len(outcome.calls) \in Nat /\ DOMAIN outcome.calls = 1 .. Len(outcome.calls)
    BY <1>1, LenProperties
  <2>4. rows \in Seq(BatchRows) /\ Len(rows) = Len(outcome.calls) /\ DOMAIN rows = DOMAIN outcome.calls
    <3>1. rows \in [1 .. Len(outcome.calls) -> BatchRows]
      BY <2>2, <2>3
    <3> HIDE DEF rows
    <3> QED BY <2>3, <3>1, FunctionIsSeq
  <2>5. \A i \in DOMAIN rows : rows[i] = fresh
    OBVIOUS
  <2> HIDE DEF rows
  <2>6. a \in Nat /\ a = Len(kept.messages)
    <3>1. Len(messages) \in Nat
      BY <1>2, LenProperties
    <3> QED BY <1>3, <1>8, <3>1
  <2>7. /\ new \in HarnessStates /\ new.phase = "tools" /\ new.next_tool_index = 0
        /\ new.active_assistant_sequence = a /\ new.active_operation_id = NoOperation
        /\ new.cancel_requested = s.cancel_requested
    BY <1>6, <2>6 DEF HarnessStates
  <2>8. ctx = [kept EXCEPT !.s = new, !.batch = rows]
    BY <1>8, <2>6 DEF Contexts
  <2> HIDE DEF new, ctx, a
  <2>9. /\ ctx \in Contexts /\ ctx.s = new /\ ctx.batch = rows /\ ctx.messages = m
        /\ ctx.pending = pending /\ ctx.operations = {} /\ ctx.status = status
        /\ ctx.sequence = sequence + 1
    BY <1>8, <2>4, <2>7, <2>8 DEF Contexts
  <2>10. Serving(new, m, rows, launched)
    <3>1. \A i \in DOMAIN rows :
            /\ RowTells(rows[i]) /\ rows[i].status # "done" /\ rows[i].operation_id = NoOperation
      BY <2>2, <2>5 DEF RowTells
    <3>2. /\ m[a].role = "assistant" /\ m[a].in_context /\ Len(rows) = Len(m[a].calls)
          /\ 0 \in 0 .. Len(rows) /\ Len(m) = a + 0 /\ 1 .. 0 = {}
      BY <1>3, <1>4, <1>15, <2>3, <2>4, <2>6
    <3>3. Lane(rows, m[a].calls)
      BY <3>1 DEF Lane
    <3> QED BY <1>3, <2>7, <3>1, <3>2, <3>3 DEF Serving
  <2>11. status = IF s.cancel_requested THEN "cancelling" ELSE "running"
    BY <1>2 DEF StatusFits
  <2>12. Working(ctx, launched, received)
    BY <1>3, <2>7, <2>9, <2>10, <2>11, ReadFields DEF Working
  <2>13. ActiveOperations(rows) = {}
    BY <2>2, <2>5 DEF ActiveOperations
  <2>14. ctx.sequence \notin {op[1] : op \in DOMAIN launched}
    BY <2>9, ReadFields
  <2>15. PlanHolds(AdvanceTools(ctx), ActiveOperations(ctx.batch), received)
    BY <2>9, <2>12, <2>14, AdvanceHolds
  <2> QED BY <2>1, <2>9, <2>13, <2>15
<1> QED
  BY <1>1, <1>10, <1>12, <1>14, <1>15

\* onToolCompleted: the row that waits for the operation takes its result.
LEMMA ToolHolds ==
  ASSUME HarnessInv, NEW operation \in open, operation[2] # 0, NEW outcome \in ToolOutcomes
  PROVE  /\ s.phase = "tools"
         /\ PlanHolds(CompleteTool(Read, operation, outcome), open \ {operation}, received)
<1>1. /\ s \in HarnessStates /\ batch \in Seq(BatchRows) /\ sequence \in Nat
      /\ LaunchesFit(launched, sequence, messages) /\ Told(messages, launched)
      /\ Paired(messages, s.active_assistant_sequence)
      /\ PhaseFits(s, messages, batch, open, launched) /\ StatusFits(s, status)
  BY DEF HarnessInv, Holds
<1>2. /\ s.phase = "tools" /\ Serving(s, messages, batch, launched)
      /\ s.active_operation_id = NoOperation /\ open = ActiveOperations(batch)
  <2>1. s.phase \in {"llm", "tools"}
    BY <1>1 DEF PhaseFits
  <2>2. s.phase # "llm"
    BY <1>1 DEF PhaseFits
  <2> QED BY <1>1, <2>1, <2>2 DEF PhaseFits
<1>3. PICK i \in DOMAIN batch : batch[i].status = "active" /\ batch[i].operation_id = operation
  BY <1>2 DEF ActiveOperations
<1> DEFINE a == s.active_assistant_sequence
           n == s.next_tool_index
           calls == messages[a].calls
<1>4. /\ a \in DOMAIN messages /\ messages[a].role = "assistant" /\ messages[a].in_context
      /\ Len(batch) = Len(calls) /\ n \in 0 .. Len(batch) /\ Len(messages) = a + n
      /\ \A k \in 1 .. n : /\ messages[a + k].role = "tool_result" /\ messages[a + k].index = k
                           /\ batch[k].status = "done"
      /\ Lane(batch, calls)
  BY <1>2 DEF Serving
<1>5. /\ \A j \in DOMAIN batch :
           /\ RowTells(batch[j])
           /\ n < j /\ batch[j].status = "done" =>
                (batch[j].result = "not_executed" <=> batch[j].operation_id = NoOperation)
           /\ batch[j].operation_id # NoOperation =>
                /\ batch[j].operation_id \in DOMAIN launched
                /\ launched[batch[j].operation_id] = <<a, j>>
      /\ \A op \in DOMAIN launched : launched[op][1] = a =>
           op[2] \in DOMAIN batch /\ batch[op[2]].operation_id = op
  BY <1>2 DEF Serving
<1> HIDE DEF a, n, calls
<1>6. operation # NoOperation
  BY <1>3, <1>5 DEF RowTells
<1>7. \A j \in DOMAIN batch : batch[j].operation_id = operation => j = i
  <2> SUFFICES ASSUME NEW j \in DOMAIN batch, batch[j].operation_id = operation PROVE j = i
    OBVIOUS
  <2>1. launched[operation] = <<a, j>> /\ launched[operation] = <<a, i>>
    BY <1>3, <1>5, <1>6
  <2>2. <<a, j>> = <<a, i>>
    BY <2>1
  <2> QED BY <2>2
<1> DEFINE result == IF outcome = "unusable" THEN "unknown" ELSE "ran"
           row == [batch[i] EXCEPT !.status = "done", !.result = result]
           rows == [batch EXCEPT ![i] = row]
           error == IF outcome # "answered" /\ s.last_error = NoError
                    THEN sequence + 1 ELSE s.last_error
           st == [s EXCEPT !.last_error = error]
           ctx == [Read EXCEPT !.batch = rows, !.s.last_error = error]
<1>8. {j \in DOMAIN batch : batch[j].operation_id = operation /\ batch[j].status = "active"} = {i}
  BY <1>3, <1>7
<1>9. CompleteTool(Read, operation, outcome) = AdvanceTools(ctx)
  <2>1. /\ Read.batch = batch /\ Read.s = s /\ Read.sequence = sequence + 1
    BY ReadFields
  <2>2. [j \in DOMAIN batch |-> IF j \in {i}
                                THEN [batch[j] EXCEPT !.status = "done", !.result = result]
                                ELSE batch[j]] = rows
    <3> DEFINE f == [j \in DOMAIN batch |->
                      IF j \in {i} THEN [batch[j] EXCEPT !.status = "done", !.result = result]
                                   ELSE batch[j]]
    <3>1. DOMAIN f = DOMAIN rows
      OBVIOUS
    <3>2. \A j \in DOMAIN batch : f[j] = rows[j]
      OBVIOUS
    <3>3. f = [j \in DOMAIN batch |-> f[j]] /\ rows = [j \in DOMAIN batch |-> rows[j]]
      OBVIOUS
    <3> HIDE DEF f, rows
    <3>4. f = rows
      BY <3>2, <3>3
    <3> QED BY <3>4 DEF f
  <2>3. {i} # {}
    OBVIOUS
  <2> HIDE DEF rows, result
  <2> QED BY <1>8, <2>1, <2>2, <2>3 DEF CompleteTool, result
<1>10. batch[i] \in BatchRows /\ i \in 1 .. Len(batch) /\ DOMAIN batch = 1 .. Len(batch)
       /\ Len(batch) \in Nat
  BY <1>1, <1>3, LenProperties, ElementOfSeq
<1>11. /\ row \in BatchRows /\ row.status = "done" /\ row.result # "not_executed"
       /\ row.operation_id = operation
  <2>1. result \in {"ran", "unknown"}
    OBVIOUS
  <2> HIDE DEF result
  <2> QED BY <1>3, <1>10, <2>1 DEF BatchRows
<1> HIDE DEF row, result
<1>12. /\ rows \in Seq(BatchRows) /\ Len(rows) = Len(batch) /\ DOMAIN rows = DOMAIN batch
       /\ rows[i] = row /\ \A j \in DOMAIN batch : j # i => rows[j] = batch[j]
  <2>1. /\ rows \in Seq(BatchRows) /\ Len(rows) = Len(batch)
        /\ \A j \in 1 .. Len(batch) : rows[j] = IF j = i THEN row ELSE batch[j]
    BY <1>1, <1>10, <1>11, ExceptSeq
  <2>2. DOMAIN rows = 1 .. Len(rows)
    BY <2>1, LenProperties
  <2> HIDE DEF rows
  <2> QED BY <1>10, <2>1, <2>2
<1> HIDE DEF rows
<1>13. error \in Nat
  BY <1>1 DEF HarnessStates
<1> HIDE DEF error
<1>14. /\ st \in HarnessStates /\ st.phase = s.phase /\ st.next_tool_index = n
       /\ st.active_operation_id = s.active_operation_id
       /\ st.active_assistant_sequence = a /\ st.cancel_requested = s.cancel_requested
  BY <1>1, <1>13 DEF HarnessStates, n, a
<1>15. ctx = [Read EXCEPT !.batch = rows, !.s = st]
  BY ReadFields DEF Contexts
<1> HIDE DEF st, ctx
<1>16. /\ ctx \in Contexts /\ ctx.s = st /\ ctx.batch = rows /\ ctx.messages = messages
       /\ ctx.pending = pending /\ ctx.operations = {} /\ ctx.status = status
       /\ ctx.sequence = sequence + 1
  BY <1>12, <1>14, <1>15, ReadFields DEF Contexts
<1>17. n < i
  <2>1. i \notin 1 .. n
    BY <1>3, <1>4
  <2>2. n \in Nat /\ i \in Nat \ {0}
    BY <1>4, <1>10
  <2> QED BY <2>1, <2>2
<1>18. Serving(st, messages, rows, launched)
  <2>1. \A k \in 1 .. n : rows[k].status = "done"
    <3> SUFFICES ASSUME NEW k \in 1 .. n PROVE rows[k].status = "done"
      OBVIOUS
    <3>1. k \in DOMAIN batch
      BY <1>4, <1>10
    <3> QED BY <1>4, <1>11, <1>12, <3>1
  <2>2. ASSUME NEW j \in DOMAIN rows
        PROVE  /\ RowTells(rows[j])
               /\ n < j /\ rows[j].status = "done" =>
                    (rows[j].result = "not_executed" <=> rows[j].operation_id = NoOperation)
               /\ rows[j].operation_id # NoOperation =>
                    /\ rows[j].operation_id \in DOMAIN launched
                    /\ launched[rows[j].operation_id] = <<a, j>>
    <3>1. CASE j = i
      BY <1>3, <1>5, <1>6, <1>11, <1>12, <3>1 DEF RowTells
    <3>2. CASE j # i
      BY <1>5, <1>12, <3>2
    <3> QED BY <3>1, <3>2
  <2>3. ASSUME NEW op \in DOMAIN launched, launched[op][1] = a
        PROVE  op[2] \in DOMAIN rows /\ rows[op[2]].operation_id = op
    <3>1. op[2] \in DOMAIN batch /\ batch[op[2]].operation_id = op
      BY <1>5, <2>3
    <3>2. rows[op[2]].operation_id = batch[op[2]].operation_id
      BY <1>3, <1>11, <1>12, <3>1
    <3> QED BY <1>12, <3>1, <3>2
  <2>4. Lane(rows, calls)
    <3> SUFFICES ASSUME NEW k \in DOMAIN batch, NEW j \in DOMAIN batch, k < j, calls[k].mutation,
                        calls[j].mutation, rows[j].operation_id # NoOperation
                 PROVE  rows[k].status = "done"
      BY <1>12 DEF Lane
    <3>1. rows[j].operation_id = batch[j].operation_id
      BY <1>3, <1>11, <1>12
    <3>2. batch[k].status = "done"
      BY <1>4, <3>1 DEF Lane
    <3> QED BY <1>11, <1>12, <3>2
  <2> QED BY <1>4, <1>12, <1>14, <2>1, <2>2, <2>3, <2>4 DEF Serving, calls
<1>19. status = IF s.cancel_requested THEN "cancelling" ELSE "running"
  BY <1>1, <1>2 DEF StatusFits
<1>20. Working(ctx, launched, received)
  BY <1>1, <1>2, <1>14, <1>16, <1>18, <1>19, ReadFields DEF Working, a
<1>21. ActiveOperations(rows) = open \ {operation}
  <2>1. {j \in DOMAIN rows : rows[j].status = "active"} = {j \in DOMAIN batch : batch[j].status = "active"} \ {i}
    BY <1>11, <1>12
  <2>2. \A j \in DOMAIN batch \ {i} : rows[j].operation_id = batch[j].operation_id /\ batch[j].operation_id # operation
    BY <1>7, <1>12
  <2> QED BY <1>2, <1>3, <2>1, <2>2 DEF ActiveOperations
<1>22. ctx.sequence \notin {op[1] : op \in DOMAIN launched}
  BY <1>16, ReadFields
<1>23. PlanHolds(AdvanceTools(ctx), ActiveOperations(ctx.batch), received)
  BY <1>16, <1>20, <1>22, AdvanceHolds
<1> QED
  BY <1>2, <1>9, <1>16, <1>21, <1>23

\* An operation that is out is the request of the phase "llm", or one of the batch.
LEMMA OpenKinds ==
  ASSUME HarnessInv, NEW operation \in open, operation[2] = 0
  PROVE  s.phase = "llm" /\ operation = s.active_operation_id /\ open = {operation}
<1>1. PhaseFits(s, messages, batch, open, launched) /\ LaunchesFit(launched, sequence, messages)
  BY DEF HarnessInv, Holds
<1>2. s.phase # "tools"
  <2> SUFFICES ASSUME s.phase = "tools" PROVE FALSE
    OBVIOUS
  <2>1. Serving(s, messages, batch, launched) /\ open = ActiveOperations(batch)
    BY <1>1 DEF PhaseFits
  <2>2. PICK i \in DOMAIN batch : batch[i].status = "active" /\ batch[i].operation_id = operation
    BY <2>1 DEF ActiveOperations
  <2>3. operation \in DOMAIN launched
    BY <2>1, <2>2 DEF Serving, RowTells
  <2> QED BY <1>1, <2>3 DEF LaunchesFit
<1> QED
  BY <1>1, <1>2 DEF PhaseFits

\* The completions of operations.
LEMMA CompletionStep ==
  ASSUME HarnessInv, Completes
  PROVE  HarnessInv'
<1>1. PICK operation \in open :
        \/ \E outcome \in LlmOutcomes  : HandleLlmCompleted(operation, outcome)
        \/ \E outcome \in ToolOutcomes : HandleToolCompleted(operation, outcome)
  BY DEF Completes
<1>2. ASSUME NEW outcome \in LlmOutcomes, HandleLlmCompleted(operation, outcome)
      PROVE  HarnessInv'
  <2>1. s.phase = "llm" /\ operation = s.active_operation_id /\ open = {operation}
    BY <1>2, OpenKinds DEF HandleLlmCompleted
  <2>2. Apply(CompleteLlm(Read, outcome), {operation}) /\ received' = received
    BY <1>2, <2>1 DEF HandleLlmCompleted
  <2>3. open \ {operation} = {}
    BY <2>1
  <2>4. PlanHolds(CompleteLlm(Read, outcome), open \ {operation}, received')
    BY <2>1, <2>2, <2>3, LlmHolds
  <2> QED BY <2>2, <2>4, ApplyStep
<1>3. ASSUME NEW outcome \in ToolOutcomes, HandleToolCompleted(operation, outcome)
      PROVE  HarnessInv'
  <2>1. operation[2] # 0
    BY <1>3 DEF HandleToolCompleted
  <2>2. /\ s.phase = "tools"
        /\ PlanHolds(CompleteTool(Read, operation, outcome), open \ {operation}, received)
    BY <2>1, ToolHolds
  <2>3. Apply(CompleteTool(Read, operation, outcome), {operation}) /\ received' = received
    BY <1>3, <2>2 DEF HandleToolCompleted
  <2> QED BY <2>2, <2>3, ApplyStep
<1> QED
  BY <1>1, <1>2, <1>3

-----------------------------------------------------------------------------
(* Theorems                                                                *)

\* The invariant holds in every state.
LEMMA HarnessAlways == Spec => []HarnessInv
<1>1. Init => HarnessInv
  <2> SUFFICES ASSUME Init PROVE HarnessInv
    OBVIOUS
  <2>1. /\ messages = <<>> /\ pending = <<>> /\ batch = <<>> /\ launched = <<>> /\ open = {}
        /\ received = {} /\ sequence = 0 /\ status = "idle"
        /\ s.phase = "idle" /\ s.active_operation_id = NoOperation
        /\ s.active_assistant_sequence = 0 /\ s.cancel_requested = FALSE
    BY DEF Init
  <2>2. s \in HarnessStates /\ status \in HostStatuses
    BY DEF Init, HarnessStates, HostStatuses, Operations, NoOperation, NoError
  <2>3. /\ messages \in Seq(MessageRows) /\ pending \in Seq(Nat) /\ batch \in Seq(BatchRows)
        /\ DOMAIN messages = {} /\ DOMAIN pending = {} /\ DOMAIN launched = {}
    BY <2>1, EmptySeq
  <2>4. LaunchesFit(launched, sequence, messages)
    <3>1. launched \in [DOMAIN launched -> Operations]
      BY <2>1, <2>3
    <3> QED BY <2>3, <3>1 DEF LaunchesFit
  <2>5. Told(messages, launched) /\ Paired(messages, s.active_assistant_sequence)
    BY <2>3 DEF Told, Paired
  <2>6. PhaseFits(s, messages, batch, open, launched) /\ StatusFits(s, status)
    BY <2>1 DEF PhaseFits, StatusFits
  <2>7. Steered(messages, pending, received, sequence)
    BY <2>1, <2>3 DEF Steered
  <2> QED BY <2>1, <2>2, <2>3, <2>4, <2>5, <2>6, <2>7 DEF HarnessInv, Holds
<1>2. HarnessInv /\ [Next]_vars => HarnessInv'
  <2> SUFFICES ASSUME HarnessInv, [Next]_vars PROVE HarnessInv'
    OBVIOUS
  <2>1. CASE HandleMessage
    BY <2>1, MessageStep
  <2>2. CASE \E run_id \in 1 .. sequence : HandleCancel(run_id)
    BY <2>2, CancelStep
  <2>3. CASE HandleResume
    BY <2>3, ResumeStep
  <2>4. CASE Completes
    BY <2>4, CompletionStep
  <2>5. CASE UNCHANGED vars
    BY <2>5 DEF vars, HarnessInv
  <2> QED BY <2>1, <2>2, <2>3, <2>4, <2>5 DEF Next
<1> QED
  BY <1>1, <1>2, PTL DEF Spec

\* Whatever the order of completions, failures, cancellations and steering, every call
\* of the log has its one result in place before the model is asked again, and every
\* user message is kept once, in order (advanceTools, finishTurn, promoteSteering).
THEOREM TranscriptsAreCoherent == Spec => []TranscriptCoherent
<1>1. HarnessInv => TranscriptCoherent
  <2> SUFFICES ASSUME HarnessInv PROVE TranscriptCoherent
    OBVIOUS
  <2>1. s.phase # "tools" => Paired(messages, 0)
    BY DEF HarnessInv, Holds, PhaseFits
  <2>2. messages \in Seq(MessageRows)
    BY DEF HarnessInv, Holds
  <2>3. \A i \in DOMAIN messages : i # 0
    BY <2>2, LenProperties
  <2>4. ContextCoherent
    BY <2>1, <2>3 DEF ContextCoherent, Coherent, Paired
  <2>5. Steered(messages, pending, received, sequence) /\ (s.phase = "idle" => pending = <<>>)
    BY DEF HarnessInv, Holds
  <2>6. SteeringOnce
    BY <2>5 DEF Steered, SteeringOnce, UserRows
  <2> QED BY <2>4, <2>6 DEF TranscriptCoherent
<1> QED BY <1>1, HarnessAlways, PTL

\* The harness waits for exactly the operations that are out, and the mutations of a
\* turn start one at a time, in the order of the calls (completeTool, advanceTools).
THEOREM CallsStayInOrder == Spec => []CallsInOrder
<1>1. HarnessInv => CallsInOrder
  <2> SUFFICES ASSUME HarnessInv PROVE CallsInOrder
    OBVIOUS
  <2>1. PhaseFits(s, messages, batch, open, launched)
    BY DEF HarnessInv, Holds
  <2>2. NoOrphan
    <3>1. {batch[i].operation_id : i \in {j \in DOMAIN batch : batch[j].status = "active"}} = ActiveOperations(batch)
      BY DEF ActiveOperations
    <3>2. batch = <<>> => ActiveOperations(batch) = {}
      BY DEF ActiveOperations
    <3>3. CASE s.phase = "tools"
      BY <2>1, <3>1, <3>3 DEF PhaseFits, NoOrphan
    <3>4. CASE s.phase = "llm"
      BY <2>1, <3>1, <3>2, <3>4 DEF PhaseFits, NoOrphan
    <3>5. CASE s.phase \notin {"llm", "tools"}
      BY <2>1, <3>1, <3>2, <3>5 DEF PhaseFits, NoOrphan
    <3> QED BY <3>3, <3>4, <3>5
  <2>3. MutationsInOrder
    <3> SUFFICES ASSUME s.phase = "tools" PROVE MutationsInOrder
      BY DEF MutationsInOrder
    <3>1. Lane(batch, messages[s.active_assistant_sequence].calls)
      BY <2>1 DEF PhaseFits, Serving
    <3> QED BY <3>1 DEF Lane, MutationsInOrder
  <2> QED BY <2>2, <2>3 DEF CallsInOrder
<1> QED BY <1>1, HarnessAlways, PTL

\* A call runs at most once, is reported as not executed exactly if it did not run, and
\* the host was last told the status that the state stands for.
THEOREM ResultsStayTrue == Spec => []ResultsAreTrue
<1>1. HarnessInv => ResultsAreTrue
  BY DEF HarnessInv, Holds, LaunchesFit, Told, StatusFits, ResultsAreTrue
<1> QED BY <1>1, HarnessAlways, PTL

=============================================================================
