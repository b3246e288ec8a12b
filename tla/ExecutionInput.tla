---------------------------- MODULE ExecutionInput ----------------------------
(***************************************************************************)
(* The input side of one execution (native/session.rs: write, enqueue,     *)
(* close_input, write_input; native/runtime.rs: interrupt_execution).      *)
(*                                                                         *)
(* Callers put inputs into a bounded queue under an ID of their own; one   *)
(* task writes them to the process.  The execution is stopped, exits or    *)
(* closes its end at any moment.  The process is external.                 *)
(***************************************************************************)
EXTENDS Integers, FiniteSets, Sequences, SequencesExt

CONSTANTS
  InputIds,       \* input and interrupt IDs of the callers
  Data,           \* what an input may hold
  SizeOf(_),      \* its size; an input may be empty
  Terminal,       \* whether the execution has a terminal
  QueueBytes,     \* limits.max_queued_input_bytes
  MaxReceipts,    \* limits.max_input_receipts
  MaxInterrupts   \* limits.max_interrupt_receipts

NoInputReceipt == -1

\* What the constants are.
InputAssumption ==
  /\ \A data \in Data : SizeOf(data) \in Nat
  /\ NoInputReceipt \notin Data
  /\ Terminal \in BOOLEAN
  /\ {QueueBytes, MaxReceipts, MaxInterrupts} \subseteq Nat

VARIABLES
  state,         \* execution.state once it is launched
  rootExited,    \* root_exited
  stdin,         \* the state of standard input
  tx,            \* input_tx is there
  queue,         \* the channel to the writer
  held,          \* permits of input_capacity in use
  writer,        \* the task write_input
  writing,       \* what it has taken from the queue
  inputReceipts, \* input_receipts
  interrupted,   \* interrupt_receipts
  signals,       \* interrupts the process was sent, by operation ID
  inputError,    \* execution.input_error is set
  accepted,      \* history: inputs put into the queue, in order
  delivered,     \* what the process received
  eof            \* the process was given the end of its input

execution == <<state, rootExited>>
channel   == <<queue, held>>
task      == <<writer, writing, delivered, eof>>
interrupts == <<interrupted, signals>>
inputVars == <<execution, stdin, tx, channel, task, inputReceipts, interrupts, inputError, accepted>>

-----------------------------------------------------------------------------
(* Values *)

Close     == [id |-> "close"]
Nothing   == <<>>
IsClose(item) == item = Close
Input(id, data) == [id |-> id, data |-> data]

Bytes(item) == IF IsClose(item) THEN 0 ELSE SizeOf(item.data)

Total(items) == SumFunction([i \in DOMAIN items |-> Bytes(items[i])])

InputReceipts == {id \in InputIds : inputReceipts[id] # NoInputReceipt}

RoomForReceipt == Cardinality(InputReceipts) < MaxReceipts

RoomForInterrupt == Cardinality({id \in InputIds : interrupted[id]}) < MaxInterrupts

-----------------------------------------------------------------------------
(* Session::write *)

\* An empty input leaves a receipt and nothing else.
WriteEmpty(id, data) ==
  /\ inputReceipts[id] = NoInputReceipt
  /\ SizeOf(data) = 0
  /\ RoomForReceipt
  /\ inputReceipts' = [inputReceipts EXCEPT ![id] = data]
  /\ UNCHANGED <<execution, stdin, tx, channel, task, interrupts, inputError, accepted>>

\* enqueue: permits for all of the bytes, and a writer to receive them.
Enqueues(data) ==
  /\ held + SizeOf(data) <= QueueBytes
  /\ tx

\* A new input is queued.  A repeated one is answered with its receipt, changed
\* bytes, a full queue and a closed input with an error; those change nothing.
Write(id, data) ==
  /\ inputReceipts[id] = NoInputReceipt
  /\ SizeOf(data) > 0
  /\ state = "running" /\ stdin = "open"
  /\ RoomForReceipt
  /\ Enqueues(data)
  /\ queue' = Append(queue, Input(id, data))
  /\ held' = held + SizeOf(data)
  /\ inputReceipts' = [inputReceipts EXCEPT ![id] = data]
  /\ accepted' = Append(accepted, Input(id, data))
  /\ UNCHANGED <<execution, stdin, tx, task, interrupts, inputError>>

\* close_input; a terminal has no end of input.
CloseInput ==
  /\ ~Terminal
  /\ stdin = "open"
  /\ tx
  /\ queue' = Append(queue, Close)
  /\ stdin' = "closing"
  /\ UNCHANGED <<execution, tx, held, task, inputReceipts, interrupts, inputError, accepted>>

\* interrupt_execution: the first answer is kept, also one that failed.
Interrupt(id) ==
  /\ ~interrupted[id]
  /\ state = "running"
  /\ RoomForInterrupt
  /\ interrupted' = [interrupted EXCEPT ![id] = TRUE]
  /\ \E sent \in 0 .. 1 : signals' = [signals EXCEPT ![id] = @ + sent]
  /\ UNCHANGED <<execution, stdin, tx, channel, task, inputReceipts, inputError, accepted>>

-----------------------------------------------------------------------------
(* write_input *)

TakeInput ==
  /\ writer = "running"
  /\ writing = Nothing
  /\ queue # <<>>
  /\ writing' = <<Head(queue)>>
  /\ queue' = Tail(queue)
  /\ UNCHANGED <<execution, stdin, tx, held, writer, delivered, eof, inputReceipts, interrupts,
                 inputError, accepted>>

\* write_all and flush; the permit is dropped with the input.
Deliver ==
  /\ writer = "running"
  /\ writing # Nothing /\ ~IsClose(writing[1])
  /\ delivered' = Append(delivered, writing[1])
  /\ held' = held - Bytes(writing[1])
  /\ writing' = Nothing
  /\ UNCHANGED <<execution, stdin, tx, queue, writer, eof, inputReceipts, interrupts, inputError,
                 accepted>>

DeliverClose ==
  /\ writer = "running"
  /\ writing # Nothing /\ IsClose(writing[1])
  /\ eof' = TRUE
  /\ writing' = Nothing
  /\ writer' = "closed"
  /\ UNCHANGED <<execution, stdin, tx, channel, delivered, inputReceipts, interrupts, inputError,
                 accepted>>

\* The process does not take its input: the writer is about to give up.
DeliverFails ==
  /\ writer = "running"
  /\ writing # Nothing
  /\ writing' = Nothing
  /\ held' = held - Bytes(writing[1])
  /\ writer' = "failed"
  /\ UNCHANGED <<execution, stdin, tx, queue, delivered, eof, inputReceipts, interrupts, inputError,
                 accepted>>

\* Variant: a failed writer leaves no trace.
WriterEndsSilently ==
  /\ writer \in {"closed", "failed"}
  /\ writer' = "ended"
  /\ stdin' = "closed" /\ tx' = FALSE
  /\ queue' = <<>> /\ held' = 0
  /\ UNCHANGED <<execution, writing, delivered, eof, inputReceipts, interrupts, inputError, accepted>>

\* The end of write_input; the channel and what is left in it are dropped.
WriterEnds ==
  /\ writer \in {"closed", "failed"}
  /\ writer' = "ended"
  /\ stdin' = "closed" /\ tx' = FALSE
  /\ inputError' = (inputError \/ writer = "failed")
  /\ queue' = <<>> /\ held' = 0
  /\ UNCHANGED <<execution, writing, delivered, eof, inputReceipts, interrupts, accepted>>

-----------------------------------------------------------------------------
(* run *)

\* terminate
StopExecution ==
  /\ state = "running"
  /\ state' = "stopping"
  /\ UNCHANGED <<rootExited, stdin, tx, channel, task, inputReceipts, interrupts, inputError, accepted>>

\* The root exits: input is refused from here on ...
RootExits ==
  /\ ~rootExited
  /\ rootExited' = TRUE
  /\ state' = "stopping"
  /\ stdin' = "closed" /\ tx' = FALSE
  /\ UNCHANGED <<channel, task, inputReceipts, interrupts, inputError, accepted>>

\* ... and then the writer is aborted, wherever it is; finish follows.
Abort ==
  /\ rootExited
  /\ state # "finished"
  /\ state' = "finished"
  /\ writer' = "ended"
  /\ writing' = Nothing
  /\ queue' = <<>> /\ held' = 0
  /\ UNCHANGED <<rootExited, stdin, tx, delivered, eof, inputReceipts, interrupts, inputError, accepted>>

-----------------------------------------------------------------------------
(* Specification *)

InputInit ==
  /\ state = "running"
  /\ rootExited = FALSE
  /\ stdin = "open"
  /\ tx = TRUE
  /\ queue = <<>>
  /\ held = 0
  /\ writer = "running"
  /\ writing = Nothing
  /\ inputReceipts = [id \in InputIds |-> NoInputReceipt]
  /\ interrupted = [id \in InputIds |-> FALSE]
  /\ signals = [id \in InputIds |-> 0]
  /\ inputError = FALSE
  /\ accepted = <<>>
  /\ delivered = <<>>
  /\ eof = FALSE

Writer == TakeInput \/ Deliver \/ DeliverClose \/ DeliverFails \/ WriterEnds

InputNext ==
  \/ \E id \in InputIds, data \in Data : WriteEmpty(id, data) \/ Write(id, data)
  \/ \E id \in InputIds : Interrupt(id)
  \/ CloseInput
  \/ Writer
  \/ StopExecution \/ RootExits \/ Abort

InputSpec == InputInit /\ [][InputNext]_inputVars

-----------------------------------------------------------------------------
(* Properties *)

OnTheWay == writing \o queue

\* What the process receives is what was accepted, in that order and without holes;
\* while the writer runs nothing is missing, and the end of input comes after
\* everything that was accepted, nothing being accepted after it.
DeliveredInOrder ==
  /\ IsPrefix(delivered, accepted)
  /\ writer = "running" => delivered \o OnTheWay \in {accepted, Append(accepted, Close)}
  /\ eof => delivered = accepted

\* A repeated ID has one effect: a receipt for bytes means that they were put into
\* the queue, once, and an interrupt sends one signal at most.
ReceiptMeansAccepted ==
  /\ \A i, j \in DOMAIN accepted : accepted[i].id = accepted[j].id => i = j
  /\ {accepted[i] : i \in DOMAIN accepted}
       = {Input(id, inputReceipts[id]) : id \in {k \in InputReceipts : SizeOf(inputReceipts[k]) > 0}}
  /\ \A id \in InputIds : signals[id] <= 1

\* Accepted input that will never be delivered is explained by an exit or an error,
\* and the permits in use are those of the inputs on their way: none leaks on
\* delivery, on failure or on abort.
LossIsExplained ==
  /\ writer = "ended" /\ delivered # accepted => rootExited \/ inputError
  /\ held = Total(OnTheWay)

\* The process gets what the receipts say, in their order, or there is an explanation.
InputIsFaithful == DeliveredInOrder /\ ReceiptMeansAccepted /\ LossIsExplained
=============================================================================
