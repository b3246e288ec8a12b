---------------------------- MODULE MCOperations ----------------------------
(***************************************************************************)
(* The operations of a session in one run: a tool call on its way through  *)
(* worker, gateway and machine, a model call through the LLM worker, the   *)
(* output of an execution that a tool observes, and the views of files and *)
(* output that its result is cut to.  A behaviour picks a part in its      *)
(* first state and is a behaviour of that part's module, while the         *)
(* variables of the others keep an initial value.                          *)
(***************************************************************************)
EXTENDS ToolWorkers, ExecutionOutput, BoundedViews

VARIABLES
  part,
  l_request, l_attempts, l_current, l_receipt, l_admitted, l_blocked, l_job, l_webhooks,
  l_sent, l_confirmed, l_keys, l_signer, l_faults

llm == <<l_request, l_attempts, l_current, l_receipt, l_admitted, l_blocked, l_job, l_webhooks,
         l_sent, l_confirmed, l_keys, l_signer, l_faults>>
all == <<part, vars, llm, outputVars, viewVars>>

Llm == INSTANCE LlmWorker WITH
  InputLimit <- 2, OutcomeLimit <- 1, TransportLimit <- 4,
  PayloadSizes <- {0, 1, 2, 4, 5},
  MaxAttempts <- 2, MaxWebhooks <- 3, MaxFaults <- 2,
  request <- l_request, attempts <- l_attempts, current <- l_current, receipt <- l_receipt,
  admitted <- l_admitted, blocked <- l_blocked, job <- l_job, webhooks <- l_webhooks,
  sent <- l_sent, confirmed <- l_confirmed, keys <- l_keys, signer <- l_signer,
  faults <- l_faults

ASSUME PartsAssumption ==
  Llm!LlmAssumption /\ OutputAssumption /\ ViewsAssumption

OperationsInit ==
  /\ part \in {"tools", "llm", "output", "views"}
  /\ Init
  /\ part # "tools" => op = [kind |-> "bash", input |-> "plain"]
  /\ Llm!LlmInit
  /\ part # "llm" => l_request = [size |-> 1, valid |-> "yes"]
  /\ OutputInit
  /\ ViewsInit
  /\ part # "views" => file = <<0>> /\ limit = 0

OperationsNext ==
  \/ part = "tools" /\ Next
       /\ UNCHANGED <<part, llm, outputVars, viewVars>>
  \/ part = "llm" /\ Llm!LlmNext
       /\ UNCHANGED <<part, vars, outputVars, viewVars>>
  \/ part = "output" /\ OutputNext
       /\ UNCHANGED <<part, vars, llm, viewVars>>
  \/ part = "views" /\ ViewsNext
       /\ UNCHANGED <<part, vars, llm, outputVars>>

\* The fairness of each part's module, for the behaviours of the part.
OperationsFairness ==
  /\ \A a \in Attempts : WF_vars(part = "tools" /\ Proceeds(a))
  /\ WF_vars(part = "tools" /\ \E a \in Attempts : Attempt(a))
  /\ WF_vars(part = "tools" /\ Binding)
  /\ WF_vars(part = "tools" /\ Finish)
  /\ WF_vars(part = "tools" /\ Connect)
  /\ WF_vars(part = "tools" /\ RestoreRoutes)
  /\ \A d \in Deliveries : WF_vars(part = "tools" /\ Delivers(d))
  /\ \A a \in Llm!Attempts : WF_llm(part = "llm" /\ (Llm!Submit(a) \/ Llm!Detail(a) \/ Llm!Commit(a)))
  /\ WF_llm(part = "llm" /\ \E a \in Llm!Attempts : Llm!Attempt(a))
  /\ WF_llm(part = "llm" /\ Llm!EndJob)
  /\ WF_llm(part = "llm" /\ Llm!SendWebhook)
  /\ \A w \in Llm!Webhooks : WF_llm(part = "llm" /\ (Llm!Receive(w) \/ Llm!Deliver(w)))
  /\ WF_outputVars(part = "output" /\ Sweep)
  /\ WF_outputVars(part = "output" /\ DrainTimeout)
  /\ WF_outputVars(part = "output" /\ FinishOutput)
  /\ WF_outputVars(part = "output" /\ Waiter)

OperationsSpec == OperationsInit /\ [][OperationsNext]_all /\ OperationsFairness

-----------------------------------------------------------------------------
(* The properties of the modules, for the behaviours of their part.        *)

\* The webhook and the detail of a job make the same outcome of it, at every size, and
\* the gateway is told that an event has arrived only when the session has it (LlmWorker).
LlmOutcomesHold == Llm!LlmOutcomesHold

\* Every tool call and every model call gets its outcome, unless what it needs is gone,
\* and every output ends, under the fairness of the parts: see Settles in ToolWorkers,
\* LlmSettles in LlmWorker and StreamEnds in ExecutionOutput.
OperationsSettle ==
  <>[](/\ part = "tools" => Settled
       /\ part = "llm" => Llm!LlmSettled
       /\ part = "output" => StreamEnded)
=============================================================================
