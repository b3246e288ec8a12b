----------------------------- MODULE MCSession -----------------------------
(***************************************************************************)
(* A session and the directory it is created through in one run: the       *)
(* directory of the agent API with the hosts' publication of the status,   *)
(* and the runtime and driver.  A behaviour picks a part in its first      *)
(* state and is a behaviour of that part's module, while the variables of  *)
(* the other keep an initial value.                                        *)
(***************************************************************************)
EXTENDS SessionDirectory

VARIABLES
  part,
  s_session, s_inbox, s_applied, s_pending, s_alarm, s_prepared, s_receipts, s_receiptInput,
  s_admission, s_pc, s_requested, s_work, s_step, s_todo, s_flight, s_failed, s_firing,
  s_jobs, s_faults

runtime == <<s_session, s_inbox, s_applied, s_pending, s_alarm, s_prepared, s_receipts,
             s_receiptInput, s_admission, s_pc, s_requested, s_work, s_step, s_todo,
             s_flight, s_failed, s_firing, s_jobs, s_faults>>
all == <<part, vars, runtime>>

\* A harness that plans one operation for the first input and none for later ones, and an
\* undeclared operation for a poison body.
PlanOnce(past, event) ==
  CASE event.kind = "input" /\ event.body = "poison" -> {"undeclared"}
    [] event.kind = "input" /\ \A i \in DOMAIN past : past[i].kind # "input" -> {"a"}
    [] OTHER -> {}

Runtime == INSTANCE SessionRuntime WITH
  InputIds <- {"i1", "i2"}, Bodies <- {"good", "poison"}, InvalidBodies <- {}, Keys <- {"a"},
  JobIds <- {"j1"}, Outcomes <- {"ok"}, Plan <- PlanOnce, MaxHandlerFailures <- 2,
  MaxSteps <- 1, SubmissionConcurrency <- 1, MaxFaults <- 1,
  session <- s_session, inbox <- s_inbox, applied <- s_applied, pending <- s_pending,
  alarm <- s_alarm, prepared <- s_prepared, receipts <- s_receipts,
  receiptInput <- s_receiptInput, admission <- s_admission, pc <- s_pc,
  requested <- s_requested, work <- s_work, step <- s_step, todo <- s_todo,
  flight <- s_flight, failed <- s_failed, firing <- s_firing, jobs <- s_jobs,
  faults <- s_faults

ASSUME PartsAssumption == DirectoryAssumption

PartsInit ==
  /\ part \in {"session", "directory"}
  /\ Init
  /\ Runtime!Init
  /\ part # "directory" => \A c \in Clients : calls[c].content = "valid"

PartsNext ==
  \/ part = "session" /\ Runtime!Next
       /\ UNCHANGED <<part, vars>>
  \/ part = "directory" /\ Next
       /\ UNCHANGED <<part, runtime>>

\* The fairness of each part's module, for the behaviours of the part.
PartsFairness ==
  /\ Runtime!Fairness
  /\ \A c \in Clients : WF_vars(part = "directory" /\ CreateSession(c))

PartsSpec == PartsInit /\ [][PartsNext]_all /\ PartsFairness

-----------------------------------------------------------------------------
(* The temporal properties of the modules, for the behaviours of their     *)
(* part.                                                                   *)

\* Unless an operator keeps resetting the head, all admitted work of a session is
\* processed or its head is blocked, under the fairness of SessionRuntime.
EventuallySettles == Runtime!EventuallySettles

\* A creation that is retried ends, under the fairness of SessionDirectory.
CreationsSettle == <>[](part = "directory" => CreationSettled)
=============================================================================
