----------------------------- MODULE SessionLog -----------------------------
(***************************************************************************)
(* What a session promises, without drivers, alarms, crashes or retries:   *)
(* an append-only log of distinct events, of which a prefix is done.  Each *)
(* event is done once, in log order, and what it starts is a function of   *)
(* the events before it alone.  An operation it starts is open until its   *)
(* completion is done, and its completion is logged at most once.          *)
(***************************************************************************)
EXTENDS Integers, Sequences

CONSTANT Plan(_, _)  \* the keys planned for an event after a past

VARIABLES
  log,   \* every admitted event
  done,  \* how many of them are processed
  open   \* operations accepted and not completed

vars == <<log, done, open>>

HeadOps ==
  IF done < Len(log)
  THEN {done + 1} \X Plan(SubSeq(log, 1, done), log[done + 1])
  ELSE {}

Logged(kind, id) == \E i \in DOMAIN log : log[i].kind = kind /\ log[i].id = id

Init == log = <<>> /\ done = 0 /\ open = {}

\* A new input, or the completion of an open operation or one the head starts.
Admit(event) ==
  /\ ~Logged(event.kind, event.id)
  /\ event.kind = "completed" => event.id \in open \cup HeadOps
  /\ log' = Append(log, event)
  /\ UNCHANGED <<done, open>>

\* The log grows by completions of the operations ops that it did not have.
Queue(ops) ==
  /\ Len(log) <= Len(log')
  /\ \A i \in DOMAIN log : log'[i] = log[i]
  /\ \A i \in DOMAIN log' \ DOMAIN log :
       /\ log'[i].kind = "completed"
       /\ log'[i].id \in ops
       /\ ~Logged("completed", log'[i].id)

\* The head is done: what it started is open or already has a completion.
Transition ==
  /\ done < Len(log)
  /\ done' = done + 1
  /\ Queue(HeadOps)
  /\ LET event  == log[done + 1]
         closed == IF event.kind = "completed" THEN {event.id} ELSE {}
     IN  /\ open \ closed \subseteq open'
         /\ open' \subseteq (open \cup HeadOps) \ closed
         /\ \A op \in HeadOps \ open' : Logged("completed", op)'

Next ==
  \/ Len(log') > Len(log) /\ Admit(log'[Len(log')])
  \/ Transition

Spec == Init /\ [][Next]_vars
=============================================================================
