-------------------------- MODULE MCSessionRuntime --------------------------
(***************************************************************************)
(* Small instances of SessionRuntime.  The harness of these instances      *)
(* plans one or two operations for an input, depending on what it has      *)
(* already applied, one follow-up for the first completion, and an         *)
(* undeclared operation for a poison body.                                 *)
(***************************************************************************)
EXTENDS SessionRuntime

HasInput(past) == \E i \in DOMAIN past : past[i].kind = "input"

MCPlan(past, event) ==
  IF event.kind = "input"
  THEN IF event.body = "poison" THEN {"undeclared"}
       ELSE IF HasInput(past) THEN {"a"} ELSE {"a", "b"}
  ELSE {}

\* The bash turn: a completed model call plans a tool call, once.
MCChain(past, event) ==
  CASE event.kind = "input" -> IF event.body = "poison" THEN {"undeclared"} ELSE {"a"}
    [] event.kind = "completed" /\ Len(past) = 1 -> {"b"}
    [] OTHER -> {}

\* The sessions that nobody resumes: their counters of failures are never reset.
UnresumedSpec == Init /\ [][Next /\ admission'.call # "resume"]_vars
=============================================================================
