-------------------------- MODULE SessionDirectory --------------------------
(***************************************************************************)
(* Creation of sessions and their display status: the agent API            *)
(* (createSession, SessionDirectory, the inputs route), the directory row  *)
(* in D1, the session objects that initialise, and the StatusPublisher of  *)
(* a harness host.                                                         *)
(*                                                                         *)
(* Rows of different request IDs do not meet, so there is one request ID,  *)
(* which several API calls use at once, some with other content.  A call   *)
(* is suspended at every await of D1 or of the object; it may end there    *)
(* (the Worker dies, D1 or the object fails, the answer is lost), and its  *)
(* client, who was told nothing definitive, calls again.  A content stands *)
(* for the whole request: creationHash tells contents apart, and whether   *)
(* parseConfig takes it is a fixed matter of its kind.                     *)
(***************************************************************************)
EXTENDS Integers, Sequences, FiniteSets

CONSTANTS
  Clients,         \* backends that create with the same request ID
  Contents,        \* a subset of {"valid", "other", "invalid", "unsupported"}
  MaxInputs,       \* bound on inputs
  MaxTransitions,  \* bound on status changes of the harness
  MaxFaults,       \* bound on lost calls, failed writes and lost activations
  None             \* no row, no answer (a model value)

Frozen   == {"initializing", "initialization_failed", "destroyed"}
Statuses == {"idle", "running", "failed"}

\* The rows of table sessions.
Rows == [id : Nat \ {0}, content : Contents, status : Frozen \cup Statuses]

DirectoryAssumption ==
  /\ IsFiniteSet(Clients)
  /\ Contents \subseteq {"valid", "other", "invalid", "unsupported"}
  /\ {MaxInputs, MaxTransitions, MaxFaults} \subseteq Nat
  /\ None \notin Rows \cup Statuses

VARIABLES
  row,         \* the row of table sessions, or None
  objects,     \* session ID -> the content its Durable Object was initialised with
  calls,       \* client -> its creation request
  fresh,       \* session IDs made so far
  checked,     \* inputs that passed readyEntry and are not admitted yet
  sent,        \* inputs so far
  actual,      \* the status the harness last returned
  changes,     \* status changes so far
  queue,       \* StatusPublisher's tail: writes not done yet
  ghost,       \* a write of a lost activation that may still reach D1, or None
  missed,      \* history: the last status was not written, or was written over late
  retired,     \* history: the session was retired
  faults       \* faults so far

creation == <<row, objects, calls, fresh>>
display  == <<checked, sent, actual, changes, queue, ghost, missed, retired>>
vars     == <<creation, display, faults>>

Fault == faults < MaxFaults /\ faults' = faults + 1

Init ==
  /\ row = None
  /\ objects = <<>>
  /\ calls \in [Clients -> [pc : {"idle"}, content : Contents, entry : {None},
                            duplicate : {FALSE}, answer : {None}]]
  /\ fresh = 0
  /\ checked = 0
  /\ sent = 0
  /\ actual = "idle"
  /\ changes = 0
  /\ queue = <<>>
  /\ ghost = None
  /\ missed = FALSE
  /\ retired = FALSE
  /\ faults = 0

-----------------------------------------------------------------------------
(* createSession.                                                          *)

\* The call goes on, or it is lost with what it was about to do and the client
\* calls again.
Resume(c, call) ==
  /\ \/ calls' = [calls EXCEPT ![c] = call] /\ UNCHANGED faults
     \/ calls' = [calls EXCEPT ![c].pc = "idle"] /\ Fault

Told(call, verdict, id) == [call EXCEPT !.pc = "told", !.answer = [verdict |-> verdict, id |-> id]]

\* Variant: an entry that somebody else is initialising is not touched.
RetryLaterIfInitializing(call, entry, duplicate) ==
  IF entry.content # call.content THEN Told(call, "conflict", None)
  ELSE CASE entry.status = "destroyed"             -> Told(call, "destroyed", entry.id)
         [] entry.status = "initialization_failed" -> Told(call, "invalid", entry.id)
         [] duplicate /\ entry.status = "initializing" -> [call EXCEPT !.pc = "idle"]
         [] OTHER -> [call EXCEPT !.pc = "initialize", !.entry = entry, !.duplicate = duplicate]

\* #checkContent and throwCreationFailure on the entry that was reserved.
Reserved(call, entry, duplicate) ==
  IF entry.content # call.content THEN Told(call, "conflict", None)
  ELSE CASE entry.status = "destroyed"             -> Told(call, "destroyed", entry.id)
         [] entry.status = "initialization_failed" -> Told(call, "invalid", entry.id)
         [] OTHER -> [call EXCEPT !.pc = "initialize", !.entry = entry, !.duplicate = duplicate]

\* reserve: an existing reservation is found before the harness is looked up.
Lookup(c) ==
  /\ calls[c].pc = "idle"
  /\ Resume(c, IF row # None THEN Reserved(calls[c], row, TRUE)
               ELSE IF calls[c].content = "unsupported" THEN Told(calls[c], "unsupported", None)
               ELSE [calls[c] EXCEPT !.pc = "insert"])
  /\ UNCHANGED <<row, objects, fresh, display>>

\* Variant: the insert replaces what another call reserved meanwhile.
InsertOrReplace(c) ==
  /\ calls[c].pc = "insert"
  /\ row' = [id |-> fresh + 1, content |-> calls[c].content, status |-> "initializing"]
  /\ fresh' = fresh + 1
  /\ Resume(c, Reserved(calls[c], row', FALSE))
  /\ UNCHANGED <<objects, display>>

\* INSERT ... ON CONFLICT DO NOTHING RETURNING.
Insert(c) ==
  /\ calls[c].pc = "insert"
  /\ fresh' = fresh + 1
  /\ IF row = None
     THEN /\ row' = [id |-> fresh + 1, content |-> calls[c].content, status |-> "initializing"]
          /\ Resume(c, Reserved(calls[c], row', FALSE))
     ELSE /\ UNCHANGED row
          /\ Resume(c, [calls[c] EXCEPT !.pc = "reread"])
  /\ UNCHANGED <<objects, display>>

Reread(c) ==
  /\ calls[c].pc = "reread"
  /\ Resume(c, Reserved(calls[c], row, TRUE))
  /\ UNCHANGED <<row, objects, fresh, display>>

\* The object initialises in one transaction; one that is initialised answers
\* without looking at the configuration (SessionRuntime.initialize).
Initialize(c) ==
  LET call  == calls[c]
      known == call.entry.id \in DOMAIN objects
  IN  /\ call.pc = "initialize"
      /\ IF known \/ call.content # "invalid"
         THEN /\ objects' = [id \in DOMAIN objects \cup {call.entry.id} |->
                               IF id \in DOMAIN objects THEN objects[id] ELSE call.content]
              /\ Resume(c, IF call.entry.status = "initializing"
                           THEN [call EXCEPT !.pc = "ready"]
                           ELSE Told(call, "created", call.entry.id))
         ELSE /\ UNCHANGED objects
              /\ Resume(c, [call EXCEPT !.pc = "fail"])
      /\ UNCHANGED <<row, fresh, display>>

\* Variant: ready writes whatever the status is.
ReadyAnyway(c) ==
  /\ calls[c].pc = "ready"
  /\ row' = [row EXCEPT !.status = "idle"]
  /\ Resume(c, Told(calls[c], "created", calls[c].entry.id))
  /\ UNCHANGED <<objects, fresh, display>>

\* ready: UPDATE ... WHERE status = 'initializing'.
Ready(c) ==
  /\ calls[c].pc = "ready"
  /\ row' = IF row.status = "initializing" THEN [row EXCEPT !.status = "idle"] ELSE row
  /\ Resume(c, Told(calls[c], "created", calls[c].entry.id))
  /\ UNCHANGED <<objects, fresh, display>>

\* fail, for INVALID_CONFIG only.
FailCreation(c) ==
  /\ calls[c].pc = "fail"
  /\ row' = IF row.status = "initializing"
            THEN [row EXCEPT !.status = "initialization_failed"] ELSE row
  /\ Resume(c, Told(calls[c], "invalid", calls[c].entry.id))
  /\ UNCHANGED <<objects, fresh, display>>

\* The client of a call that told nothing gives up waiting; the next one begins
\* from the start.
LoseCall(c) ==
  /\ calls[c].pc \notin {"idle", "told"}
  /\ Fault
  /\ calls' = [calls EXCEPT ![c].pc = "idle"]
  /\ UNCHANGED <<row, objects, fresh, display>>

CreateSession(c) ==
  \/ Lookup(c) \/ Insert(c) \/ Reread(c) \/ Initialize(c) \/ Ready(c) \/ FailCreation(c)

-----------------------------------------------------------------------------
(* Inputs and the display status of the session of the row.                *)

\* The inputs route: readyEntry, and later the call of the object.
CheckReady ==
  /\ row # None /\ row.status \notin Frozen
  /\ sent < MaxInputs
  /\ sent' = sent + 1
  /\ checked' = checked + 1
  /\ UNCHANGED <<creation, actual, changes, queue, ghost, missed, retired, faults>>

\* The object admits the input and the harness handles it, with its status
\* published after the commit (onStatusChange, publish).
Handle(status) ==
  /\ checked > 0
  /\ row.id \in DOMAIN objects
  /\ changes < MaxTransitions
  /\ changes' = changes + 1
  /\ \E left \in {checked, checked - 1} : checked' = left
  /\ actual' = status
  /\ queue' = Append(queue, status)
  /\ missed' = FALSE
  /\ UNCHANGED <<creation, sent, ghost, retired, faults>>

\* The UPDATE of publish: it leaves a row alone that is not ready or is retired.
Shown(status) == IF row.status \in Frozen THEN row ELSE [row EXCEPT !.status = status]

\* One link of the chain of promises; a failed write is logged and forgotten.
Publish ==
  /\ queue # <<>>
  /\ queue' = Tail(queue)
  /\ \/ row' = Shown(Head(queue)) /\ UNCHANGED <<missed, faults>>
     \/ row' = row /\ Fault /\ missed' = (missed \/ Len(queue) = 1)
  /\ UNCHANGED <<objects, calls, fresh, checked, sent, actual, changes, ghost, retired>>

\* The activation is lost with its queue; its write in flight may still land.
LoseActivation ==
  /\ queue # <<>> /\ ghost = None
  /\ Fault
  /\ ghost' \in {None, Head(queue)}
  /\ queue' = <<>>
  /\ missed' = TRUE
  /\ UNCHANGED <<creation, checked, sent, actual, changes, retired>>

GhostLands ==
  /\ ghost # None
  /\ row' = Shown(ghost)
  /\ ghost' = None
  /\ missed' = TRUE
  /\ UNCHANGED <<objects, calls, fresh, checked, sent, actual, changes, queue, retired, faults>>

\* Retirement by an operator: the status is reserved, no code writes it yet.
Retire ==
  /\ row # None /\ ~retired
  /\ row' = [row EXCEPT !.status = "destroyed"]
  /\ retired' = TRUE
  /\ UNCHANGED <<objects, calls, fresh, checked, sent, actual, changes, queue, ghost, missed, faults>>

Next ==
  \/ \E c \in Clients : CreateSession(c) \/ LoseCall(c)
  \/ CheckReady
  \/ \E status \in Statuses \ {actual} : Handle(status)
  \/ Publish
  \/ LoseActivation
  \/ GhostLands
  \/ Retire

Spec == Init /\ [][Next]_vars

\* Clients call again until they are told something definitive, and calls that
\* are not lost proceed; faults are bounded.
Fairness == \A c \in Clients : WF_vars(CreateSession(c))

FairSpec == Spec /\ Fairness

-----------------------------------------------------------------------------
(* Properties.                                                             *)

\* However calls with one request ID interleave, die and are repeated: at most
\* one object is ever initialised, with the content that reserved the ID; who is
\* told "created" sent that content, is told that session, and can use it at
\* once; who is told "invalid" is told what stays; one call at most is told that
\* the session is new (reserve, initialize, ready, fail).
CreationsAgree ==
  /\ \A id \in DOMAIN objects : row # None /\ row.id = id /\ row.content = objects[id]
  /\ \A c \in Clients : calls[c].pc = "told" =>
       LET answer == calls[c].answer
       IN  /\ answer.verdict = "created" =>
                /\ answer.id \in DOMAIN objects /\ objects[answer.id] = calls[c].content
                /\ row.status \notin {"initializing", "initialization_failed"}
           /\ answer.verdict = "invalid" => row.status \in {"initialization_failed", "destroyed"}
  /\ \A c, d \in Clients :
       /\ calls[c].pc = "told" /\ calls[c].answer.verdict = "created" /\ ~calls[c].duplicate
       /\ calls[d].pc = "told" /\ calls[d].answer.verdict = "created" /\ ~calls[d].duplicate
       => c = d

\* An input that passed the check finds an initialised object.  Unless a write
\* was lost or overtaken, the directory shows the status the harness returned
\* last: no late step of a creation puts an old one back, and nothing but an
\* operator's row brings back a session that was retired (readyEntry, ready,
\* publish).
DisplayIsCurrent ==
  /\ checked > 0 => row.id \in DOMAIN objects
  /\ retired => row.status = "destroyed"
  /\ row # None /\ row.status \notin Frozen /\ queue = <<>> /\ ~missed => row.status = actual

\* Every client that keeps calling is told something definitive, also when calls
\* died after any of their steps (createSession: "idempotent even if the
\* previous request died").
CreationSettled == \A c \in Clients : calls[c].pc = "told"

CreationSettles == <>[]CreationSettled
=============================================================================
