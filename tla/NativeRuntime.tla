---------------------------- MODULE NativeRuntime ----------------------------
(***************************************************************************)
(* The native process runtime of the execution core: the registry of       *)
(* executions (native/runtime.rs) and the task that supervises each of     *)
(* them from launch to its final result (native/session.rs, run).          *)
(*                                                                         *)
(* Any number of threads call the runtime.  One action is what happens     *)
(* under one lock or between two awaits; terminate_run, which takes the    *)
(* registry's lock twice, is two actions, and so is run_execution, which   *)
(* registers a run under the lock and hands it to a task after it.  Time   *)
(* is abstract: a deadline or a retention period may end at any moment.    *)
(* Output and input of an execution, and the validation of requests, are   *)
(* left out.  The processes are external.                                  *)
(***************************************************************************)
EXTENDS Integers, FiniteSets

CONSTANTS
  Ids,            \* start_id and run_id values
  Args,           \* the other arguments of a request
  Timed(_),       \* whether arguments of a run carry timeout_ms
  MaxActive,      \* limits.max_active_executions
  MaxRetained,    \* limits.max_retained_executions
  MaxExecutions,  \* bound on the sequence numbers handed out
  MaxFaults       \* bound on signals and waits that fail

ASSUME NativeAssumption ==
  /\ \A args \in Args : Timed(args) \in BOOLEAN
  /\ {MaxActive, MaxRetained, MaxExecutions, MaxFaults} \subseteq Nat

VARIABLES
  sessions,     \* every session created, by sequence number
  next,         \* registry.next_sequence
  entries,      \* sequence numbers in registry.entries
  index,        \* registry.starts and registry.runs; 0 stands for no entry
  pending,      \* registry.pending_run_terminations
  terminating,  \* terminate_run calls that found no run and dropped the lock
  shut,         \* the progress of shutdown and what it still has to do
  token,        \* the shutdown token is cancelled
  faults        \* failed signals and waits, bounded by MaxFaults

registry == <<entries, index, pending>>
vars == <<sessions, next, registry, terminating, shut, token, faults>>

-----------------------------------------------------------------------------
(* Values *)

Numbers == 1 .. MaxExecutions
Kinds   == {"start", "run"}
Keys    == Kinds \X Ids

\* In a session: state is starting, running, stopping or finished; stop and first
\* are explicit, timeout, shutdown or none; root is none, alive, dead, or doomed once
\* SIGKILL was delivered and the exit has not been seen yet; task is where its task
\* is.  spawn, cancelled: a registered run that is not handed to a task yet; head,
\* select: the two halves of the loop of run; exited: root_exited is set.
Unused == [state |-> "none"]

\* Session::new; first and doomed are history: the first stop acknowledged, and
\* whether a termination was retained for the run when it was registered.
NewSession(key, args, task) ==
  [key |-> key, args |-> args, state |-> "starting", task |-> task,
   stop |-> "none", due |-> FALSE, timer |-> FALSE, permit |-> FALSE,
   stopping |-> FALSE, killed |-> FALSE, shutdownSeen |-> FALSE, failed |-> FALSE,
   root |-> "none", group |-> FALSE, result |-> "none", aged |-> FALSE,
   first |-> "none", doomed |-> task = "cancelled"]

Created == 1 .. next - 1

Live(n) == sessions[n].state # "finished"

Set(n, session) == sessions' = [sessions EXCEPT ![n] = session]

-----------------------------------------------------------------------------
(* Session *)

\* Variant: the supervisor is not woken.
TerminatedUnnoticed(x, reason) ==
  LET counts == x.state # "finished" /\ x.task # "exited" /\ x.stop = "none"
  IN  [x EXCEPT !.stop  = IF counts THEN reason ELSE @,
                !.state = IF counts THEN "stopping" ELSE @,
                !.first = IF counts THEN reason ELSE @]

\* terminate: the first call sets the deadline; every call wakes the supervisor,
\* which takes no notice once its loop has ended.
Terminated(x, reason) ==
  LET counts == x.state # "finished" /\ x.task # "exited" /\ x.stop = "none"
  IN  [x EXCEPT !.stop   = IF counts THEN reason ELSE @,
                !.state  = IF counts THEN "stopping" ELSE @,
                !.first  = IF counts THEN reason ELSE @,
                !.permit = x.task \notin {"exited", "done"}]

\* finish; the locals of run end with it, and the deadline is not looked at again.
Finished(x, result) ==
  [x EXCEPT !.state = "finished", !.task = "done", !.result = result,
            !.stopping = FALSE, !.killed = FALSE, !.shutdownSeen = FALSE,
            !.failed = FALSE, !.due = FALSE, !.permit = FALSE]

-----------------------------------------------------------------------------
(* Registry *)

Expired == {n \in entries : sessions[n].aged}

Kept == entries \ Expired

KeptIndex ==
  [key \in Keys |-> IF index[key] \in Expired THEN 0 ELSE index[key]]

KeptPending ==
  [id \in Ids |-> IF pending[id] = "aged" THEN "none" ELSE pending[id]]

\* cleanup, for a caller that changes nothing else in the registry.
Cleanup ==
  /\ entries' = Kept
  /\ index' = KeptIndex
  /\ pending' = KeptPending

\* The handle of a call keeps the runtime alive.
Callable == shut.phase # "dropped"

\* Variant: sessions that are stopping no longer count.
RoomForRunning ==
  /\ Cardinality({n \in Kept : sessions[n].state \in {"starting", "running"}}) < MaxActive
  /\ Cardinality(Kept) < MaxRetained

Room ==
  /\ Cardinality({n \in Kept : Live(n)}) < MaxActive
  /\ Cardinality(Kept) < MaxRetained

Admits(key) ==
  /\ KeptIndex[key] = 0
  /\ shut.phase = "open"
  /\ Room
  /\ next <= MaxExecutions

\* The part of start_with_capture and run_execution under the lock that records
\* a new session.
Register(key, args, task) ==
  /\ sessions' = [sessions EXCEPT ![next] = NewSession(key, args, task)]
  /\ next' = next + 1
  /\ entries' = Kept \cup {next}
  /\ index' = [KeptIndex EXCEPT ![key] = next]

\* start_with_capture: a new start is recorded and supervised at once.
Start(id, args) ==
  /\ Callable
  /\ Admits(<<"start", id>>)
  /\ Register(<<"start", id>>, args, "launch")
  /\ pending' = KeptPending
  /\ UNCHANGED <<terminating, shut, token, faults>>

\* run_execution: a new run takes the termination retained for it.
Run(id, args) ==
  /\ Callable
  /\ Admits(<<"run", id>>)
  /\ Register(<<"run", id>>, args,
              IF KeptPending[id] = "none" THEN "spawn" ELSE "cancelled")
  /\ pending' = [KeptPending EXCEPT ![id] = "none"]
  /\ UNCHANGED <<terminating, shut, token, faults>>

\* Every other call that takes the registry's lock: a joined or conflicting or
\* refused start or run, a lookup by handle, a listing, the periodic cleanup.
LockedCleanup ==
  /\ Expired # {} \/ KeptPending # pending
  /\ Cleanup
  /\ UNCHANGED <<sessions, next, terminating, shut, token, faults>>

\* run_execution after the lock: the run is finished unlaunched or supervised.
Spawn(n) ==
  /\ n \in Created
  /\ sessions[n].task \in {"spawn", "cancelled"}
  /\ Set(n, IF sessions[n].task = "cancelled"
            THEN Finished(sessions[n], "terminated")
            ELSE [sessions[n] EXCEPT !.task = "launch", !.timer = Timed(sessions[n].args)])
  /\ UNCHANGED <<next, registry, terminating, shut, token, faults>>

\* terminate_run of a run in the registry.
TerminateRun(id) ==
  LET n == KeptIndex[<<"run", id>>]
  IN  /\ Callable
      /\ n # 0
      /\ Cleanup
      /\ Set(n, Terminated(sessions[n], "explicit"))
      /\ UNCHANGED <<next, terminating, shut, token, faults>>

\* terminate_run of an unknown run: the lock is released after the lookup ...
TerminateLookup(id) ==
  /\ Callable
  /\ id \notin terminating
  /\ KeptIndex[<<"run", id>>] = 0
  /\ Cleanup
  /\ terminating' = terminating \cup {id}
  /\ UNCHANGED <<sessions, next, shut, token, faults>>

\* ... and taken again to retain the termination, or to refuse it when full.
TerminatePend(id) ==
  /\ id \in terminating
  /\ terminating' = terminating \ {id}
  /\ pending' = [pending EXCEPT ![id] =
       IF Cardinality({i \in Ids : pending[i] # "none"}) >= MaxRetained \/ @ # "none"
       THEN @ ELSE "fresh"]
  /\ UNCHANGED <<sessions, next, entries, index, shut, token, faults>>

\* terminate_execution
TerminateExecution(n) ==
  /\ Callable
  /\ n \in Kept
  /\ Cleanup
  /\ Set(n, Terminated(sessions[n], "explicit"))
  /\ UNCHANGED <<next, terminating, shut, token, faults>>

-----------------------------------------------------------------------------
(* Shutdown *)

\* shutdown: starts are refused from here on and the sessions to end are known.
ShutdownBegin ==
  /\ shut.phase = "open"
  /\ shut' = [phase |-> "begun", stop |-> entries, wait |-> entries]
  /\ UNCHANGED <<sessions, next, registry, terminating, token, faults>>

ShutdownCancel ==
  /\ shut.phase = "begun"
  /\ shut' = [shut EXCEPT !.phase = "cancelled"]
  /\ token' = TRUE
  /\ UNCHANGED <<sessions, next, registry, terminating, faults>>

ShutdownStop(n) ==
  /\ shut.phase = "cancelled"
  /\ n \in shut.stop
  /\ shut' = [shut EXCEPT !.stop = @ \ {n}]
  /\ Set(n, Terminated(sessions[n], "shutdown"))
  /\ UNCHANGED <<next, registry, terminating, token, faults>>

ShutdownReturn ==
  /\ shut.phase = "cancelled"
  /\ shut.stop = {}
  /\ \A n \in shut.wait : ~Live(n)
  /\ shut' = [shut EXCEPT !.phase = "returned"]
  /\ UNCHANGED <<sessions, next, registry, terminating, token, faults>>

\* Drop for Inner: the last clone goes away without shutdown.
DropCore ==
  /\ shut.phase = "open"
  /\ terminating = {}
  /\ \A n \in Created : sessions[n].task \notin {"spawn", "cancelled"}
  /\ shut' = [shut EXCEPT !.phase = "dropped"]
  /\ token' = TRUE
  /\ UNCHANGED <<sessions, next, registry, terminating, faults>>

-----------------------------------------------------------------------------
(* Supervision: run *)

Fault(happens) ==
  IF happens THEN faults < MaxFaults /\ faults' = faults + 1 ELSE UNCHANGED faults

\* A step of the supervisor of one session.
Supervise(n, session) ==
  /\ Set(n, session)
  /\ UNCHANGED <<next, registry, terminating, shut, token>>

\* backend::spawn succeeds; the process may leave descendants in its group.
Launch(n) ==
  /\ n \in Created
  /\ sessions[n].task = "launch"
  /\ \E group \in BOOLEAN :
       Supervise(n, [sessions[n] EXCEPT
         !.task = "head", !.root = "alive", !.group = group,
         !.state = IF sessions[n].stop = "none" THEN "running" ELSE @])
  /\ UNCHANGED faults

LaunchFails(n) ==
  /\ n \in Created
  /\ sessions[n].task = "launch"
  /\ Supervise(n, Finished(sessions[n], "start_failed"))
  /\ UNCHANGED faults

\* control.kill() on the whole group; a failure is remembered, never retried.
Killed(x, fails) ==
  [x EXCEPT !.killed = TRUE,
            !.failed = @ \/ fails,
            !.group  = @ /\ fails,
            !.root   = IF @ = "alive" /\ ~fails THEN "doomed" ELSE @]

\* How control.terminate() answers: a signal, no such means, an error.
Graceful == {"signalled", "unsupported", "error"}

\* The head of the loop: the first look at a stop terminates gracefully, a look
\* after the deadline kills.
Head(n) ==
  LET x == [sessions[n] EXCEPT !.task = "select"]
      stops == x.stop # "none" /\ ~x.stopping
  IN  /\ n \in Created
      /\ sessions[n].task = "head"
      /\ \E graceful \in Graceful, fails \in BOOLEAN :
           LET y == IF stops THEN [x EXCEPT !.stopping = TRUE,
                                            !.failed = @ \/ graceful = "error"] ELSE x
               kills == /\ y.stopping /\ ~y.killed
                        /\ (stops /\ graceful # "signalled") \/ y.due
           IN  /\ ~stops => graceful = "signalled"
               /\ fails => kills
               /\ Fault(fails \/ graceful = "error")
               /\ Supervise(n, IF kills THEN Killed(y, fails) ELSE y)

\* The branches of select.
SelectStop(n) ==
  /\ n \in Created
  /\ sessions[n].task = "select"
  /\ sessions[n].permit
  /\ Supervise(n, [sessions[n] EXCEPT !.permit = FALSE, !.task = "head"])
  /\ UNCHANGED faults

SelectShutdown(n) ==
  /\ n \in Created
  /\ sessions[n].task = "select"
  /\ token /\ ~sessions[n].shutdownSeen
  /\ Supervise(n, [Terminated(sessions[n], "shutdown") EXCEPT
                     !.shutdownSeen = TRUE, !.task = "head"])
  /\ UNCHANGED faults

SelectDeadline(n) ==
  /\ n \in Created
  /\ sessions[n].task = "select"
  /\ sessions[n].stopping /\ ~sessions[n].killed /\ sessions[n].due
  /\ Supervise(n, [sessions[n] EXCEPT !.task = "head"])
  /\ UNCHANGED faults

SelectExit(n) ==
  /\ n \in Created
  /\ sessions[n].task = "select"
  /\ sessions[n].root = "dead"
  /\ \E fails \in BOOLEAN :
       /\ Fault(fails)
       /\ Supervise(n, [sessions[n] EXCEPT !.task = "exited", !.state = "stopping",
                                           !.failed = @ \/ fails])

\* Variant: the exit of the root is taken for the end of the group.
FinalizeUnswept(n) ==
  LET x == sessions[n]
  IN  /\ n \in Created
      /\ x.task = "exited"
      /\ Supervise(n, Finished(x,
           IF x.failed THEN "lost" ELSE IF ~x.stopping THEN "exited"
           ELSE IF x.stop = "timeout" THEN "timed_out" ELSE "terminated"))
      /\ UNCHANGED faults

\* After the exit: survivors keep their grace period, then the group is killed,
\* output is drained and the result published.
Finalize(n) ==
  LET x == sessions[n]
  IN  /\ n \in Created
      /\ x.task = "exited"
      /\ (x.stopping /\ ~x.killed) => x.due
      /\ \E fails \in BOOLEAN :
           LET y == Killed(x, fails)
           IN  /\ Fault(fails)
               /\ Supervise(n, Finished(y,
                    IF y.failed THEN "lost" ELSE IF ~y.stopping THEN "exited"
                    ELSE IF y.stop = "timeout" THEN "timed_out" ELSE "terminated"))

-----------------------------------------------------------------------------
(* Time and processes *)

\* The deadline of a stop comes.
Elapse(n) ==
  /\ n \in Created
  /\ Live(n) /\ sessions[n].stop # "none" /\ ~sessions[n].due
  /\ Supervise(n, [sessions[n] EXCEPT !.due = TRUE])
  /\ UNCHANGED faults

\* The timer task of a run: it sleeps after the launch, until the run is finished.
TimeoutFires(n) ==
  /\ n \in Created
  /\ sessions[n].timer /\ sessions[n].task # "launch"
  /\ Supervise(n, [(IF Live(n) THEN Terminated(sessions[n], "timeout") ELSE sessions[n])
                     EXCEPT !.timer = FALSE])
  /\ UNCHANGED faults

\* The retention period of a finished execution, or of a pending termination, ends.
Age(n) ==
  /\ n \in Created
  /\ ~Live(n) /\ ~sessions[n].aged
  /\ Supervise(n, [sessions[n] EXCEPT !.aged = TRUE])
  /\ UNCHANGED faults

AgePending(id) ==
  /\ pending[id] = "fresh"
  /\ pending' = [pending EXCEPT ![id] = "aged"]
  /\ UNCHANGED <<sessions, next, entries, index, terminating, shut, token, faults>>

\* The root of a process group exits, by itself or because of a signal.
RootExits(n) ==
  /\ n \in Created
  /\ sessions[n].root \in {"alive", "doomed"}
  /\ Supervise(n, [sessions[n] EXCEPT !.root = "dead"])
  /\ UNCHANGED faults

-----------------------------------------------------------------------------
(* Specification *)

Init ==
  /\ sessions = [n \in Numbers |-> Unused]
  /\ next = 1
  /\ entries = {}
  /\ index = [key \in Keys |-> 0]
  /\ pending = [id \in Ids |-> "none"]
  /\ terminating = {}
  /\ shut = [phase |-> "open", stop |-> {}, wait |-> {}]
  /\ token = FALSE
  /\ faults = 0

\* What the task of one session does, and the timer beside it.
Task(n) ==
  \/ Spawn(n) \/ Launch(n) \/ LaunchFails(n) \/ Head(n)
  \/ SelectStop(n) \/ SelectShutdown(n) \/ SelectDeadline(n) \/ SelectExit(n)
  \/ Finalize(n)

Shutdown ==
  \/ ShutdownBegin \/ ShutdownCancel \/ ShutdownReturn
  \/ \E n \in Numbers : ShutdownStop(n)

Next ==
  \/ \E id \in Ids, args \in Args : Start(id, args) \/ Run(id, args)
  \/ \E id \in Ids : TerminateRun(id) \/ TerminateLookup(id) \/ TerminatePend(id)
                       \/ AgePending(id)
  \/ \E n \in Numbers : \/ Task(n) \/ TerminateExecution(n) \/ RootExits(n)
                        \/ Elapse(n) \/ TimeoutFires(n) \/ Age(n)
  \/ LockedCleanup
  \/ Shutdown
  \/ DropCore

Spec == Init /\ [][Next]_vars

-----------------------------------------------------------------------------
(* Properties *)

\* Work that is not finished stays registered, counts against the limit even while
\* it is stopping, and is the only live work of its ID: a retry joins it.  The maps
\* of starts and runs and the entries are in step: a lookup never names an entry
\* that is gone (registry.entries[sequence] would panic), and no entry is out of
\* reach of its ID.
LiveWorkIsOwned ==
  /\ \A n \in Created : Live(n) => n \in entries
  /\ Cardinality({n \in Created : Live(n)}) <= MaxActive
  /\ \A key \in Keys : index[key] # 0 =>
       index[key] \in entries /\ sessions[index[key]].key = key
  /\ \A n \in entries : index[sessions[n].key] = n

\* The result tells the first cause: only a run that a timeout stopped first is
\* timed out, and only one that was stopped otherwise (or never launched because
\* its termination came early) is terminated.
OutcomeTellsFirstCause ==
  \A n \in Created :
    /\ sessions[n].result = "timed_out" => sessions[n].first = "timeout"
    /\ sessions[n].result = "terminated" =>
         sessions[n].doomed \/ sessions[n].first \in {"explicit", "shutdown"}

\* A finished execution has no process left, unless the kill failed, and then its
\* outcome is reported as lost: the exit of the root does not excuse survivors.
FinishedIsClean ==
  \A n \in Created : sessions[n].state = "finished" =>
    \/ sessions[n].root \in {"none", "dead"} /\ ~sessions[n].group
    \/ sessions[n].result = "lost"

\* When shutdown returns, nothing runs and nothing will.
ShutdownIsComplete ==
  shut.phase = "returned" => \A n \in Created : ~Live(n)

\* No live execution is out of the registry's reach, neither while it serves nor when
\* it has shut down.
WorkIsOwned == LiveWorkIsOwned /\ ShutdownIsComplete

\* A supervisor never sleeps on a stop it has not acted upon: wherever a termination,
\* a timeout, a shutdown or a dropped handle falls between launch, the head of the
\* loop and its select, either the wake-up is still stored or the group has been
\* asked to end; and the shutdown token is used up only by stopping.
StopIsNoticed ==
  \A n \in Created : sessions[n].task = "select" =>
    /\ sessions[n].stop # "none" => sessions[n].stopping \/ sessions[n].permit
    /\ sessions[n].shutdownSeen => sessions[n].stop # "none"

\* A stop is acted upon wherever it falls, and the first one is what the result tells.
StopsAreTold == OutcomeTellsFirstCause /\ StopIsNoticed

\* terminate_run's documentation: a termination that races ahead of the run's
\* admission is retained, so that the run is completed without launching.
RetainedTerminationHolds ==
  \A id \in Ids :
    LET n == index[<<"run", id>>]
    IN  pending[id] = "fresh" /\ n # 0 => sessions[n].root = "none"

=============================================================================
