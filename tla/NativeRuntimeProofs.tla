------------------------- MODULE NativeRuntimeProofs -------------------------
(***************************************************************************)
(* Live executions stay within reach of the registry, results tell the     *)
(* first cause of a stop, and no process outlives its execution unseen:    *)
(* for every number of executions, calls, stops and failed signals.        *)
(*                                                                         *)
(* The argument.  Each session keeps to itself (Fits): what a stop, the    *)
(* launch and the exit leave in its record is what its result and its      *)
(* wake-up are made of, and no step of another session touches it.  The    *)
(* registry only lets go of what is finished, because only finished        *)
(* sessions age; a new session is admitted only when its ID has no entry   *)
(* and the live entries, which are all the live sessions there are, leave  *)
(* room.  Shutdown waits for every entry, and nothing is admitted after it *)
(* has begun.                                                              *)
(***************************************************************************)
EXTENDS NativeRuntime, FiniteSetTheorems, TLAPS

-----------------------------------------------------------------------------
(* The inductive invariant *)

States  == {"starting", "running", "stopping", "finished"}
Reasons == {"explicit", "timeout", "shutdown"}
Waiting == {"spawn", "cancelled", "launch"}

SessionRecords ==
  [key : Keys, args : Args, state : States,
   task : Waiting \cup {"head", "select", "exited", "done"},
   stop : Reasons \cup {"none"}, due : BOOLEAN, timer : BOOLEAN, permit : BOOLEAN,
   stopping : BOOLEAN, killed : BOOLEAN, shutdownSeen : BOOLEAN, failed : BOOLEAN,
   root : {"none", "alive", "doomed", "dead"}, group : BOOLEAN,
   result : {"none", "terminated", "start_failed", "lost", "exited", "timed_out"},
   aged : BOOLEAN, first : Reasons \cup {"none"}, doomed : BOOLEAN]

\* Where the task of a session is, and what there is of its process and its result then.
PlaceFits(x) ==
  /\ x.state = "finished" <=> x.task = "done"
  /\ x.aged => x.state = "finished"
  /\ x.task \in Waiting => x.root = "none" /\ ~x.group
  /\ x.task = "cancelled" => x.doomed
  /\ x.task = "exited" => x.root = "dead"
  /\ x.state # "finished" => x.result = "none"
  /\ x.state = "finished" => (x.root \in {"none", "dead"} /\ ~x.group) \/ x.result = "lost"

\* The reason of a stop is the first one; it is seen, and told by the result.
StopFits(x) ==
  /\ x.first = x.stop
  /\ x.stopping \/ x.shutdownSeen => x.stop # "none"
  /\ x.task = "select" /\ x.stop # "none" => x.stopping \/ x.permit
  /\ x.result = "timed_out" => x.first = "timeout"
  /\ x.result = "terminated" => x.doomed \/ x.first \in {"explicit", "shutdown"}

Fits(x) == x \in SessionRecords /\ PlaceFits(x) /\ StopFits(x)

SessionsInv ==
  /\ next \in Nat \ {0}
  /\ next <= MaxExecutions + 1
  /\ sessions \in [Numbers -> SessionRecords \cup {Unused}]
  /\ \A n \in Created : Fits(sessions[n])

\* The two maps of the registry are in step, and hold what is live.
RegistryInv ==
  /\ entries \subseteq Created
  /\ index \in [Keys -> Nat]
  /\ \A n \in Created : Live(n) => n \in entries
  /\ \A key \in Keys : index[key] # 0 => index[key] \in entries /\ sessions[index[key]].key = key
  /\ \A n \in entries : index[sessions[n].key] = n
  /\ Cardinality({n \in Created : Live(n)}) <= MaxActive

\* Shutdown knows everything that is live once it has begun.
ShutdownInv ==
  /\ shut \in [phase : {"open", "dropped", "begun", "cancelled", "returned"},
               stop : SUBSET Created, wait : SUBSET Created]
  /\ shut.phase \in {"begun", "cancelled"} => \A n \in Created : Live(n) => n \in shut.wait
  /\ shut.phase = "returned" => \A n \in Created : ~Live(n)

PendingInv == pending \in [Ids -> {"none", "fresh", "aged"}]

NativeInv == SessionsInv /\ RegistryInv /\ ShutdownInv /\ PendingInv

\* How a step may change a session: it still fits, has its key, and never comes back.
Evolves(x, y) ==
  /\ Fits(y)
  /\ y.key = x.key
  /\ y.state # "finished" => x.state # "finished"

-----------------------------------------------------------------------------
(* What the operators on a session do to it *)

\* A session that fits evolves into itself.
LEMMA StaysFit ==
  ASSUME NEW x, Fits(x)
  PROVE  Evolves(x, x)
  BY DEF Evolves

\* A stop is recorded once, and wakes a supervisor that may sleep on it.
LEMMA TerminatedFits ==
  ASSUME NEW x, Fits(x), NEW reason \in Reasons
  PROVE  /\ Evolves(x, Terminated(x, reason))
         /\ Terminated(x, reason).task = x.task
         /\ x.task = "select" => Terminated(x, reason).stop # "none"
<1>. DEFINE counts == x.state # "finished" /\ x.task # "exited" /\ x.stop = "none"
            y == Terminated(x, reason)
<1>1. x \in SessionRecords /\ PlaceFits(x) /\ StopFits(x)
  BY DEF Fits
<1>2. /\ y.stop = IF counts THEN reason ELSE x.stop
      /\ y.state = IF counts THEN "stopping" ELSE x.state
      /\ y.first = IF counts THEN reason ELSE x.first
      /\ y.permit = (x.task \notin {"exited", "done"})
      /\ y.key = x.key /\ y.task = x.task /\ y.root = x.root /\ y.group = x.group
      /\ y.aged = x.aged /\ y.doomed = x.doomed /\ y.result = x.result
      /\ y.stopping = x.stopping /\ y.shutdownSeen = x.shutdownSeen
  BY <1>1 DEF Terminated, SessionRecords
<1>3. y \in SessionRecords
  <2>1. ASSUME NEW stop \in Reasons \cup {"none"}, NEW first \in Reasons \cup {"none"},
               NEW state \in States, NEW permit \in BOOLEAN
        PROVE  [x EXCEPT !.stop = stop, !.state = state, !.first = first, !.permit = permit]
                 \in SessionRecords
    BY <1>1 DEF SessionRecords
  <2>2. (x.task \notin {"exited", "done"}) \in BOOLEAN
    OBVIOUS
  <2>3. /\ (IF counts THEN reason ELSE x.stop) \in Reasons \cup {"none"}
        /\ (IF counts THEN reason ELSE x.first) \in Reasons \cup {"none"}
        /\ (IF counts THEN "stopping" ELSE x.state) \in States
    BY <1>1 DEF SessionRecords, States
  <2>. QED
    BY <2>1, <2>2, <2>3 DEF Terminated
<1>. HIDE DEF y
<1>4. PlaceFits(y)
  BY <1>1, <1>2 DEF PlaceFits
<1>5. StopFits(y)
  BY <1>1, <1>2 DEF StopFits, PlaceFits, Reasons
<1>6. x.task = "select" => y.stop # "none"
  BY <1>1, <1>2 DEF PlaceFits, Reasons
<1>. QED
  BY <1>2, <1>3, <1>4, <1>5, <1>6 DEF Evolves, Fits, y

\* A live session finishes with a result that its process and its stop allow.
LEMMA FinishedFits ==
  ASSUME NEW x, Fits(x), x.state # "finished",
         NEW result \in {"terminated", "start_failed", "lost", "exited", "timed_out"},
         (x.root \in {"none", "dead"} /\ ~x.group) \/ result = "lost",
         result = "timed_out" => x.first = "timeout",
         result = "terminated" => x.doomed \/ x.first \in {"explicit", "shutdown"}
  PROVE  Evolves(x, Finished(x, result))
<1>. DEFINE y == Finished(x, result)
<1>1. x \in SessionRecords /\ PlaceFits(x) /\ StopFits(x)
  BY DEF Fits
<1>2. /\ y.state = "finished" /\ y.task = "done" /\ y.result = result
      /\ y.stopping = FALSE /\ y.shutdownSeen = FALSE
      /\ y.key = x.key /\ y.root = x.root /\ y.group = x.group /\ y.doomed = x.doomed
      /\ y.stop = x.stop /\ y.first = x.first
  BY <1>1 DEF Finished, SessionRecords
<1>3. y \in SessionRecords
  <2>1. ASSUME NEW state \in States, NEW no \in BOOLEAN,
               NEW task \in Waiting \cup {"head", "select", "exited", "done"},
               NEW told \in {"none", "terminated", "start_failed", "lost", "exited", "timed_out"}
        PROVE  [x EXCEPT !.state = state, !.task = task, !.result = told, !.stopping = no]
                 \in SessionRecords
    BY <1>1 DEF SessionRecords
  <2>2. ASSUME NEW z \in SessionRecords, NEW no \in BOOLEAN
        PROVE  [z EXCEPT !.killed = no, !.shutdownSeen = no, !.failed = no, !.due = no,
                         !.permit = no] \in SessionRecords
    BY DEF SessionRecords
  <2>3. "finished" \in States /\ "done" \in Waiting \cup {"head", "select", "exited", "done"}
    BY DEF States
  <2>4. FALSE \in BOOLEAN
    OBVIOUS
  <2>5. result \in {"none", "terminated", "start_failed", "lost", "exited", "timed_out"}
    OBVIOUS
  <2>6. [x EXCEPT !.state = "finished", !.task = "done", !.result = result, !.stopping = FALSE]
          \in SessionRecords
    BY <2>1, <2>3, <2>4, <2>5
  <2>. QED
    BY <2>2, <2>4, <2>6 DEF Finished
<1>. HIDE DEF y
<1>4. PlaceFits(y)
  BY <1>1, <1>2 DEF PlaceFits, Waiting
<1>5. StopFits(y)
  BY <1>1, <1>2 DEF StopFits
<1>. QED
  BY <1>2, <1>3, <1>4, <1>5 DEF Evolves, Fits, y

\* A kill of a group that was launched leaves the session fit.
LEMMA KilledFits ==
  ASSUME NEW x, Fits(x), x.task \in {"select", "exited"}, NEW fails \in BOOLEAN
  PROVE  /\ Evolves(x, Killed(x, fails))
         /\ Killed(x, fails).task = x.task
         /\ Killed(x, fails).failed = (x.failed \/ fails)
         /\ Killed(x, fails).group = (x.group /\ fails)
         /\ Killed(x, fails).stopping = x.stopping
         /\ Killed(x, fails).stop = x.stop
         /\ Killed(x, fails).state = x.state
         /\ x.root = "dead" => Killed(x, fails).root = "dead"
<1>. DEFINE y == Killed(x, fails)
<1>1. x \in SessionRecords /\ PlaceFits(x) /\ StopFits(x)
  BY DEF Fits
<1>2. /\ y.failed = (x.failed \/ fails) /\ y.group = (x.group /\ fails)
      /\ y.root = IF x.root = "alive" /\ ~fails THEN "doomed" ELSE x.root
      /\ y.key = x.key /\ y.task = x.task /\ y.state = x.state /\ y.aged = x.aged
      /\ y.doomed = x.doomed /\ y.result = x.result /\ y.stop = x.stop /\ y.first = x.first
      /\ y.stopping = x.stopping /\ y.shutdownSeen = x.shutdownSeen /\ y.permit = x.permit
  BY <1>1 DEF Killed, SessionRecords
<1>3. y \in SessionRecords
  <2>1. ASSUME NEW failed \in BOOLEAN, NEW group \in BOOLEAN,
               NEW root \in {"none", "alive", "doomed", "dead"}
        PROVE  [x EXCEPT !.killed = TRUE, !.failed = failed, !.group = group, !.root = root]
                 \in SessionRecords
    BY <1>1 DEF SessionRecords
  <2>2. (x.failed \/ fails) \in BOOLEAN /\ (x.group /\ fails) \in BOOLEAN
    OBVIOUS
  <2>3. (IF x.root = "alive" /\ ~fails THEN "doomed" ELSE x.root)
          \in {"none", "alive", "doomed", "dead"}
    BY <1>1 DEF SessionRecords
  <2>. QED
    BY <2>1, <2>2, <2>3 DEF Killed
<1>. HIDE DEF y
<1>4. PlaceFits(y)
  BY <1>1, <1>2 DEF PlaceFits, Waiting
<1>5. StopFits(y)
  BY <1>1, <1>2 DEF StopFits
<1>. QED
  BY <1>2, <1>3, <1>4, <1>5 DEF Evolves, Fits, y
-----------------------------------------------------------------------------
(* Steps of one session *)

\* A session of the registry has the fields and the fit that the invariant says.
LEMMA CreatedFits ==
  ASSUME NativeInv, NEW n \in Created
  PROVE  n \in Numbers /\ Fits(sessions[n]) /\ sessions[n] \in SessionRecords
  BY NativeAssumption DEF NativeInv, SessionsInv, Created, Numbers, Fits

\* Spawn, Launch and LaunchFails: a session is launched or finished without a process.
LEMMA LaunchingFits ==
  ASSUME NativeInv, NEW n \in Created, Spawn(n) \/ Launch(n) \/ LaunchFails(n)
  PROVE  \E y : Set(n, y) /\ Evolves(sessions[n], y)
<1>. DEFINE x == sessions[n]
<1>1. n \in Numbers /\ Fits(x) /\ x \in SessionRecords /\ PlaceFits(x) /\ StopFits(x)
  BY CreatedFits DEF Fits
<1>2. CASE Spawn(n) /\ x.task = "cancelled"
  <2>1. Evolves(x, Finished(x, "terminated"))
    BY <1>1, <1>2, FinishedFits DEF PlaceFits, StopFits, Waiting
  <2>. QED
    BY <1>2, <2>1 DEF Spawn
<1>3. CASE Spawn(n) /\ x.task = "spawn"
  <2>. DEFINE y == [x EXCEPT !.task = "launch", !.timer = Timed(x.args)]
  <2>1. Set(n, y)
    BY <1>3 DEF Spawn
  <2>2. Timed(x.args) \in BOOLEAN
    BY <1>1, NativeAssumption DEF SessionRecords
  <2>3. ASSUME NEW b \in BOOLEAN
        PROVE  Evolves(x, [x EXCEPT !.task = "launch", !.timer = b])
    BY <1>1, <1>3 DEF Evolves, Fits, SessionRecords, PlaceFits, StopFits, Waiting
  <2>. QED
    BY <2>1, <2>2, <2>3
<1>4. CASE Launch(n)
  <2>1. PICK group \in BOOLEAN : Set(n, [x EXCEPT
          !.task = "head", !.root = "alive", !.group = group,
          !.state = IF x.stop = "none" THEN "running" ELSE @])
    BY <1>4 DEF Launch, Supervise
  <2>2. Evolves(x, [x EXCEPT !.task = "head", !.root = "alive", !.group = group,
                             !.state = IF x.stop = "none" THEN "running" ELSE @])
    BY <1>1, <1>4 DEF Launch, Evolves, Fits, SessionRecords, PlaceFits, StopFits, Waiting, States
  <2>. QED
    BY <2>1, <2>2
<1>5. CASE LaunchFails(n)
  <2>1. Evolves(x, Finished(x, "start_failed"))
    BY <1>1, <1>5, FinishedFits DEF LaunchFails, PlaceFits, StopFits, Waiting
  <2>. QED
    BY <1>5, <2>1 DEF LaunchFails, Supervise
<1>. QED
  BY <1>2, <1>3, <1>4, <1>5 DEF Spawn

\* The head of the loop acts upon every stop before the supervisor sleeps.
LEMMA HeadFits ==
  ASSUME NativeInv, NEW n \in Created, Head(n)
  PROVE  \E y : Set(n, y) /\ Evolves(sessions[n], y)
<1>. DEFINE w == sessions[n]
            x == [w EXCEPT !.task = "select"]
            stops == x.stop # "none" /\ ~x.stopping
<1>1. n \in Numbers /\ Fits(w) /\ w \in SessionRecords /\ PlaceFits(w) /\ StopFits(w)
  BY CreatedFits DEF Fits
<1>2. w.task = "head"
  BY DEF Head
<1>. DEFINE y(graceful) == IF stops THEN [x EXCEPT !.stopping = TRUE,
                                         !.failed = @ \/ graceful = "error"] ELSE x
            kills(graceful) == /\ y(graceful).stopping /\ ~y(graceful).killed
                               /\ (stops /\ graceful # "signalled") \/ y(graceful).due
<1>3. PICK graceful \in Graceful, fails \in BOOLEAN :
        Supervise(n, IF kills(graceful) THEN Killed(y(graceful), fails) ELSE y(graceful))
  BY Zenon DEF Head
<1>4. Evolves(w, y(graceful)) /\ y(graceful).task = "select"
  <2>1. CASE stops
    <3>1. ASSUME NEW failed \in BOOLEAN
          PROVE  Evolves(w, [x EXCEPT !.stopping = TRUE, !.failed = failed])
                 /\ [x EXCEPT !.stopping = TRUE, !.failed = failed].task = "select"
      BY <1>1, <1>2, <2>1 DEF Evolves, Fits, SessionRecords, PlaceFits, StopFits, Waiting
    <3>2. (x.failed \/ graceful = "error") \in BOOLEAN
      OBVIOUS
    <3>. QED
      BY <2>1, <3>1, <3>2
  <2>2. CASE ~stops
    <3>1. Evolves(w, x) /\ x.task = "select"
      BY <1>1, <1>2, <2>2 DEF Evolves, Fits, SessionRecords, PlaceFits, StopFits, Waiting
    <3>. QED
      BY <2>2, <3>1
  <2>. QED
    BY <2>1, <2>2
<1>. HIDE DEF y, kills
<1>5. Evolves(w, Killed(y(graceful), fails))
  <2>1. Evolves(y(graceful), Killed(y(graceful), fails))
    BY <1>4, KilledFits DEF Evolves
  <2>. QED
    BY <1>4, <2>1 DEF Evolves
<1>. QED
  BY <1>3, <1>4, <1>5 DEF Supervise

\* The branches of select: the supervisor is woken, or the root has exited.
LEMMA SelectFits ==
  ASSUME NativeInv, NEW n \in Created,
         SelectStop(n) \/ SelectShutdown(n) \/ SelectDeadline(n) \/ SelectExit(n)
  PROVE  \E y : Set(n, y) /\ Evolves(sessions[n], y)
<1>. DEFINE x == sessions[n]
<1>1. n \in Numbers /\ Fits(x) /\ x \in SessionRecords /\ PlaceFits(x) /\ StopFits(x)
  BY CreatedFits DEF Fits
<1>2. x.task = "select"
  BY DEF SelectStop, SelectShutdown, SelectDeadline, SelectExit
<1>3. CASE SelectStop(n)
  <2>1. Evolves(x, [x EXCEPT !.permit = FALSE, !.task = "head"])
    BY <1>1, <1>2 DEF Evolves, Fits, SessionRecords, PlaceFits, StopFits, Waiting
  <2>. QED
    BY <1>3, <2>1 DEF SelectStop, Supervise
<1>4. CASE SelectShutdown(n)
  <2>. DEFINE z == Terminated(x, "shutdown")
  <2>1. Evolves(x, z) /\ z.task = "select" /\ z.stop # "none"
    BY <1>1, <1>2, TerminatedFits DEF Reasons
  <2>. HIDE DEF z
  <2>2. Fits([z EXCEPT !.shutdownSeen = TRUE, !.task = "head"])
    BY <2>1 DEF Evolves, Fits, SessionRecords, PlaceFits, StopFits, Waiting
  <2>3. Evolves(x, [z EXCEPT !.shutdownSeen = TRUE, !.task = "head"])
    BY <2>1, <2>2 DEF Evolves, Fits, SessionRecords
  <2>. QED
    BY <1>4, <2>3 DEF SelectShutdown, Supervise, z
<1>5. CASE SelectDeadline(n)
  <2>1. Evolves(x, [x EXCEPT !.task = "head"])
    BY <1>1, <1>2 DEF Evolves, Fits, SessionRecords, PlaceFits, StopFits, Waiting
  <2>. QED
    BY <1>5, <2>1 DEF SelectDeadline, Supervise
<1>6. CASE SelectExit(n)
  <2>1. PICK fails \in BOOLEAN :
          Set(n, [x EXCEPT !.task = "exited", !.state = "stopping", !.failed = @ \/ fails])
    BY <1>6 DEF SelectExit, Supervise
  <2>2. ASSUME NEW failed \in BOOLEAN
        PROVE  Evolves(x, [x EXCEPT !.task = "exited", !.state = "stopping", !.failed = failed])
    BY <1>1, <1>2, <1>6
    DEF SelectExit, Evolves, Fits, SessionRecords, PlaceFits, StopFits, Waiting, States
  <2>3. (x.failed \/ fails) \in BOOLEAN
    OBVIOUS
  <2>. QED
    BY <2>1, <2>2, <2>3
<1>. QED
  BY <1>3, <1>4, <1>5, <1>6

\* The result is published after the group was swept, and tells whether that failed.
LEMMA FinalizeFits ==
  ASSUME NativeInv, NEW n \in Created, Finalize(n)
  PROVE  \E y : Set(n, y) /\ Evolves(sessions[n], y)
<1>. DEFINE x == sessions[n]
<1>1. n \in Numbers /\ Fits(x) /\ x \in SessionRecords /\ PlaceFits(x) /\ StopFits(x)
  BY CreatedFits DEF Fits
<1>2. x.task = "exited" /\ x.state # "finished" /\ x.root = "dead"
  BY <1>1 DEF Finalize, PlaceFits
<1>. DEFINE Told(y) == IF y.failed THEN "lost" ELSE IF ~y.stopping THEN "exited"
                       ELSE IF y.stop = "timeout" THEN "timed_out" ELSE "terminated"
<1>3. PICK fails \in BOOLEAN : Set(n, Finished(Killed(x, fails), Told(Killed(x, fails))))
  BY DEF Finalize, Supervise
<1>. DEFINE y == Killed(x, fails)
<1>4. /\ Evolves(x, y) /\ y.failed = (x.failed \/ fails) /\ y.group = (x.group /\ fails)
      /\ y.root = "dead" /\ y.state # "finished"
  BY <1>1, <1>2, KilledFits
<1>. HIDE DEF y
<1>5. Told(y) \in {"terminated", "start_failed", "lost", "exited", "timed_out"}
  OBVIOUS
<1>6. (y.root \in {"none", "dead"} /\ ~y.group) \/ Told(y) = "lost"
  BY <1>4
<1>7. StopFits(y) /\ y \in SessionRecords
  BY <1>4 DEF Evolves, Fits
<1>8. Told(y) = "timed_out" => y.first = "timeout"
  BY <1>7 DEF StopFits
<1>9. Told(y) = "terminated" => y.doomed \/ y.first \in {"explicit", "shutdown"}
  BY <1>7 DEF StopFits, SessionRecords, Reasons
<1>. HIDE DEF Told
<1>10. Evolves(y, Finished(y, Told(y)))
  BY <1>4, <1>5, <1>6, <1>8, <1>9, FinishedFits DEF Evolves
<1>11. Evolves(x, Finished(y, Told(y)))
  BY <1>4, <1>10, <1>2 DEF Evolves
<1>. QED
  BY <1>3, <1>11 DEF y

\* Time, the timer of a run, retention and the processes.
LEMMA TimeFits ==
  ASSUME NativeInv, NEW n \in Created,
         Elapse(n) \/ TimeoutFires(n) \/ Age(n) \/ RootExits(n)
  PROVE  \E y : Set(n, y) /\ Evolves(sessions[n], y)
<1>. DEFINE x == sessions[n]
<1>1. n \in Numbers /\ Fits(x) /\ x \in SessionRecords /\ PlaceFits(x) /\ StopFits(x)
  BY CreatedFits DEF Fits
<1>2. CASE Elapse(n)
  <2>1. Evolves(x, [x EXCEPT !.due = TRUE])
    BY <1>1 DEF Evolves, Fits, SessionRecords, PlaceFits, StopFits, Waiting
  <2>. QED
    BY <1>2, <2>1 DEF Elapse, Supervise
<1>3. CASE TimeoutFires(n)
  <2>. DEFINE z == IF Live(n) THEN Terminated(x, "timeout") ELSE x
  <2>1. Evolves(x, z)
    BY <1>1, TerminatedFits, StaysFit DEF Reasons
  <2>. HIDE DEF z
  <2>2. Fits([z EXCEPT !.timer = FALSE])
    <3>1. z \in SessionRecords /\ PlaceFits(z) /\ StopFits(z)
      BY <2>1 DEF Evolves, Fits
    <3>2. [z EXCEPT !.timer = FALSE] \in SessionRecords
      BY <3>1 DEF SessionRecords
    <3>3. PlaceFits([z EXCEPT !.timer = FALSE])
      BY <3>1 DEF SessionRecords, PlaceFits
    <3>4. StopFits([z EXCEPT !.timer = FALSE])
      BY <3>1 DEF SessionRecords, StopFits
    <3>. QED
      BY <3>2, <3>3, <3>4 DEF Fits
  <2>3. Evolves(x, [z EXCEPT !.timer = FALSE])
    BY <2>1, <2>2 DEF Evolves, Fits, SessionRecords
  <2>. QED
    BY <1>3, <2>3 DEF TimeoutFires, Supervise, z
<1>4. CASE Age(n)
  <2>1. Evolves(x, [x EXCEPT !.aged = TRUE])
    BY <1>1, <1>4 DEF Age, Live, Evolves, Fits, SessionRecords, PlaceFits, StopFits
  <2>. QED
    BY <1>4, <2>1 DEF Age, Supervise
<1>5. CASE RootExits(n)
  <2>1. Evolves(x, [x EXCEPT !.root = "dead"])
    BY <1>1, <1>5 DEF RootExits, Evolves, Fits, SessionRecords, PlaceFits, StopFits
  <2>. QED
    BY <1>5, <2>1 DEF RootExits, Supervise
<1>. QED
  BY <1>2, <1>3, <1>4, <1>5

-----------------------------------------------------------------------------
(* The registry *)

\* The sessions of a state are finitely many.
LEMMA CreatedFinite ==
  ASSUME NativeInv
  PROVE  IsFiniteSet(Created) /\ \A S \in SUBSET Created : IsFiniteSet(S) /\ Cardinality(S) \in Nat
<1>1. next \in Int /\ 1 \in Int /\ next - 1 \in Int
  BY DEF NativeInv, SessionsInv
<1>2. IsFiniteSet(1 .. (next - 1))
  BY <1>1, FS_Interval
<1>3. IsFiniteSet(Created)
  BY <1>2 DEF Created
<1>. QED
  BY <1>3, FS_Subset, FS_CardinalityType

\* What cleanup keeps: everything live, and the two maps in step.
LEMMA CleanupKeeps ==
  ASSUME NativeInv
  PROVE  /\ Kept \subseteq entries
         /\ KeptIndex \in [Keys -> Nat]
         /\ \A n \in Created : Live(n) => n \in Kept
         /\ \A key \in Keys : KeptIndex[key] # 0 =>
              KeptIndex[key] \in Kept /\ sessions[KeptIndex[key]].key = key
         /\ \A n \in Kept : sessions[n].key \in Keys /\ KeptIndex[sessions[n].key] = n
<1>1. Kept \subseteq entries
  BY DEF Kept
<1>2. KeptIndex \in [Keys -> Nat]
  BY DEF NativeInv, RegistryInv, KeptIndex
<1>3. \A n \in Created : Live(n) => n \in Kept
  BY DEF NativeInv, SessionsInv, RegistryInv, Fits, PlaceFits, Live, Kept, Expired
<1>4. \A key \in Keys : KeptIndex[key] # 0 =>
        KeptIndex[key] \in Kept /\ sessions[KeptIndex[key]].key = key
  BY DEF NativeInv, RegistryInv, Kept, KeptIndex
<1>5. ASSUME NEW n \in Kept
      PROVE  sessions[n].key \in Keys /\ KeptIndex[sessions[n].key] = n
  <2>1. n \in entries /\ n \notin Expired /\ n \in Created
    BY DEF Kept, NativeInv, RegistryInv
  <2>2. sessions[n].key \in Keys
    BY <2>1, CreatedFits DEF SessionRecords
  <2>3. index[sessions[n].key] = n
    BY <2>1 DEF NativeInv, RegistryInv
  <2>. QED
    BY <2>1, <2>2, <2>3 DEF KeptIndex
<1>. QED
  BY <1>1, <1>2, <1>3, <1>4, <1>5

\* Steps in which sessions evolve and the registry is left alone or cleaned up.
LEMMA EvolutionKeeps ==
  ASSUME NativeInv, next' = next,
         sessions' \in [Numbers -> SessionRecords \cup {Unused}],
         \A n \in Created : Evolves(sessions[n], sessions'[n]),
         \/ entries' = entries /\ index' = index
         \/ entries' = Kept /\ index' = KeptIndex
  PROVE  /\ SessionsInv' /\ RegistryInv'
         /\ Created' = Created
         /\ \A n \in Created : Live(n)' => Live(n)
<1>1. Created' = Created
  BY DEF Created
<1>2. SessionsInv'
  BY <1>1 DEF NativeInv, SessionsInv, Evolves
<1>3. \A n \in Created : Live(n)' => Live(n)
  BY DEF Live, Evolves
<1>4. \A n \in Created : sessions'[n].key = sessions[n].key
  BY DEF Evolves
<1>5. Cardinality({n \in Created : Live(n)'}) <= MaxActive
  <2>1. {n \in Created : Live(n)'} \subseteq {n \in Created : Live(n)}
    BY <1>3
  <2>2. IsFiniteSet({n \in Created : Live(n)})
    BY CreatedFinite
  <2>3. Cardinality({n \in Created : Live(n)'}) <= Cardinality({n \in Created : Live(n)})
    BY <2>1, <2>2, FS_Subset
  <2>4. /\ Cardinality({n \in Created : Live(n)'}) \in Nat
        /\ Cardinality({n \in Created : Live(n)}) \in Nat
    BY CreatedFinite
  <2>. QED
    BY <2>3, <2>4, NativeAssumption DEF NativeInv, RegistryInv
<1>6. {n \in Created' : Live(n)'} = {n \in Created : Live(n)'}
  BY <1>1
<1>7. CASE entries' = entries /\ index' = index
  <2>1. entries' \subseteq Created' /\ index' \in [Keys -> Nat]
    BY <1>1, <1>7 DEF NativeInv, RegistryInv
  <2>2. \A n \in Created' : Live(n)' => n \in entries'
    BY <1>1, <1>3, <1>7 DEF NativeInv, RegistryInv
  <2>3. \A key \in Keys : index'[key] # 0 =>
          index'[key] \in entries' /\ sessions'[index'[key]].key = key
    BY <1>4, <1>7 DEF NativeInv, RegistryInv
  <2>4. \A n \in entries' : index'[sessions'[n].key] = n
    BY <1>4, <1>7 DEF NativeInv, RegistryInv
  <2>. QED
    BY <1>1, <1>2, <1>3, <1>5, <1>6, <2>1, <2>2, <2>3, <2>4 DEF RegistryInv
<1>8. CASE entries' = Kept /\ index' = KeptIndex
  <2>1. entries' \subseteq Created' /\ index' \in [Keys -> Nat]
    BY <1>1, <1>8, CleanupKeeps DEF NativeInv, RegistryInv
  <2>2. \A n \in Created' : Live(n)' => n \in entries'
    BY <1>1, <1>3, <1>8, CleanupKeeps
  <2>3. \A key \in Keys : index'[key] # 0 =>
          index'[key] \in entries' /\ sessions'[index'[key]].key = key
    BY <1>1, <1>4, <1>8, <2>1, CleanupKeeps
  <2>4. \A n \in entries' : index'[sessions'[n].key] = n
    BY <1>1, <1>4, <1>8, <2>1, CleanupKeeps
  <2>. QED
    BY <1>1, <1>2, <1>3, <1>5, <1>6, <2>1, <2>2, <2>3, <2>4 DEF RegistryInv
<1>. QED
  BY <1>7, <1>8

\* The step of one session, as an evolution of all.
LEMMA OneEvolves ==
  ASSUME NativeInv, NEW n \in Created, NEW y, Set(n, y), Evolves(sessions[n], y)
  PROVE  /\ sessions' \in [Numbers -> SessionRecords \cup {Unused}]
         /\ \A m \in Created : Evolves(sessions[m], sessions'[m])
<1>1. sessions \in [Numbers -> SessionRecords \cup {Unused}] /\ Created \subseteq Numbers
  BY CreatedFits DEF NativeInv, SessionsInv
<1>2. y \in SessionRecords
  BY DEF Evolves, Fits
<1>3. \A m \in Created : sessions'[m] = IF m = n THEN y ELSE sessions[m]
  BY <1>1 DEF Set
<1>4. \A m \in Created : Evolves(sessions[m], sessions[m])
  BY CreatedFits, StaysFit
<1>. QED
  BY <1>1, <1>2, <1>3, <1>4 DEF Set

\* A new session is registered under an ID that has no entry, and only with room for it.
LEMMA RegisterKeeps ==
  ASSUME NativeInv, NEW key \in Keys, NEW args \in Args,
         NEW task \in {"launch", "spawn", "cancelled"}, Admits(key), Register(key, args, task)
  PROVE  /\ SessionsInv' /\ RegistryInv'
         /\ Created' = Created \cup {next}
<1>. DEFINE x == NewSession(key, args, task)
<1>1. next \in Nat \ {0} /\ next \in Numbers /\ next \notin Created /\ Created \subseteq Numbers
  BY CreatedFits DEF NativeInv, SessionsInv, Admits, Numbers, Created
<1>2. Created' = Created \cup {next}
  BY <1>1 DEF Register, Created
<1>3. Fits(x) /\ x.key = key /\ x.state # "finished"
  <2>1. (task = "cancelled") \in BOOLEAN
    OBVIOUS
  <2>2. x.key = key /\ x.state # "finished" /\ PlaceFits(x) /\ StopFits(x)
    BY DEF NewSession, PlaceFits, StopFits, Waiting
  <2>3. ASSUME NEW b \in BOOLEAN
        PROVE  [key |-> key, args |-> args, state |-> "starting", task |-> task,
                stop |-> "none", due |-> FALSE, timer |-> FALSE, permit |-> FALSE,
                stopping |-> FALSE, killed |-> FALSE, shutdownSeen |-> FALSE, failed |-> FALSE,
                root |-> "none", group |-> FALSE, result |-> "none", aged |-> FALSE,
                first |-> "none", doomed |-> b] \in SessionRecords
    BY DEF SessionRecords, States, Waiting
  <2>. QED
    BY <2>1, <2>2, <2>3 DEF NewSession, Fits
<1>. HIDE DEF x
<1>4. sessions' \in [Numbers -> SessionRecords \cup {Unused}]
  BY <1>3 DEF Register, NativeInv, SessionsInv, Fits, x
<1>5. sessions'[next] = x /\ \A n \in Created : sessions'[n] = sessions[n]
  BY <1>1 DEF Register, NativeInv, SessionsInv, x
<1>6. SessionsInv'
  <2>1. next' \in Nat \ {0} /\ next' <= MaxExecutions + 1
    BY <1>1, NativeAssumption DEF Register, Admits
  <2>2. \A n \in Created' : Fits(sessions'[n])
    BY <1>2, <1>3, <1>5, CreatedFits
  <2>. QED
    BY <1>4, <2>1, <2>2 DEF SessionsInv
<1>7. Cardinality({n \in Created : Live(n)'} \cup {next}) <= MaxActive
  <2>1. {n \in Created : Live(n)'} = {n \in Kept : Live(n)}
    BY <1>5, CleanupKeeps DEF Live, NativeInv, RegistryInv
  <2>2. Cardinality({n \in Kept : Live(n)}) < MaxActive
    BY DEF Admits, Room
  <2>3. IsFiniteSet({n \in Created : Live(n)'}) /\ Cardinality({n \in Created : Live(n)'}) \in Nat
    BY CreatedFinite
  <2>4. Cardinality({n \in Created : Live(n)'} \cup {next})
          = Cardinality({n \in Created : Live(n)'}) + 1
    BY <1>1, <2>3, FS_AddElement
  <2>. QED
    BY <2>1, <2>2, <2>3, <2>4, NativeAssumption
<1>8. {n \in Created' : Live(n)'} = {n \in Created : Live(n)'} \cup {next}
  BY <1>2, <1>3, <1>5 DEF Live
<1>9. entries' = Kept \cup {next} /\ index' = [KeptIndex EXCEPT ![key] = next]
  BY DEF Register
<1>10. entries' \subseteq Created' /\ index' \in [Keys -> Nat]
  BY <1>1, <1>2, <1>9, CleanupKeeps DEF NativeInv, RegistryInv
<1>11. \A n \in Created' : Live(n)' => n \in entries'
  BY <1>2, <1>5, <1>9, CleanupKeeps DEF Live
<1>12. Kept \subseteq Created /\ KeptIndex \in [Keys -> Nat]
  BY CleanupKeeps DEF NativeInv, RegistryInv
<1>13. \A k \in Keys : index'[k] # 0 => index'[k] \in entries' /\ sessions'[index'[k]].key = k
  <2>1. TAKE k \in Keys
  <2>2. CASE k = key
    BY <1>3, <1>5, <1>9, <1>12, <2>2
  <2>3. CASE k # key
    BY <1>5, <1>9, <1>12, <2>3, CleanupKeeps
  <2>. QED
    BY <2>2, <2>3
<1>14. \A n \in entries' : index'[sessions'[n].key] = n
  <2>1. TAKE n \in entries'
  <2>2. CASE n = next
    BY <1>3, <1>5, <1>9, <1>12, <2>2
  <2>3. CASE n \in Kept
    <3>1. sessions[n].key # key
      BY <1>1, <1>12, <2>3, CleanupKeeps DEF Admits, Created
    <3>. QED
      BY <1>5, <1>9, <1>12, <2>3, <3>1, CleanupKeeps
  <2>. QED
    BY <1>9, <2>2, <2>3
<1>. QED
  BY <1>2, <1>6, <1>7, <1>8, <1>10, <1>11, <1>13, <1>14 DEF RegistryInv

-----------------------------------------------------------------------------
(* The invariant is inductive *)

\* Shutdown keeps knowing what is live while no session is created or comes back.
LEMMA ShutdownKeeps ==
  ASSUME NativeInv, shut' = shut, Created' = Created, \A n \in Created : Live(n)' => Live(n)
  PROVE  ShutdownInv'
  BY DEF NativeInv, ShutdownInv

\* Nothing is created or live at first.
LEMMA NativeInitInv == Init => NativeInv
<1>. SUFFICES ASSUME Init PROVE NativeInv
  OBVIOUS
<1>1. Created = {}
  BY DEF Init, Created
<1>2. SessionsInv
  BY <1>1, NativeAssumption DEF Init, SessionsInv
<1>3. {n \in Created : Live(n)} = {}
  BY <1>1
<1>4. Cardinality({n \in Created : Live(n)}) <= MaxActive
  BY <1>3, FS_EmptySet, NativeAssumption
<1>5. RegistryInv
  BY <1>1, <1>4 DEF Init, RegistryInv
<1>. QED
  BY <1>1, <1>2, <1>5 DEF Init, NativeInv, ShutdownInv, PendingInv

\* A new start or run is admitted.
LEMMA AdmissionInv ==
  ASSUME NativeInv, NEW id \in Ids, NEW args \in Args, Start(id, args) \/ Run(id, args)
  PROVE  NativeInv'
<1>1. KeptPending \in [Ids -> {"none", "fresh", "aged"}]
  BY DEF NativeInv, PendingInv, KeptPending
<1>2. PendingInv'
  BY <1>1 DEF Start, Run, PendingInv
<1>3. PICK key \in Keys, task \in {"launch", "spawn", "cancelled"} :
        Admits(key) /\ Register(key, args, task)
  BY DEF Start, Run, Keys, Kinds
<1>4. SessionsInv' /\ RegistryInv' /\ Created' = Created \cup {next}
  BY <1>3, RegisterKeeps
<1>5. ShutdownInv'
  BY <1>3, <1>4 DEF Start, Run, Admits, NativeInv, ShutdownInv
<1>. QED
  BY <1>2, <1>4, <1>5 DEF NativeInv

\* A step of one session that leaves the registry alone or cleans it up.
LEMMA SessionStepInv ==
  ASSUME NativeInv, NEW n \in Created, \E y : Set(n, y) /\ Evolves(sessions[n], y),
         next' = next, shut' = shut, PendingInv',
         \/ entries' = entries /\ index' = index
         \/ entries' = Kept /\ index' = KeptIndex
  PROVE  NativeInv'
<1>1. PICK y : Set(n, y) /\ Evolves(sessions[n], y)
  OBVIOUS
<1>2. /\ sessions' \in [Numbers -> SessionRecords \cup {Unused}]
      /\ \A m \in Created : Evolves(sessions[m], sessions'[m])
  BY <1>1, OneEvolves
<1>3. /\ SessionsInv' /\ RegistryInv' /\ Created' = Created
      /\ \A m \in Created : Live(m)' => Live(m)
  BY <1>2, EvolutionKeeps
<1>. QED
  BY <1>3, ShutdownKeeps DEF NativeInv

\* The task of a session, time and the processes.
LEMMA TaskInv ==
  ASSUME NativeInv, NEW n \in Numbers,
         Task(n) \/ Elapse(n) \/ TimeoutFires(n) \/ Age(n) \/ RootExits(n)
  PROVE  NativeInv'
<1>1. n \in Created /\ \E y : Set(n, y) /\ Evolves(sessions[n], y)
  <2>1. CASE Spawn(n) \/ Launch(n) \/ LaunchFails(n)
    BY <2>1, LaunchingFits DEF Spawn, Launch, LaunchFails
  <2>2. CASE Head(n)
    <3>1. n \in Created
      BY <2>2 DEF Head
    <3>. QED
      BY <2>2, <3>1, HeadFits
  <2>3. CASE SelectStop(n) \/ SelectShutdown(n) \/ SelectDeadline(n) \/ SelectExit(n)
    <3>1. n \in Created
      BY <2>3 DEF SelectStop, SelectShutdown, SelectDeadline, SelectExit
    <3>. QED
      BY <2>3, <3>1, SelectFits
  <2>4. CASE Finalize(n)
    <3>1. n \in Created
      BY <2>4 DEF Finalize
    <3>. QED
      BY <2>4, <3>1, FinalizeFits
  <2>5. CASE Elapse(n) \/ TimeoutFires(n) \/ Age(n) \/ RootExits(n)
    <3>1. n \in Created
      BY <2>5 DEF Elapse, TimeoutFires, Age, RootExits
    <3>. QED
      BY <2>5, <3>1, TimeFits
  <2>. QED
    BY <2>1, <2>2, <2>3, <2>4, <2>5 DEF Task
<1>2. UNCHANGED <<next, entries, index, pending, shut>>
  BY DEF Task, Spawn, Launch, LaunchFails, Head, SelectStop, SelectShutdown, SelectDeadline,
         SelectExit, Finalize, Elapse, TimeoutFires, Age, RootExits, Supervise, registry
<1>3. PendingInv'
  BY <1>2 DEF NativeInv, PendingInv
<1>. QED
  BY <1>1, <1>2, <1>3, SessionStepInv

\* terminate_run and terminate_execution.
LEMMA TerminationInv ==
  ASSUME NativeInv,
         \/ \E id \in Ids : TerminateRun(id) \/ TerminateLookup(id) \/ TerminatePend(id)
                              \/ AgePending(id)
         \/ \E n \in Numbers : TerminateExecution(n)
         \/ LockedCleanup
  PROVE  NativeInv'
<1>1. KeptPending \in [Ids -> {"none", "fresh", "aged"}]
  BY DEF NativeInv, PendingInv, KeptPending
<1>2. ASSUME sessions' = sessions, next' = next, shut' = shut, PendingInv',
             \/ entries' = entries /\ index' = index
             \/ entries' = Kept /\ index' = KeptIndex
      PROVE  NativeInv'
  <2>1. \A n \in Created : Evolves(sessions[n], sessions'[n])
    BY <1>2, CreatedFits, StaysFit
  <2>2. sessions' \in [Numbers -> SessionRecords \cup {Unused}]
    BY <1>2 DEF NativeInv, SessionsInv
  <2>3. /\ SessionsInv' /\ RegistryInv' /\ Created' = Created
        /\ \A m \in Created : Live(m)' => Live(m)
    BY <1>2, <2>1, <2>2, EvolutionKeeps
  <2>. QED
    BY <1>2, <2>3, ShutdownKeeps DEF NativeInv
<1>3. ASSUME NEW n \in Created, Cleanup, Set(n, Terminated(sessions[n], "explicit")),
             UNCHANGED <<next, shut>>
      PROVE  NativeInv'
  <2>1. Evolves(sessions[n], Terminated(sessions[n], "explicit"))
    BY CreatedFits, TerminatedFits DEF Reasons
  <2>2. PendingInv'
    BY <1>1, <1>3 DEF Cleanup, PendingInv
  <2>. QED
    BY <1>3, <2>1, <2>2, SessionStepInv DEF Cleanup
<1>4. ASSUME NEW id \in Ids, TerminateRun(id)
      PROVE  NativeInv'
  <2>1. <<"run", id>> \in Keys
    BY DEF Keys, Kinds
  <2>2. KeptIndex[<<"run", id>>] \in Created
    BY <1>4, <2>1, CleanupKeeps DEF TerminateRun, NativeInv, RegistryInv
  <2>. QED
    BY <1>3, <1>4, <2>2 DEF TerminateRun
<1>5. ASSUME NEW n \in Numbers, TerminateExecution(n)
      PROVE  NativeInv'
  <2>1. n \in Created
    BY <1>5, CleanupKeeps DEF TerminateExecution, NativeInv, RegistryInv
  <2>. QED
    BY <1>3, <1>5, <2>1 DEF TerminateExecution
<1>6. ASSUME NEW id \in Ids, TerminateLookup(id)
      PROVE  NativeInv'
  BY <1>1, <1>2, <1>6 DEF TerminateLookup, Cleanup, PendingInv
<1>7. ASSUME NEW id \in Ids, TerminatePend(id) \/ AgePending(id)
      PROVE  NativeInv'
  <2>1. PendingInv'
    BY <1>7 DEF TerminatePend, AgePending, NativeInv, PendingInv
  <2>. QED
    BY <1>2, <1>7, <2>1 DEF TerminatePend, AgePending
<1>8. ASSUME LockedCleanup
      PROVE  NativeInv'
  BY <1>1, <1>2, <1>8 DEF LockedCleanup, Cleanup, PendingInv
<1>. QED
  BY <1>4, <1>5, <1>6, <1>7, <1>8

\* Shutdown, and the drop of the last handle.
LEMMA ShuttingInv ==
  ASSUME NativeInv, Shutdown \/ DropCore
  PROVE  NativeInv'
<1>1. ASSUME NEW n \in Numbers, ShutdownStop(n)
      PROVE  NativeInv'
  <2>1. n \in Created
    BY <1>1 DEF ShutdownStop, NativeInv, ShutdownInv
  <2>2. Evolves(sessions[n], Terminated(sessions[n], "shutdown"))
    BY <2>1, CreatedFits, TerminatedFits DEF Reasons
  <2>3. Set(n, Terminated(sessions[n], "shutdown")) /\ next' = next
        /\ entries' = entries /\ index' = index /\ pending' = pending
        /\ shut' = [shut EXCEPT !.stop = @ \ {n}]
    BY <1>1 DEF ShutdownStop, registry
  <2>4. /\ sessions' \in [Numbers -> SessionRecords \cup {Unused}]
        /\ \A m \in Created : Evolves(sessions[m], sessions'[m])
    BY <2>1, <2>2, <2>3, OneEvolves
  <2>5. /\ SessionsInv' /\ RegistryInv' /\ Created' = Created
        /\ \A m \in Created : Live(m)' => Live(m)
    BY <2>3, <2>4, EvolutionKeeps
  <2>6. ShutdownInv'
    BY <2>3, <2>5 DEF NativeInv, ShutdownInv
  <2>. QED
    BY <2>3, <2>5, <2>6 DEF NativeInv, PendingInv
<1>2. CASE ShutdownBegin \/ ShutdownCancel \/ ShutdownReturn \/ DropCore
  <2>1. UNCHANGED <<sessions, next, entries, index, pending>>
    BY <1>2 DEF ShutdownBegin, ShutdownCancel, ShutdownReturn, DropCore, registry
  <2>2. SessionsInv' /\ RegistryInv' /\ PendingInv'
    BY <2>1 DEF NativeInv, SessionsInv, RegistryInv, PendingInv, Created, Live
  <2>3. Created' = Created /\ \A n \in Created : Live(n)' = Live(n)
    BY <2>1 DEF Created, Live
  <2>4. ShutdownInv'
    <3>1. CASE ShutdownBegin
      BY <2>3, <3>1 DEF ShutdownBegin, NativeInv, ShutdownInv, RegistryInv
    <3>2. CASE ShutdownCancel \/ DropCore
      BY <2>3, <3>2 DEF ShutdownCancel, DropCore, NativeInv, ShutdownInv
    <3>3. CASE ShutdownReturn
      BY <2>3, <3>3 DEF ShutdownReturn, NativeInv, ShutdownInv
    <3>. QED
      BY <1>2, <3>1, <3>2, <3>3
  <2>. QED
    BY <2>2, <2>4 DEF NativeInv
<1>. QED
  BY <1>1, <1>2 DEF Shutdown

\* Every step keeps the invariant.
LEMMA NativeNextInv == NativeInv /\ [Next]_vars => NativeInv'
<1>. SUFFICES ASSUME NativeInv, [Next]_vars PROVE NativeInv'
  OBVIOUS
<1>1. CASE UNCHANGED vars
  BY <1>1 DEF vars, registry, NativeInv, SessionsInv, RegistryInv, ShutdownInv, PendingInv,
              Created, Live
<1>2. CASE \E id \in Ids, args \in Args : Start(id, args) \/ Run(id, args)
  BY <1>2, AdmissionInv
<1>3. CASE \E n \in Numbers : Task(n) \/ RootExits(n) \/ Elapse(n) \/ TimeoutFires(n) \/ Age(n)
  BY <1>3, TaskInv
<1>4. CASE \/ \E id \in Ids : TerminateRun(id) \/ TerminateLookup(id) \/ TerminatePend(id)
                                \/ AgePending(id)
           \/ \E n \in Numbers : TerminateExecution(n)
           \/ LockedCleanup
  BY <1>4, TerminationInv
<1>5. CASE Shutdown \/ DropCore
  BY <1>5, ShuttingInv
<1>. QED
  BY <1>1, <1>2, <1>3, <1>4, <1>5 DEF Next

-----------------------------------------------------------------------------
(* The theorems *)

\* The invariant holds in every state.
LEMMA NativeAlways == Spec => []NativeInv
  BY NativeInitInv, NativeNextInv, PTL DEF Spec

\* Whatever is live is in the registry, within its limit and under its ID, the registry's
\* two maps agree (a lookup of registry.starts or registry.runs never names an entry that
\* cleanup removed), and when shutdown has returned nothing runs.
THEOREM NativeWorkIsOwned == Spec => []WorkIsOwned
<1>1. NativeInv => WorkIsOwned
  BY DEF NativeInv, RegistryInv, ShutdownInv, WorkIsOwned, LiveWorkIsOwned, ShutdownIsComplete
<1>. QED
  BY <1>1, NativeAlways, PTL

\* No supervisor sleeps on a stop it has not acted upon, and a result of terminate, the
\* timer or shutdown names the first of them that session.terminate recorded.
THEOREM NativeStopsAreTold == Spec => []StopsAreTold
<1>1. NativeInv => StopsAreTold
  BY DEF NativeInv, SessionsInv, Fits, StopFits, StopsAreTold, OutcomeTellsFirstCause, StopIsNoticed
<1>. QED
  BY <1>1, NativeAlways, PTL

\* A finished execution has left no process behind, or its result is "lost": the kill of
\* the group that run sends after the root's exit is never skipped unseen.
THEOREM NativeFinishesClean == Spec => []FinishedIsClean
<1>1. NativeInv => FinishedIsClean
  BY DEF NativeInv, SessionsInv, Fits, PlaceFits, FinishedIsClean
<1>. QED
  BY <1>1, NativeAlways, PTL
=============================================================================
