--------------------------- MODULE ExecutionOutput ---------------------------
(***************************************************************************)
(* The output of one execution: what its process writes, the reader task   *)
(* that captures it (native/session.rs, read_output), the bounded journal  *)
(* that clients read with cursors (native/journal.rs), the output file of  *)
(* a run with its preview (OutputSpool), the drain at the end, and a       *)
(* caller that waits for the end (wait_finished).                          *)
(*                                                                         *)
(* A byte is its position in the output.  The stream tag of a chunk rides  *)
(* with it and is left out, and one reader stands for the readers of the   *)
(* streams: the journal has the order of capture.  What happens under the  *)
(* session's lock is one action; the process, and processes that escaped   *)
(* from its group with an inherited handle, are external.                  *)
(***************************************************************************)
EXTENDS Integers, Sequences, SequencesExt

CONSTANTS
  Clients,       \* readers with a cursor of their own
  Capacity,      \* limits.max_retained_output_bytes
  TailCapacity,  \* limits.max_output_bytes_per_response
  ChunkSize,     \* the most one read returns
  MaxOutput      \* bound on the bytes written

\* What the constants are: an assumption of every instance.
OutputAssumption ==
  /\ Capacity \in Nat
  /\ {TailCapacity, ChunkSize, MaxOutput} \subseteq Nat \ {0}

VARIABLES
  written,     \* bytes the process has written
  holder,      \* who can still write: the process group, an escaped process, nobody
  phase,       \* running, exited, draining, finished
  reader,      \* the task read_output
  journal,     \* chunks, start, end and revision of the journal
  spool,       \* the output file and the tail kept for the preview
  incomplete,  \* execution.output_incomplete
  clients,     \* cursor and observations of each client
  waiter,      \* wait_finished
  notified     \* the waiter's Notified was woken since it was enabled

process == <<written, holder>>
outputVars == <<process, phase, reader, journal, spool, incomplete, clients, waiter, notified>>

-----------------------------------------------------------------------------
(* Chunks *)

Lesser(a, b)  == IF a < b THEN a ELSE b
Greater(a, b) == IF a > b THEN a ELSE b

\* The bytes after position a, up to position b.
Bytes(a, b) == [i \in 1 .. Greater(0, b - a) |-> a + i]

Size(chunks) == Len(FlattenSeq(chunks))

\* Bytes in the chunks before chunk i.
Before(chunks, i) == Size(SubSeq(chunks, 1, i - 1))

\* What of a chunk lies after position `from` and up to position `to`, when there are
\* `before` bytes before it.
Piece(chunk, before, from, to) ==
  SubSeq(chunk, 1 + Greater(0, from - before), Lesser(Len(chunk), to - before))

Cut(chunks, from, to) ==
  [i \in DOMAIN chunks |-> Piece(chunks[i], Before(chunks, i), from, to)]

\* Chunks that have become empty are popped from the front.
Popped(chunks) ==
  LET filled == {i \in DOMAIN chunks : chunks[i] # <<>>}
      first  == CHOOSE i \in filled : \A k \in filled : i <= k
  IN  IF filled = {} THEN <<>> ELSE SubSeq(chunks, first, Len(chunks))

\* The loops that drop bytes from the front.
Discard(chunks, count) == Popped(Cut(chunks, count, Size(chunks)))

-----------------------------------------------------------------------------
(* Journal *)

\* Journal::append
Appended(j, data) ==
  LET end    == j.end + Len(data)
      target == Greater(0, end - Capacity)
  IN  [j EXCEPT !.chunks = Discard(Append(@, data), Greater(0, target - j.start)),
                !.start  = Greater(@, target),
                !.end    = end]

NoCursor == [offset |-> -1, revision |-> -1]

\* Variant: the end is reported without regard to the limit.
ReadFinishedFirst(cursor, limit) ==
  LET requested == Greater(0, cursor.offset)
      begin == Greater(requested, journal.start)
      end   == Lesser(journal.end, begin + limit)
  IN  [output |-> Bytes(begin, end), next |-> [offset |-> end, revision |-> journal.revision],
       more |-> end < journal.end, gap |-> requested < journal.start,
       reason |-> IF phase = "finished" THEN "finished"
                  ELSE IF end - begin >= limit THEN "limit" ELSE "elapsed"]

\* Journal::read, chunk by chunk.
Read(cursor, limit) ==
  LET requested == Greater(0, cursor.offset)
      begin == Greater(requested, journal.start)
      end   == Lesser(journal.end, begin + limit)
      output  == FlattenSeq(Cut(journal.chunks, begin - journal.start, end - journal.start))
      gap     == requested < journal.start
  IN  [output |-> output,
       next   |-> [offset |-> end, revision |-> journal.revision],
       more   |-> end < journal.end,
       gap    |-> gap,
       reason |-> IF end - begin >= limit THEN "limit"
                  ELSE IF phase = "finished" THEN "finished"
                  ELSE IF output # <<>> \/ gap \/ cursor.revision < journal.revision
                       THEN "activity" ELSE "elapsed"]

-----------------------------------------------------------------------------
(* Output file of a run *)

\* append_tail
Tailed(tail, data) ==
  LET chunks == Append(tail, data)
  IN  Discard(chunks, Greater(0, Size(chunks) - TailCapacity))

\* append: after `count` bytes the file fails, unless all were written.
Spooled(s, data, count) ==
  [s EXCEPT !.captured = @ + Len(data),
            !.tail  = Tailed(@, data),
            !.size  = IF s.file THEN @ + count ELSE @,
            !.error = @ \/ (s.file /\ count < Len(data)),
            !.file  = @ /\ count = Len(data)]

\* preview
Preview(limit) == FlattenSeq(Discard(spool.tail, Greater(0, Size(spool.tail) - limit)))

\* run_result
RunResult(limit) ==
  [preview   |-> Preview(limit),
   size      |-> spool.size,
   complete  |-> ~incomplete /\ ~spool.error,
   truncated |-> incomplete \/ spool.captured > Len(Preview(limit))]

-----------------------------------------------------------------------------
(* Notification *)

\* changed.notify_waiters(): wakes whoever has enabled its Notified.
Notify == notified' = (notified \/ waiter \in {"enabled", "checked", "parked"})

-----------------------------------------------------------------------------
(* The process *)

Write(count) ==
  /\ holder # "nobody"
  /\ written + count <= MaxOutput
  /\ written' = written + count
  /\ UNCHANGED <<holder, phase, reader, journal, spool, incomplete, clients, waiter, notified>>

\* An escaped process closes its handle.
Release ==
  /\ holder = "escaped"
  /\ holder' = "nobody"
  /\ UNCHANGED <<written, phase, reader, journal, spool, incomplete, clients, waiter, notified>>

-----------------------------------------------------------------------------
(* read_output *)

Captured == journal.end

\* A read returns `count` bytes; `saved` of them reach the output file.
ReadOutput(count, saved) ==
  LET data == Bytes(Captured, Captured + count)
  IN  /\ reader = "reading"
      /\ Captured + count <= written
      /\ journal' = Appended(journal, data)
      /\ spool' = Spooled(spool, data, saved)
      /\ incomplete' = (incomplete \/ spool'.error)
      /\ Notify
      /\ UNCHANGED <<process, phase, reader, clients, waiter>>

\* The last handle is closed and everything was read.
ReadEnds ==
  /\ reader = "reading"
  /\ holder = "nobody" /\ Captured = written
  /\ reader' = "ended"
  /\ UNCHANGED <<process, phase, journal, spool, incomplete, clients, waiter, notified>>

ReadFails ==
  /\ reader = "reading"
  /\ reader' = "failed"
  /\ UNCHANGED <<process, phase, journal, spool, incomplete, clients, waiter, notified>>

-----------------------------------------------------------------------------
(* run, from the exit of the root to the end *)

RootHasExited ==
  /\ phase = "running"
  /\ phase' = "exited"
  /\ journal' = [journal EXCEPT !.revision = @ + 1]
  /\ Notify
  /\ UNCHANGED <<process, reader, spool, incomplete, clients, waiter>>

\* The group is killed; a process that left it may still hold the output.
Sweep ==
  /\ phase = "exited"
  /\ phase' = "draining"
  /\ \E heir \in {"escaped", "nobody"} : holder' = heir
  /\ UNCHANGED <<written, reader, journal, spool, incomplete, clients, waiter, notified>>

\* output_drain_timeout passes and the reader is aborted.
DrainTimeout ==
  /\ phase = "draining" /\ reader = "reading"
  /\ reader' = "aborted"
  /\ incomplete' = TRUE
  /\ UNCHANGED <<process, phase, journal, spool, clients, waiter, notified>>

\* The reader is joined and the result published; the flush of the file may fail.
FinishOutput ==
  /\ phase = "draining" /\ reader # "reading"
  /\ phase' = "finished"
  /\ journal' = [journal EXCEPT !.revision = @ + 1]
  /\ \E fails \in BOOLEAN :
       /\ fails => spool.file
       /\ spool' = [spool EXCEPT !.file = FALSE, !.error = @ \/ fails]
  /\ incomplete' = (incomplete \/ reader = "failed" \/ spool'.error)
  /\ Notify
  /\ UNCHANGED <<process, reader, clients, waiter>>

-----------------------------------------------------------------------------
(* Clients *)

\* One call of observe_execution that goes on where the last one ended.  It
\* returns at once at a limit or at the end, and otherwise when its wait is over.
Observe(client, limit) ==
  LET seen == Read(clients[client].cursor, limit)
  IN  /\ ~clients[client].ended
      /\ clients' = [clients EXCEPT ![client] =
           [cursor |-> seen.next,
            got    |-> @.got \o seen.output,
            gapped |-> @.gapped \/ seen.gap,
            ended  |-> seen.reason = "finished"]]
      /\ UNCHANGED <<process, phase, reader, journal, spool, incomplete, waiter, notified>>

\* wait_finished: the Notified is enabled before the state is looked at.
WaitEnable ==
  /\ waiter = "loop"
  /\ waiter' = "enabled"
  /\ notified' = FALSE
  /\ UNCHANGED <<process, phase, reader, journal, spool, incomplete, clients>>

WaitCheck ==
  /\ waiter = "enabled"
  /\ waiter' = IF phase = "finished" THEN "returned" ELSE "checked"
  /\ UNCHANGED <<process, phase, reader, journal, spool, incomplete, clients, notified>>

WaitPark ==
  /\ waiter = "checked"
  /\ waiter' = "parked"
  /\ UNCHANGED <<process, phase, reader, journal, spool, incomplete, clients, notified>>

WaitWake ==
  /\ waiter = "parked" /\ notified
  /\ waiter' = "loop"
  /\ UNCHANGED <<process, phase, reader, journal, spool, incomplete, clients, notified>>

-----------------------------------------------------------------------------
(* Specification *)

OutputInit ==
  /\ written = 0
  /\ holder = "group"
  /\ phase = "running"
  /\ reader = "reading"
  /\ journal = [chunks |-> <<>>, start |-> 0, end |-> 0, revision |-> 0]
  /\ spool = [file |-> TRUE, size |-> 0, captured |-> 0, tail |-> <<>>, error |-> FALSE]
  /\ incomplete = FALSE
  /\ clients = [client \in Clients |->
                  [cursor |-> NoCursor, got |-> <<>>, gapped |-> FALSE, ended |-> FALSE]]
  /\ waiter = "loop"
  /\ notified = FALSE

Reader == ReadEnds \/ \E count \in 1 .. ChunkSize, saved \in 0 .. ChunkSize :
                        saved <= count /\ ReadOutput(count, saved)

Waiter == WaitEnable \/ WaitCheck \/ WaitPark \/ WaitWake

OutputNext ==
  \/ \E count \in 1 .. ChunkSize : Write(count)
  \/ Release \/ Reader \/ ReadFails
  \/ RootHasExited \/ Sweep \/ DrainTimeout \/ FinishOutput
  \/ \E client \in Clients, limit \in 1 .. TailCapacity : Observe(client, limit)
  \/ Waiter

OutputSpec == OutputInit /\ [][OutputNext]_outputVars

\* The supervisor runs, its drain deadline comes, and the waiting caller is polled.
\* Neither the process nor the reader owes anything.
OutputFairness ==
  /\ WF_outputVars(Sweep) /\ WF_outputVars(DrainTimeout) /\ WF_outputVars(FinishOutput)
  /\ WF_outputVars(Waiter)

OutputFairSpec == OutputSpec /\ OutputFairness

-----------------------------------------------------------------------------
(* Properties *)

\* The journal holds exactly the newest bytes that fit, in order, however the
\* output was cut into chunks.
JournalKeepsNewest ==
  /\ FlattenSeq(journal.chunks) = Bytes(journal.start, journal.end)
  /\ journal.start = Greater(0, journal.end - Capacity)

\* A client that goes from cursor to cursor gets every byte once and in order, and
\* is told when bytes expired before it came.
NoSilentGap ==
  \A client \in Clients :
    /\ ~clients[client].gapped => clients[client].got = Bytes(0, Len(clients[client].got))
    /\ \A i \in 1 .. Len(clients[client].got) - 1 :
         clients[client].got[i] < clients[client].got[i + 1]

\* What a client was told to be the end is the end: the last byte captured, now and
\* later, and unless the output is marked incomplete the last byte written.
EndIsTheEnd ==
  \A client \in Clients : clients[client].ended =>
    /\ clients[client].cursor.offset = Captured
    /\ ~incomplete => Captured = written

\* Whatever is observed through cursors, from chunks that expire while the process
\* writes on, escapes or ends, is the output, its gaps and its end.
ReadersAreTold == JournalKeepsNewest /\ NoSilentGap /\ EndIsTheEnd

\* The result of a run is honest: a file called complete holds every byte that was
\* written, and an output not called truncated is whole in the preview.
RunResultIsHonest ==
  phase = "finished" => \A limit \in 1 .. TailCapacity :
    LET result == RunResult(limit)
    IN  /\ result.complete => result.size = written
        /\ ~result.truncated => result.preview = Bytes(0, written)
        /\ result.preview = Bytes(Greater(0, Captured - limit), Captured)

\* What clients observe while it runs and what the result says at the end are true.
ObservationsAreHonest == ReadersAreTold /\ RunResultIsHonest

StreamEnded ==
  phase = "running" \/ (phase = "finished" /\ waiter = "returned")

\* An execution whose root has exited finishes, also when an escaped process keeps
\* the output open, and a caller waiting for the end returns once it has come: no
\* wake-up is lost.
StreamEnds == <>[]StreamEnded
=============================================================================
