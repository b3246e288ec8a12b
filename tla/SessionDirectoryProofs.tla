----------------------- MODULE SessionDirectoryProofs -----------------------
(***************************************************************************)
(* Proofs about SessionDirectory for any number of clients that create a   *)
(* session with one request ID, any contents, and any number of inputs,    *)
(* status changes and faults.                                              *)
(***************************************************************************)
EXTENDS SessionDirectory, SequenceTheorems, TLAPS

-----------------------------------------------------------------------------
(* The inductive invariant *)

Answers ==
  [verdict : {"created", "invalid", "conflict", "destroyed", "unsupported"},
   id : Nat \cup {None}]

Calls ==
  [pc : {"idle", "insert", "reread", "initialize", "ready", "fail", "told"},
   content : Contents, entry : Rows \cup {None}, duplicate : BOOLEAN,
   answer : Answers \cup {None}]

DirectoryTypes ==
  /\ row \in Rows \cup {None}
  /\ calls \in [Clients -> Calls]
  /\ fresh \in Nat
  /\ checked \in Nat
  /\ actual \in Statuses
  /\ queue \in Seq(Statuses)
  /\ ghost \in Statuses \cup {None}
  /\ missed \in BOOLEAN
  /\ retired \in BOOLEAN

\* The session IDs whose object is initialised are at most that of the row, its
\* content is the row's and valid, and a row that shows a status has its object.
ObjectsOfRow ==
  /\ \A id \in DOMAIN objects :
       row # None /\ row.id = id /\ row.content = objects[id] /\ objects[id] # "invalid"
  /\ row # None =>
       /\ row.status \in Statuses => row.id \in DOMAIN objects
       /\ row.status = "initialization_failed" => row.content = "invalid"

AtObject == {"initialize", "ready", "fail"}

\* What a call that reserved the row r may rely on, however long it was suspended.
Fits(call, r, made) ==
  /\ call.pc = "reread" => r # None
  /\ call.pc \in AtObject =>
       /\ r # None /\ call.entry \in Rows
       /\ call.entry.id = r.id
       /\ call.content = r.content
       /\ call.entry.status \notin {"destroyed", "initialization_failed"}
       /\ call.entry.status # "initializing" =>
            r.status \notin {"initializing", "initialization_failed"}
  /\ call.pc = "ready" => r.id \in made
  /\ call.pc = "fail" => call.content = "invalid"
  /\ call.pc = "told" =>
       /\ call.answer \in Answers
       /\ call.answer.verdict = "created" =>
            /\ r # None /\ call.answer.id = r.id /\ r.id \in made
            /\ call.content = r.content
            /\ r.status \notin {"initializing", "initialization_failed"}
       /\ call.answer.verdict = "invalid" =>
            r # None /\ r.status \in {"initialization_failed", "destroyed"}

CallsFit == \A c \in Clients : Fits(calls[c], row, DOMAIN objects)

\* The call whose INSERT made the row, on its way or told so.
MadeIt(call) ==
  /\ ~call.duplicate
  /\ call.pc \in AtObject \/ (call.pc = "told" /\ call.answer.verdict = "created")

OneMadeIt == \A c, d \in Clients : MadeIt(calls[c]) /\ MadeIt(calls[d]) => c = d

CreationInv == ObjectsOfRow /\ OneMadeIt /\ CallsFit

\* Nothing is shown before the row is ready; the last write queued is the last
\* status; a retired row stays.
DisplayInv ==
  /\ row = None \/ row.status \in {"initializing", "initialization_failed"} =>
       checked = 0 /\ queue = <<>> /\ ghost = None /\ actual = "idle"
  /\ checked > 0 => row # None /\ row.id \in DOMAIN objects
  /\ queue # <<>> => queue[Len(queue)] = actual
  /\ retired => row # None /\ row.status = "destroyed"
  /\ row # None /\ row.status \notin Frozen /\ queue = <<>> /\ ~missed => row.status = actual

DirectoryInv == DirectoryTypes /\ CreationInv /\ DisplayInv

-----------------------------------------------------------------------------
(* What the row may do, and what a call makes of it *)

\* A reservation keeps its ID and content; it leaves "initializing" for good, a
\* failed one is at most retired, a retired one stays.
Moves(r, s) ==
  r # None =>
    /\ s # None /\ s.id = r.id /\ s.content = r.content
    /\ r.status # "initializing" => s.status # "initializing"
    /\ r.status \notin {"initializing", "initialization_failed"} =>
         s.status # "initialization_failed"
    /\ r.status \in {"initialization_failed", "destroyed"} => s.status \in {r.status, "destroyed"}

\* No move of the row takes from a suspended call what it relies on.
LEMMA FitsStays ==
  ASSUME NEW call, NEW r, NEW s, NEW made, NEW made2, made \subseteq made2,
         Moves(r, s), Fits(call, r, made)
  PROVE  Fits(call, s, made2)
BY DEF Fits, Moves, AtObject

\* #checkContent and throwCreationFailure leave a call that fits the row.
LEMMA ReservedFits ==
  ASSUME NEW call \in Calls, NEW r \in Rows, NEW made, NEW duplicate \in BOOLEAN, r # None
  PROVE  /\ Reserved(call, r, duplicate) \in Calls
         /\ Fits(Reserved(call, r, duplicate), r, made)
         /\ duplicate => ~MadeIt(Reserved(call, r, duplicate))
<1> DEFINE new == Reserved(call, r, duplicate)
<1>1. r.id \in Nat /\ r.content \in Contents /\ r.status \in Frozen \cup Statuses
  BY DEF Rows
<1>2. ASSUME NEW verdict \in {"conflict", "destroyed", "invalid"}, NEW id \in Nat \cup {None},
             new = [call EXCEPT !.pc = "told", !.answer = [verdict |-> verdict, id |-> id]],
             verdict = "invalid" => r.status = "initialization_failed"
      PROVE  new \in Calls /\ Fits(new, r, made) /\ ~MadeIt(new)
  <2>1. [verdict |-> verdict, id |-> id] \in Answers
    BY DEF Answers
  <2>2. /\ new \in Calls /\ new.pc = "told" /\ new.answer = [verdict |-> verdict, id |-> id]
    BY <1>2, <2>1 DEF Calls
  <2>3. Fits(new, r, made)
    <3> HIDE DEF new
    <3> QED BY <1>2, <2>1, <2>2 DEF Fits, AtObject
  <2>4. ~MadeIt(new)
    <3> HIDE DEF new
    <3> QED BY <2>2 DEF MadeIt, AtObject
  <2> QED BY <2>2, <2>3, <2>4
<1>3. CASE r.content # call.content
  BY <1>2, <1>3 DEF Reserved, Told
<1>4. CASE r.content = call.content /\ r.status \in {"destroyed", "initialization_failed"}
  BY <1>1, <1>2, <1>4 DEF Reserved, Told
<1>5. CASE r.content = call.content /\ r.status \notin {"destroyed", "initialization_failed"}
  <2>1. new = [call EXCEPT !.pc = "initialize", !.entry = r, !.duplicate = duplicate]
    BY <1>5 DEF Reserved
  <2>2. new \in Calls /\ (duplicate => ~MadeIt(new))
    BY <2>1 DEF Calls, MadeIt, AtObject
  <2>3. new.pc = "initialize" /\ new.entry = r /\ new.content = call.content
    BY <2>1 DEF Calls
  <2>4. Fits(new, r, made)
    BY <1>5, <2>3 DEF Fits, AtObject
  <2> QED BY <2>2, <2>4
<1> QED BY <1>2, <1>3, <1>4, <1>5

\* One call goes on, or is lost, while the row moves: all calls fit what there is now.
LEMMA OneCall ==
  ASSUME DirectoryTypes, CreationInv, NEW c \in Clients, NEW call \in Calls, Resume(c, call),
         Moves(row, row'), DOMAIN objects \subseteq DOMAIN objects',
         Fits(call, row', DOMAIN objects'),
         MadeIt(call) => \A d \in Clients : d # c => ~MadeIt(calls[d])
  PROVE  /\ calls' \in [Clients -> Calls]
         /\ CallsFit'
         /\ OneMadeIt'
<1>1. calls \in [Clients -> Calls]
  BY DEF DirectoryTypes
<1>2. PICK new \in Calls :
        /\ calls' = [calls EXCEPT ![c] = new]
        /\ Fits(new, row', DOMAIN objects')
        /\ MadeIt(new) => \A d \in Clients : d # c => ~MadeIt(calls[d])
  <2>1. CASE calls' = [calls EXCEPT ![c] = call]
    BY <2>1
  <2>2. CASE calls' = [calls EXCEPT ![c].pc = "idle"]
    <3> DEFINE idle == [calls[c] EXCEPT !.pc = "idle"]
    <3>1. calls' = [calls EXCEPT ![c] = idle]
      BY <2>2
    <3>2. idle \in Calls /\ idle.pc = "idle"
      BY <1>1 DEF Calls
    <3>3. Fits(idle, row', DOMAIN objects') /\ ~MadeIt(idle)
      <4> HIDE DEF idle
      <4> QED BY <3>2 DEF Fits, AtObject, MadeIt
    <3> HIDE DEF idle
    <3> QED BY <3>1, <3>2, <3>3
  <2> QED BY <2>1, <2>2 DEF Resume
<1>3. /\ calls' \in [Clients -> Calls]
      /\ calls'[c] = new
      /\ \A d \in Clients : d # c => calls'[d] = calls[d]
  BY <1>1, <1>2
<1>4. CallsFit'
  <2> SUFFICES ASSUME NEW d \in Clients PROVE Fits(calls'[d], row', DOMAIN objects')
    BY DEF CallsFit
  <2>1. Fits(calls[d], row', DOMAIN objects')
    <3>1. Fits(calls[d], row, DOMAIN objects)
      BY DEF CreationInv, CallsFit
    <3> QED BY <3>1, FitsStays
  <2> QED BY <1>2, <1>3, <2>1
<1>5. OneMadeIt'
  BY <1>2, <1>3 DEF CreationInv, OneMadeIt
<1> QED BY <1>3, <1>4, <1>5

\* A step that is no call's, while the row moves.
LEMMA NoCall ==
  ASSUME DirectoryTypes, CreationInv, UNCHANGED <<calls, objects>>, Moves(row, row')
  PROVE  /\ calls' \in [Clients -> Calls]
         /\ CallsFit'
         /\ OneMadeIt'
<1>1. CallsFit'
  <2> SUFFICES ASSUME NEW d \in Clients PROVE Fits(calls[d], row', DOMAIN objects)
    BY DEF CallsFit
  <2>1. Fits(calls[d], row, DOMAIN objects)
    BY DEF CreationInv, CallsFit
  <2> QED BY <2>1, FitsStays
<1> QED BY <1>1 DEF DirectoryTypes, CreationInv, OneMadeIt

-----------------------------------------------------------------------------
(* The calls of createSession *)

\* A step of a call leaves the inputs and the display alone.
LEMMA DisplayTypes ==
  ASSUME DirectoryTypes, UNCHANGED display, row' \in Rows \cup {None}, fresh' \in Nat,
         calls' \in [Clients -> Calls]
  PROVE  DirectoryTypes'
BY DEF DirectoryTypes, display

\* Row, objects and the display unchanged: what a step of one call has to show.
LEMMA CallOnly ==
  ASSUME DirectoryInv, NEW c \in Clients, NEW call \in Calls, Resume(c, call),
         UNCHANGED <<row, objects, display>>, fresh' \in Nat,
         Fits(call, row, DOMAIN objects),
         MadeIt(call) => \A d \in Clients : d # c => ~MadeIt(calls[d])
  PROVE  DirectoryInv'
<1>1. DirectoryTypes /\ CreationInv /\ DisplayInv
  BY DEF DirectoryInv
<1>2. Moves(row, row')
  BY DEF Moves
<1>3. calls' \in [Clients -> Calls] /\ CallsFit' /\ OneMadeIt'
  BY <1>1, <1>2, OneCall
<1>4. DirectoryTypes'
  BY <1>1, <1>3, DisplayTypes DEF DirectoryTypes
<1>5. ObjectsOfRow'
  BY <1>1 DEF CreationInv, ObjectsOfRow
<1>6. DisplayInv'
  BY <1>1 DEF DisplayInv, display
<1> QED BY <1>3, <1>4, <1>5, <1>6 DEF DirectoryInv, CreationInv

\* A call on its way to the INSERT or to the second SELECT relies on little.
LEMMA MovesOn ==
  ASSUME NEW call, call.pc \in {"insert", "reread"}, NEW r, NEW made,
         call.pc = "reread" => r # None
  PROVE  Fits(call, r, made) /\ ~MadeIt(call)
BY DEF Fits, AtObject, MadeIt

\* The SELECT of reserve.
LEMMA LookupStep ==
  ASSUME DirectoryInv, NEW c \in Clients, Lookup(c)
  PROVE  DirectoryInv'
<1>1. /\ row \in Rows \cup {None} /\ calls[c] \in Calls /\ fresh' \in Nat
      /\ UNCHANGED <<row, objects, display>>
  BY DEF DirectoryInv, DirectoryTypes, Lookup
<1>2. CASE row # None
  <2>1. Resume(c, Reserved(calls[c], row, TRUE))
    BY <1>2 DEF Lookup
  <2>2. LET new == Reserved(calls[c], row, TRUE)
        IN  new \in Calls /\ Fits(new, row, DOMAIN objects) /\ ~MadeIt(new)
    BY <1>1, <1>2, ReservedFits
  <2> QED BY <1>1, <2>1, <2>2, CallOnly
<1>3. CASE row = None /\ calls[c].content = "unsupported"
  <2> DEFINE new == [calls[c] EXCEPT !.pc = "told",
                       !.answer = [verdict |-> "unsupported", id |-> None]]
  <2>1. Resume(c, new)
    BY <1>3 DEF Lookup, Told
  <2>2. [verdict |-> "unsupported", id |-> None] \in Answers
    BY DEF Answers
  <2>3. /\ new \in Calls /\ new.pc = "told"
        /\ new.answer = [verdict |-> "unsupported", id |-> None]
    BY <1>1, <2>2 DEF Calls
  <2> HIDE DEF new
  <2>4. Fits(new, row, DOMAIN objects) /\ ~MadeIt(new)
    BY <2>2, <2>3 DEF Fits, AtObject, MadeIt
  <2> QED BY <1>1, <2>1, <2>3, <2>4, CallOnly
<1>4. CASE row = None /\ calls[c].content # "unsupported"
  <2> DEFINE new == [calls[c] EXCEPT !.pc = "insert"]
  <2>1. Resume(c, new)
    BY <1>4 DEF Lookup
  <2>2. new \in Calls /\ new.pc = "insert"
    BY <1>1 DEF Calls
  <2> HIDE DEF new
  <2>3. Fits(new, row, DOMAIN objects) /\ ~MadeIt(new)
    BY <2>2, MovesOn
  <2> QED BY <1>1, <2>1, <2>2, <2>3, CallOnly
<1> QED BY <1>2, <1>3, <1>4

\* The second SELECT of reserve, after an INSERT that did nothing.
LEMMA RereadStep ==
  ASSUME DirectoryInv, NEW c \in Clients, Reread(c)
  PROVE  DirectoryInv'
<1>1. /\ row \in Rows \cup {None} /\ calls[c] \in Calls /\ fresh' \in Nat
      /\ UNCHANGED <<row, objects, display>>
      /\ Resume(c, Reserved(calls[c], row, TRUE))
  BY DEF DirectoryInv, DirectoryTypes, Reread
<1>2. row # None
  BY DEF DirectoryInv, CreationInv, CallsFit, Fits, Reread
<1>3. LET new == Reserved(calls[c], row, TRUE)
      IN  new \in Calls /\ Fits(new, row, DOMAIN objects) /\ ~MadeIt(new)
  BY <1>1, <1>2, ReservedFits
<1> QED BY <1>1, <1>3, CallOnly

\* Before the row exists no call has reserved it and no object is initialised.
LEMMA NoRowYet ==
  ASSUME DirectoryInv, row = None
  PROVE  DOMAIN objects = {} /\ \A d \in Clients : ~MadeIt(calls[d])
BY DEF DirectoryInv, CreationInv, ObjectsOfRow, CallsFit, Fits, MadeIt

\* INSERT ... ON CONFLICT DO NOTHING: the one call that finds no row makes it.
LEMMA InsertStep ==
  ASSUME DirectoryAssumption, DirectoryInv, NEW c \in Clients, Insert(c)
  PROVE  DirectoryInv'
<1>0. DirectoryTypes /\ CreationInv /\ DisplayInv
  BY DEF DirectoryInv
<1>1. calls[c] \in Calls /\ fresh' \in Nat /\ UNCHANGED <<objects, display>>
  BY <1>0 DEF DirectoryTypes, Insert
<1>2. CASE row # None
  <2> DEFINE new == [calls[c] EXCEPT !.pc = "reread"]
  <2>1. Resume(c, new) /\ UNCHANGED row
    BY <1>2 DEF Insert
  <2>2. new \in Calls /\ new.pc = "reread"
    BY <1>1 DEF Calls
  <2> HIDE DEF new
  <2>3. Fits(new, row, DOMAIN objects) /\ ~MadeIt(new)
    BY <1>2, <2>2, MovesOn
  <2> QED BY <1>1, <2>1, <2>2, <2>3, CallOnly
<1>3. CASE row = None
  <2>1. /\ row' = [id |-> fresh + 1, content |-> calls[c].content, status |-> "initializing"]
        /\ Resume(c, Reserved(calls[c], row', FALSE))
    BY <1>3 DEF Insert
  <2>2. row' \in Rows /\ row' # None /\ row'.status = "initializing"
    <3>1. calls[c].content \in Contents /\ fresh + 1 \in Nat \ {0}
      BY <1>0, <1>1 DEF DirectoryTypes, Calls
    <3>2. row' \in Rows /\ row'.status = "initializing"
      BY <2>1, <3>1 DEF Rows, Frozen
    <3> QED BY <3>2 DEF DirectoryAssumption
  <2>3. Reserved(calls[c], row', FALSE) \in Calls
          /\ Fits(Reserved(calls[c], row', FALSE), row', DOMAIN objects')
    BY <1>1, <2>2, ReservedFits
  <2>4. DOMAIN objects = {} /\ \A d \in Clients : ~MadeIt(calls[d])
    BY <1>3, NoRowYet
  <2>5. Moves(row, row')
    BY <1>3 DEF Moves
  <2>6. calls' \in [Clients -> Calls] /\ CallsFit' /\ OneMadeIt'
    BY <1>0, <1>1, <2>1, <2>3, <2>4, <2>5, OneCall
  <2>7. DirectoryTypes'
    BY <1>0, <1>1, <2>2, <2>6, DisplayTypes
  <2>8. ObjectsOfRow'
    BY <1>1, <2>2, <2>4 DEF ObjectsOfRow, Statuses
  <2>9. DisplayInv'
    BY <1>0, <1>1, <1>3, <2>2 DEF DisplayInv, display, Frozen, DirectoryTypes
  <2> QED BY <2>6, <2>7, <2>8, <2>9 DEF DirectoryInv, CreationInv
<1> QED BY <1>2, <1>3

\* A call at its object goes on: it keeps content, entry and whether it made the row.
LEMMA StaysMade ==
  ASSUME DirectoryInv, NEW c \in Clients, NEW call \in Calls, calls[c].pc \in AtObject,
         call.duplicate = calls[c].duplicate
  PROVE  MadeIt(call) => \A d \in Clients : d # c => ~MadeIt(calls[d])
BY DEF DirectoryInv, CreationInv, OneMadeIt, MadeIt

\* createSession tells its client: the answer, and what of the call stays.
LEMMA ToldFields ==
  ASSUME NEW call \in Calls, NEW verdict \in {"created", "invalid"}, NEW id \in Nat
  PROVE  LET new == Told(call, verdict, id)
         IN  /\ new \in Calls /\ new.pc = "told"
             /\ new.answer \in Answers /\ new.answer.verdict = verdict /\ new.answer.id = id
             /\ new.content = call.content /\ new.duplicate = call.duplicate
<1>1. [verdict |-> verdict, id |-> id] \in Answers
  BY DEF Answers
<1> QED BY <1>1 DEF Told, Calls

\* SessionRuntime.initialize: the object takes the content of the row, once.
LEMMA InitializeStep ==
  ASSUME DirectoryAssumption, DirectoryInv, NEW c \in Clients, Initialize(c)
  PROVE  DirectoryInv'
<1> DEFINE call == calls[c]
           id   == call.entry.id
<1>0. DirectoryTypes /\ CreationInv /\ DisplayInv
  BY DEF DirectoryInv
<1>1. /\ call \in Calls /\ call.pc = "initialize" /\ call.pc \in AtObject
      /\ UNCHANGED <<row, fresh, display>>
  BY <1>0 DEF DirectoryTypes, Initialize, AtObject
<1>2. /\ row # None /\ call.entry \in Rows /\ id = row.id /\ call.content = row.content
      /\ row \in Rows
      /\ call.entry.status # "initializing" =>
           row.status \notin {"initializing", "initialization_failed"}
  BY <1>0, <1>1 DEF CreationInv, CallsFit, Fits, DirectoryTypes
<1>3. id \in Nat
  BY <1>2 DEF Rows
<1>4. CASE id \in DOMAIN objects \/ call.content # "invalid"
  <2> DEFINE new == IF call.entry.status = "initializing"
                    THEN [call EXCEPT !.pc = "ready"] ELSE Told(call, "created", id)
  <2>1. /\ objects' = [i \in DOMAIN objects \cup {id} |->
                         IF i \in DOMAIN objects THEN objects[i] ELSE call.content]
        /\ Resume(c, new)
    BY <1>4 DEF Initialize
  <2>2. /\ DOMAIN objects' = DOMAIN objects \cup {id} /\ id = row'.id
        /\ \A i \in DOMAIN objects : objects'[i] = objects[i]
        /\ id \notin DOMAIN objects => objects'[id] = call.content
    BY <1>1, <1>2, <2>1
  <2>3. ObjectsOfRow'
    BY <1>0, <1>1, <1>2, <1>4, <2>2 DEF ObjectsOfRow, CreationInv
  <2>4. new \in Calls /\ new.duplicate = call.duplicate /\ Fits(new, row', DOMAIN objects')
    <3>1. CASE call.entry.status = "initializing"
      <4>1. /\ new \in Calls /\ new.duplicate = call.duplicate /\ new.pc = "ready"
            /\ new.entry = call.entry /\ new.content = call.content
        BY <1>1, <3>1 DEF Calls
      <4> HIDE DEF new
      <4> QED BY <1>1, <1>2, <2>2, <3>1, <4>1 DEF Fits, AtObject
    <3>2. CASE call.entry.status # "initializing"
      <4>1. /\ new \in Calls /\ new.duplicate = call.duplicate /\ new.pc = "told"
            /\ new.answer \in Answers /\ new.answer.verdict = "created" /\ new.answer.id = id
            /\ new.content = call.content
        BY <1>1, <1>3, <3>2, ToldFields
      <4> HIDE DEF new
      <4> QED BY <1>1, <1>2, <2>2, <3>2, <4>1 DEF Fits, AtObject
    <3> QED BY <3>1, <3>2
  <2> HIDE DEF new
  <2>5. MadeIt(new) => \A d \in Clients : d # c => ~MadeIt(calls[d])
    BY <1>1, <2>4, StaysMade
  <2>6. Moves(row, row')
    BY <1>1 DEF Moves
  <2>7. calls' \in [Clients -> Calls] /\ CallsFit' /\ OneMadeIt'
    BY <1>0, <2>1, <2>2, <2>4, <2>5, <2>6, OneCall
  <2>8. DirectoryTypes'
    BY <1>0, <1>1, <2>7, DisplayTypes DEF DirectoryTypes
  <2>9. DisplayInv'
    BY <1>0, <1>1, <2>2 DEF DisplayInv, display
  <2> QED BY <2>3, <2>7, <2>8, <2>9 DEF DirectoryInv, CreationInv
<1>5. CASE ~(id \in DOMAIN objects \/ call.content # "invalid")
  <2> DEFINE new == [call EXCEPT !.pc = "fail"]
  <2>1. UNCHANGED objects /\ Resume(c, new)
    BY <1>5 DEF Initialize
  <2>2. /\ new \in Calls /\ new.pc = "fail" /\ new.duplicate = call.duplicate
        /\ new.entry = call.entry /\ new.content = call.content
    BY <1>1 DEF Calls
  <2>3. Fits(call, row, DOMAIN objects)
    BY <1>0 DEF CreationInv, CallsFit
  <2> HIDE DEF new
  <2>4. Fits(new, row, DOMAIN objects)
    BY <1>1, <1>5, <2>2, <2>3 DEF Fits, AtObject
  <2>5. MadeIt(new) => \A d \in Clients : d # c => ~MadeIt(calls[d])
    BY <1>1, <2>2, StaysMade
  <2>6. fresh' \in Nat
    BY <1>0, <1>1 DEF DirectoryTypes
  <2> QED BY <1>1, <2>1, <2>2, <2>4, <2>5, <2>6, CallOnly
<1> QED BY <1>4, <1>5

\* ready and fail: the row leaves "initializing" at most once, and the client is told
\* what stays.
LEMMA SettleStep ==
  ASSUME DirectoryAssumption, DirectoryInv, NEW c \in Clients, Ready(c) \/ FailCreation(c)
  PROVE  DirectoryInv'
<1> DEFINE call == calls[c]
           id   == call.entry.id
           verdict == IF call.pc = "ready" THEN "created" ELSE "invalid"
           status  == IF call.pc = "ready" THEN "idle" ELSE "initialization_failed"
           new  == Told(call, verdict, id)
<1>0. DirectoryTypes /\ CreationInv /\ DisplayInv
  BY DEF DirectoryInv
<1>1. /\ call \in Calls /\ call.pc \in {"ready", "fail"} /\ call.pc \in AtObject
      /\ UNCHANGED <<objects, fresh, display>>
      /\ Resume(c, new)
      /\ row' = IF row.status = "initializing" THEN [row EXCEPT !.status = status] ELSE row
  BY <1>0 DEF DirectoryTypes, Ready, FailCreation, AtObject
<1>2. /\ row # None /\ call.entry \in Rows /\ id = row.id /\ call.content = row.content
      /\ row \in Rows
      /\ call.pc = "ready" => row.id \in DOMAIN objects
      /\ call.pc = "fail" => call.content = "invalid"
  BY <1>0, <1>1 DEF CreationInv, CallsFit, Fits, DirectoryTypes
<1>3. /\ new \in Calls /\ new.duplicate = call.duplicate /\ new.pc = "told"
      /\ new.answer \in Answers /\ new.answer.verdict = verdict /\ new.answer.id = id
      /\ new.content = call.content
  <2>1. id \in Nat /\ verdict \in {"created", "invalid"}
    BY <1>2 DEF Rows
  <2>2. ASSUME NEW v \in {"created", "invalid"}, NEW i \in Nat, new = Told(call, v, i)
        PROVE  /\ new \in Calls /\ new.duplicate = call.duplicate /\ new.pc = "told"
               /\ new.answer \in Answers /\ new.answer.verdict = v /\ new.answer.id = i
               /\ new.content = call.content
    <3> HIDE DEF verdict, new, id
    <3> QED BY <1>1, <2>2, ToldFields
  <2>3. new = Told(call, verdict, id)
    OBVIOUS
  <2> HIDE DEF verdict, id, new
  <2> QED BY <2>1, <2>2, <2>3
<1> HIDE DEF new
<1>4. /\ row' \in Rows /\ row'.id = row.id /\ row'.content = row.content
      /\ row.status = "initializing" => row'.status = status
      /\ row.status # "initializing" => row' = row
  BY <1>1, <1>2 DEF Rows, Frozen, Statuses
<1>5. row' # None
  BY <1>4 DEF DirectoryAssumption
<1>6. row.id \in DOMAIN objects => row.content # "invalid"
  BY <1>0 DEF CreationInv, ObjectsOfRow
<1>7. row.status \in Statuses => row.id \in DOMAIN objects
  BY <1>0, <1>2 DEF CreationInv, ObjectsOfRow
<1>8. row.status = "initialization_failed" => row.content = "invalid"
  BY <1>0, <1>2 DEF CreationInv, ObjectsOfRow
<1>9. row.status \in Frozen \cup Statuses
  BY <1>2 DEF Rows
<1>10. Moves(row, row')
  BY <1>4, <1>5 DEF Moves
<1>11. Fits(new, row', DOMAIN objects')
  <2>1. CASE call.pc = "ready"
    <3>1. row'.status \notin {"initializing", "initialization_failed"}
      BY <1>2, <1>4, <1>6, <1>8, <2>1
    <3> QED BY <1>1, <1>2, <1>3, <1>4, <1>5, <2>1, <3>1 DEF Fits, AtObject
  <2>2. CASE call.pc = "fail"
    <3>1. row'.status \in {"initialization_failed", "destroyed"}
      BY <1>2, <1>4, <1>6, <1>7, <1>9, <2>2 DEF Frozen
    <3> QED BY <1>3, <1>5, <2>2, <3>1 DEF Fits, AtObject
  <2> QED BY <1>1, <2>1, <2>2
<1>12. MadeIt(new) => \A d \in Clients : d # c => ~MadeIt(calls[d])
  BY <1>1, <1>3, StaysMade
<1>13. calls' \in [Clients -> Calls] /\ CallsFit' /\ OneMadeIt'
  BY <1>0, <1>1, <1>3, <1>10, <1>11, <1>12, OneCall
<1>14. DirectoryTypes'
  BY <1>0, <1>1, <1>4, <1>13, DisplayTypes DEF DirectoryTypes
<1>15. ObjectsOfRow'
  <2>1. row'.status \in Statuses => row'.id \in DOMAIN objects'
    BY <1>1, <1>2, <1>4, <1>7 DEF Statuses
  <2>2. row'.status = "initialization_failed" => row'.content = "invalid"
    BY <1>1, <1>2, <1>4, <1>8
  <2> QED BY <1>0, <1>1, <1>4, <1>5, <2>1, <2>2 DEF CreationInv, ObjectsOfRow
<1>16. DisplayInv'
  <2>1. CASE row' = row
    BY <1>0, <1>1, <2>1 DEF DisplayInv, display
  <2>2. CASE row.status = "initializing"
    <3>1. checked = 0 /\ queue = <<>> /\ ghost = None /\ actual = "idle" /\ ~retired
      BY <1>0, <2>2 DEF DisplayInv
    <3> QED BY <1>0, <1>1, <1>4, <2>2, <3>1 DEF DisplayInv, display, Frozen
  <2> QED BY <1>4, <2>1, <2>2
<1> QED BY <1>13, <1>14, <1>15, <1>16 DEF DirectoryInv, CreationInv

\* A call that is lost relies on nothing.
LEMMA LoseCallStep ==
  ASSUME DirectoryInv, NEW c \in Clients, LoseCall(c)
  PROVE  DirectoryInv'
<1> DEFINE new == [calls[c] EXCEPT !.pc = "idle"]
<1>1. /\ calls[c] \in Calls /\ fresh' \in Nat /\ UNCHANGED <<row, objects, display>>
      /\ Resume(c, new)
  BY DEF DirectoryInv, DirectoryTypes, LoseCall, Resume
<1>2. new \in Calls /\ new.pc = "idle"
  BY <1>1 DEF Calls
<1> HIDE DEF new
<1>3. Fits(new, row, DOMAIN objects) /\ ~MadeIt(new)
  BY <1>2 DEF Fits, AtObject, MadeIt
<1> QED BY <1>1, <1>2, <1>3, CallOnly

-----------------------------------------------------------------------------
(* Inputs and the display status *)

\* A write of publish moves a row that shows a status to another one.
LEMMA ShownMoves ==
  ASSUME DirectoryAssumption, row \in Rows, NEW status \in Statuses
  PROVE  /\ Shown(status) \in Rows /\ Shown(status) # None
         /\ Moves(row, Shown(status))
         /\ Shown(status).id = row.id /\ Shown(status).content = row.content
         /\ row.status \in Frozen => Shown(status) = row
         /\ row.status \notin Frozen => Shown(status).status = status
<1>1. /\ Shown(status) \in Rows
      /\ Shown(status).id = row.id /\ Shown(status).content = row.content
      /\ row.status \in Frozen => Shown(status) = row
      /\ row.status \notin Frozen => Shown(status).status = status
  BY DEF Shown, Rows
<1>2. Shown(status) # None
  BY <1>1 DEF DirectoryAssumption
<1> QED BY <1>1, <1>2 DEF Moves, Frozen, Statuses

\* A step that is no call's: what it has to show.
LEMMA DisplayOnly ==
  ASSUME DirectoryAssumption, DirectoryInv, UNCHANGED <<calls, objects, fresh>>,
         row' = row \/ /\ row \in Rows /\ row' \in Rows /\ Moves(row, row')
                       /\ row'.id = row.id /\ row'.content = row.content
                       /\ row'.status \in Statuses => row.status \in Statuses
                       /\ row'.status = "initialization_failed" =>
                            row.status = "initialization_failed",
         checked' \in Nat, actual' \in Statuses, queue' \in Seq(Statuses),
         ghost' \in Statuses \cup {None}, missed' \in BOOLEAN, retired' \in BOOLEAN,
         DisplayInv'
  PROVE  DirectoryInv'
<1>0. DirectoryTypes /\ CreationInv
  BY DEF DirectoryInv
<1>1. Moves(row, row')
  BY DEF Moves
<1>2. calls' \in [Clients -> Calls] /\ CallsFit' /\ OneMadeIt'
  BY <1>0, <1>1, NoCall
<1>3. DirectoryTypes'
  BY <1>0, <1>2 DEF DirectoryTypes
<1>4. ObjectsOfRow'
  BY <1>0 DEF CreationInv, ObjectsOfRow, DirectoryAssumption
<1> QED BY <1>2, <1>3, <1>4 DEF DirectoryInv, CreationInv

\* The inputs route, the commit of the harness, the publisher, a lost activation and
\* an operator keep the invariant.
LEMMA DisplayStep ==
  ASSUME DirectoryAssumption, DirectoryInv,
         \/ CheckReady \/ (\E status \in Statuses \ {actual} : Handle(status))
         \/ Publish \/ LoseActivation \/ GhostLands \/ Retire
  PROVE  DirectoryInv'
<1>0. /\ row \in Rows \cup {None} /\ checked \in Nat /\ actual \in Statuses
      /\ queue \in Seq(Statuses) /\ ghost \in Statuses \cup {None}
      /\ missed \in BOOLEAN /\ retired \in BOOLEAN
      /\ DisplayInv /\ ObjectsOfRow
  BY DEF DirectoryInv, DirectoryTypes, CreationInv
<1>1. CASE CheckReady
  <2>1. /\ row # None /\ row.status \in Statuses
        /\ checked' = checked + 1
        /\ UNCHANGED <<row, objects, calls, fresh, actual, queue, ghost, missed, retired>>
    BY <1>0, <1>1 DEF CheckReady, creation, Rows
  <2>2. DisplayInv'
    BY <1>0, <2>1 DEF DisplayInv, ObjectsOfRow, Statuses
  <2> QED BY <1>0, <2>1, <2>2, DisplayOnly
<1>2. ASSUME NEW status \in Statuses, Handle(status) PROVE DirectoryInv'
  <2>1. /\ checked > 0 /\ checked' \in Nat /\ actual' = status
        /\ queue' = Append(queue, status) /\ missed' = FALSE
        /\ UNCHANGED <<row, objects, calls, fresh, ghost, retired>>
    BY <1>0, <1>2 DEF Handle, creation
  <2>2. /\ row # None /\ row.id \in DOMAIN objects
        /\ row.status \notin {"initializing", "initialization_failed"}
    BY <1>0, <2>1 DEF DisplayInv
  <2>3. queue' \in Seq(Statuses) /\ queue' # <<>> /\ queue'[Len(queue')] = status
    BY <1>0, <2>1
  <2>4. DisplayInv'
    BY <1>0, <2>1, <2>2, <2>3 DEF DisplayInv
  <2> QED BY <1>0, <1>2, <2>1, <2>3, <2>4, DisplayOnly
<1>3. CASE Publish
  <2>1. /\ queue # <<>> /\ queue' = Tail(queue)
        /\ UNCHANGED <<objects, calls, fresh, checked, actual, ghost, retired>>
        /\ \/ row' = Shown(Head(queue)) /\ UNCHANGED missed
           \/ row' = row /\ missed' = (missed \/ Len(queue) = 1)
    BY <1>3 DEF Publish
  <2>2. /\ row \in Rows /\ row # None
        /\ row.status \notin {"initializing", "initialization_failed"}
        /\ queue[Len(queue)] = actual
    BY <1>0, <2>1 DEF DisplayInv
  <2>3. /\ Head(queue) \in Statuses /\ Head(queue) = queue[1]
        /\ queue' \in Seq(Statuses) /\ Len(queue) \in Nat \ {0}
        /\ Len(queue') = Len(queue) - 1
        /\ \A i \in 1 .. Len(queue) - 1 : queue'[i] = queue[i + 1]
    BY <1>0, <2>1
  <2>4. queue' # <<>> => queue'[Len(queue')] = actual
    BY <2>2, <2>3
  <2>5. queue' = <<>> => Len(queue) = 1 /\ Head(queue) = actual
    <3>1. ASSUME queue' = <<>> PROVE Len(queue) = 1
      <4>1. Len(queue') = 0
        BY <3>1
      <4> QED BY <2>3, <4>1
    <3> QED BY <2>2, <2>3, <3>1
  <2>6. CASE row' = Shown(Head(queue)) /\ UNCHANGED missed
    <3>1. /\ row' \in Rows /\ row' # None /\ Moves(row, row')
          /\ row'.id = row.id /\ row'.content = row.content
          /\ row.status \in Frozen => row' = row
          /\ row.status \notin Frozen => row'.status = Head(queue)
      BY <2>2, <2>3, <2>6, ShownMoves
    <3>2. /\ row'.status \notin {"initializing", "initialization_failed"}
          /\ row'.status \in Statuses => row.status \in Statuses
      BY <2>2, <2>3, <3>1 DEF Rows, Frozen, Statuses
    <3>3. DisplayInv'
      BY <1>0, <2>1, <2>2, <2>4, <2>5, <3>1, <3>2 DEF DisplayInv, Frozen
    <3> QED BY <1>0, <2>1, <2>2, <2>3, <2>6, <3>1, <3>2, <3>3, DisplayOnly
  <2>7. CASE row' = row /\ missed' = (missed \/ Len(queue) = 1)
    <3>1. missed' \in BOOLEAN
      BY <2>7
    <3>2. DisplayInv'
      BY <1>0, <2>1, <2>2, <2>4, <2>5, <2>7 DEF DisplayInv
    <3> QED BY <1>0, <2>1, <2>3, <2>7, <3>1, <3>2, DisplayOnly
  <2> QED BY <2>1, <2>6, <2>7
<1>4. CASE LoseActivation
  <2>1. /\ queue # <<>> /\ queue' = <<>> /\ ghost' \in {None, Head(queue)} /\ missed' = TRUE
        /\ UNCHANGED <<row, objects, calls, fresh, checked, actual, retired>>
    BY <1>4 DEF LoseActivation, creation
  <2>2. Head(queue) \in Statuses /\ queue' \in Seq(Statuses)
    BY <1>0, <2>1
  <2>3. DisplayInv'
    BY <1>0, <2>1 DEF DisplayInv
  <2> QED BY <1>0, <2>1, <2>2, <2>3, DisplayOnly
<1>5. CASE GhostLands
  <2>1. /\ ghost # None /\ ghost' = None /\ row' = Shown(ghost) /\ missed' = TRUE
        /\ UNCHANGED <<objects, calls, fresh, checked, actual, queue, retired>>
    BY <1>5 DEF GhostLands
  <2>2. /\ row \in Rows /\ row # None /\ ghost \in Statuses
        /\ row.status \notin {"initializing", "initialization_failed"}
    BY <1>0, <2>1 DEF DisplayInv
  <2>3. /\ row' \in Rows /\ row' # None /\ Moves(row, row')
        /\ row'.id = row.id /\ row'.content = row.content
        /\ row.status \in Frozen => row' = row
        /\ row.status \notin Frozen => row'.status = ghost
    BY <2>1, <2>2, ShownMoves
  <2>4. /\ row'.status \notin {"initializing", "initialization_failed"}
        /\ row'.status \in Statuses => row.status \in Statuses
    BY <2>2, <2>3 DEF Rows, Frozen, Statuses
  <2>5. DisplayInv'
    BY <1>0, <2>1, <2>2, <2>3, <2>4 DEF DisplayInv, Frozen
  <2> QED BY <1>0, <2>1, <2>2, <2>3, <2>4, <2>5, DisplayOnly
<1>6. CASE Retire
  <2>1. /\ row # None /\ row' = [row EXCEPT !.status = "destroyed"] /\ retired' = TRUE
        /\ UNCHANGED <<objects, calls, fresh, checked, actual, queue, ghost, missed>>
    BY <1>6 DEF Retire
  <2>2. /\ row \in Rows /\ row' \in Rows /\ row'.status = "destroyed"
        /\ row'.id = row.id /\ row'.content = row.content
    BY <1>0, <2>1 DEF Rows, Frozen
  <2>3. row' # None
    BY <2>2 DEF DirectoryAssumption
  <2>4. Moves(row, row') /\ row'.status \notin Statuses
    BY <2>2, <2>3 DEF Moves, Statuses
  <2>5. DisplayInv'
    BY <1>0, <2>1, <2>2, <2>3, <2>4 DEF DisplayInv, Frozen
  <2> QED BY <1>0, <2>1, <2>2, <2>4, <2>5, DisplayOnly
<1> QED BY <1>1, <1>2, <1>3, <1>4, <1>5, <1>6

-----------------------------------------------------------------------------
(* The theorems *)

\* No row, no object, every call at its start.
LEMMA DirectoryInit == Init => DirectoryInv
<1> SUFFICES ASSUME Init PROVE DirectoryInv
  OBVIOUS
<1>1. calls \in [Clients -> Calls] /\ \A c \in Clients : calls[c].pc = "idle"
  BY DEF Init, Calls
<1>2. DirectoryTypes
  <2>1. queue \in Seq(Statuses) /\ objects = <<>>
    BY DEF Init
  <2> QED BY <1>1, <2>1 DEF Init, DirectoryTypes, Statuses
<1>3. DOMAIN objects = {} /\ row = None
  BY DEF Init
<1>4. CreationInv
  BY <1>1, <1>3 DEF CreationInv, ObjectsOfRow, OneMadeIt, MadeIt, AtObject, CallsFit, Fits
<1>5. DisplayInv
  BY DEF Init, DisplayInv
<1> QED BY <1>2, <1>4, <1>5 DEF DirectoryInv

\* Every step of a call, of the display and of the operator keeps the invariant.
LEMMA DirectoryStep ==
  ASSUME DirectoryAssumption, DirectoryInv, [Next]_vars
  PROVE  DirectoryInv'
<1>1. ASSUME NEW c \in Clients, CreateSession(c) PROVE DirectoryInv'
  BY <1>1, LookupStep, InsertStep, RereadStep, InitializeStep, SettleStep DEF CreateSession
<1>2. ASSUME NEW c \in Clients, LoseCall(c) PROVE DirectoryInv'
  BY <1>2, LoseCallStep
<1>3. CASE UNCHANGED vars
  BY <1>3 DEF vars, creation, display, DirectoryInv, DirectoryTypes, CreationInv, ObjectsOfRow,
              OneMadeIt, CallsFit, DisplayInv
<1> QED BY <1>1, <1>2, <1>3, DisplayStep DEF Next

\* The invariant holds in every reachable state.
LEMMA DirectoryInvariant ==
  ASSUME DirectoryAssumption
  PROVE  Spec => []DirectoryInv
<1>1. DirectoryInv /\ [Next]_vars => DirectoryInv'
  BY DirectoryStep
<1> QED BY <1>1, DirectoryInit, PTL DEF Spec

\* However many clients create with one request ID, and however their calls interleave,
\* die and are repeated, they agree on one session, one content and one creator.
THEOREM CreationsAlwaysAgree ==
  ASSUME DirectoryAssumption
  PROVE  Spec => []CreationsAgree
<1>1. DirectoryInv => CreationsAgree
  <2> SUFFICES ASSUME DirectoryInv PROVE CreationsAgree
    OBVIOUS
  <2>1. ObjectsOfRow /\ OneMadeIt /\ \A c \in Clients : Fits(calls[c], row, DOMAIN objects)
    BY DEF DirectoryInv, CreationInv, CallsFit
  <2>2. \A id \in DOMAIN objects : row # None /\ row.id = id /\ row.content = objects[id]
    BY <2>1 DEF ObjectsOfRow
  <2>3. ASSUME NEW c \in Clients, calls[c].pc = "told"
        PROVE  /\ calls[c].answer.verdict = "created" =>
                    /\ calls[c].answer.id \in DOMAIN objects
                    /\ objects[calls[c].answer.id] = calls[c].content
                    /\ row.status \notin {"initializing", "initialization_failed"}
               /\ calls[c].answer.verdict = "invalid" =>
                    row.status \in {"initialization_failed", "destroyed"}
    BY <2>1, <2>2, <2>3 DEF Fits
  <2>4. ASSUME NEW c \in Clients, NEW d \in Clients,
               calls[c].pc = "told", calls[c].answer.verdict = "created", ~calls[c].duplicate,
               calls[d].pc = "told", calls[d].answer.verdict = "created", ~calls[d].duplicate
        PROVE  c = d
    BY <2>1, <2>4 DEF OneMadeIt, MadeIt
  <2> QED BY <2>2, <2>3, <2>4 DEF CreationsAgree
<1> QED BY <1>1, DirectoryInvariant, PTL

\* No late step of a creation and no publication shows a stale status or brings back a
\* retired session, unless a write was lost or overtaken.
THEOREM DisplayAlwaysCurrent ==
  ASSUME DirectoryAssumption
  PROVE  Spec => []DisplayIsCurrent
<1>1. DirectoryInv => DisplayIsCurrent
  BY DEF DirectoryInv, DisplayInv, DisplayIsCurrent
<1> QED BY <1>1, DirectoryInvariant, PTL

=============================================================================
