------------------------- MODULE MachineGatewayProofs -------------------------
(***************************************************************************)
(* Callers and the daemon of a machine are told what is so, the gateway's  *)
(* sockets, waiting calls and counters never disagree, and what was        *)
(* revoked during an await is not used after it: for every number of       *)
(* calls, connections, secrets, deliveries, evictions and deployments.     *)
(*                                                                         *)
(* The argument.  A call that has not reached its dispatch was not sent,   *)
(* so that "not sent" is true of every refusal before it; after it, only   *)
(* the daemon's frame gives a definite answer.  An open socket is the one  *)
(* of the row, so that the error of a delivery that was overtaken by a     *)
(* rotation, a deletion or a reconnection is never sent; the other errors  *)
(* that are not retryable are about the deployment, and no frame survives  *)
(* the next one.  Each counter is the number of calls or deliveries in the *)
(* stages that hold it, which every way out of a stage gives back.         *)
(***************************************************************************)
EXTENDS MachineGateway, FiniteSetTheorems, TLAPS

-----------------------------------------------------------------------------
(* The inductive invariant *)

InStage(stages) == {call \in Calls : calls[call].stage \in stages}

Counted == {"preparing", "signed", "waiting"}
Holding == {"signed", "waiting"}

CallRecords ==
  [stage : {"idle", "preparing", "signed", "waiting", "done"}, token : Nat,
   generation : Generations \cup {NoGeneration}, epoch : Nat,
   answer : {"none", "not_sent", "uncertain", "accepted", "rejected"}]

\* The calls in progress are finitely many, and counted; a call that is not dispatched
\* yet was not sent, and one that is not over has no answer.
CallsInv ==
  /\ calls \in [Calls -> CallRecords]
  /\ submissions \in Nat /\ buffered \in Nat /\ deliveries \in Nat
  /\ IsFiniteSet(InStage(Counted))
  /\ submissions = Count(Counted) /\ submissions <= MaxSubmissions
  /\ buffered = Count(Holding) + deliveries /\ buffered <= MaxBuffered
  /\ \A call \in Calls :
       /\ calls[call].stage \in {"idle", "preparing", "signed"} => call \notin sent
       /\ calls[call].stage # "done" => calls[call].answer = "none"
  /\ AnswersAreTrue

Results == [request : Requests, envelope : Nat]

DeliveryRecords == [stage : {"verifying", "calling"}, epoch : Epochs, result : Results]

Held == {slot \in Slots : inflight[slot] # NoDelivery}

DeliveriesInv ==
  /\ inflight \in [Slots -> {NoDelivery} \cup DeliveryRecords]
  /\ deliveries = Cardinality(Held) /\ deliveries <= MaxDeliveries

RowRecords == [state : {"none", "live", "deleted"}, daemon : Nat, execution : Nat, epoch : Nat]

SocketRecords ==
  [state : {"none", "open", "closing"}, version : Nat, generation : Generations \cup {NoGeneration}]

LinkInv ==
  /\ row \in RowRecords
  /\ sockets \in [Epochs -> SocketRecords]
  /\ faults \in Nat
  /\ OneDaemon

\* Frames are of a connection, and say what the other side said.
WiresInv ==
  /\ \A frame \in toGateway :
       /\ frame.epoch \in Epochs
       /\ frame.type = "accepted" => frame.about \in accepted
       /\ frame.type = "rejected" => frame.about \in rejected
       /\ frame.type = "result" => frame.about \in Results
  /\ \A frame \in toDaemon : frame.epoch \in Epochs
  /\ VerdictsAreTrue

DeploymentRecords ==
  [secret : Nat, verified : SUBSET Nat, routes : {"configured", "unavailable", "broken"}]

\* What an envelope is signed with is a secret, or there is none.
EnvelopesInv ==
  /\ deployment \in DeploymentRecords
  /\ envelopes \in [Requests -> Nat]

GatewayInv == CallsInv /\ DeliveriesInv /\ LinkInv /\ WaitersHaveSockets /\ WiresInv

-----------------------------------------------------------------------------
(* Calls *)

\* One call changes its stage: what that does to the number in a set of stages.
LEMMA CountMoves ==
  ASSUME NEW CONSTANT stages, IsFiniteSet(InStage(stages)), NEW call \in Calls,
         \A c \in Calls : c # call => calls'[c] = calls[c]
  PROVE  /\ IsFiniteSet(InStage(stages)') /\ Count(stages) \in Nat
         /\ Count(stages)' = Count(stages)
                             - (IF calls[call].stage \in stages THEN 1 ELSE 0)
                             + (IF calls'[call].stage \in stages THEN 1 ELSE 0)
<1>0. /\ Count(stages) = Cardinality(InStage(stages)) /\ Count(stages)' = Cardinality(InStage(stages)')
      /\ Count(stages) \in Nat
  BY FS_CardinalityType DEF Count, InStage
<1>1. CASE calls'[call].stage \in stages
  <2>1. InStage(stages)' = InStage(stages) \cup {call}
    BY <1>1 DEF InStage
  <2>2. call \in InStage(stages) <=> calls[call].stage \in stages
    BY DEF InStage
  <2>3. /\ IsFiniteSet(InStage(stages) \cup {call})
        /\ Cardinality(InStage(stages) \cup {call}) =
             IF call \in InStage(stages) THEN Cardinality(InStage(stages))
             ELSE Cardinality(InStage(stages)) + 1
    BY FS_AddElement
  <2> QED BY <1>0, <1>1, <2>1, <2>2, <2>3
<1>2. CASE calls'[call].stage \notin stages
  <2>1. InStage(stages)' = InStage(stages) \ {call}
    BY <1>2 DEF InStage
  <2>2. call \in InStage(stages) <=> calls[call].stage \in stages
    BY DEF InStage
  <2>3. /\ IsFiniteSet(InStage(stages) \ {call})
        /\ Cardinality(InStage(stages) \ {call}) =
             IF call \in InStage(stages) THEN Cardinality(InStage(stages)) - 1
             ELSE Cardinality(InStage(stages))
    BY FS_RemoveElement
  <2> QED BY <1>0, <1>2, <2>1, <2>2, <2>3
<1> QED BY <1>1, <1>2

\* The calls that hold a buffer are among the ones that are counted.
LEMMA HoldingFinite ==
  ASSUME CallsInv
  PROVE  IsFiniteSet(InStage(Holding)) /\ InStage(Holding) \subseteq InStage(Counted)
<1>1. InStage(Holding) \subseteq InStage(Counted)
  BY DEF InStage, Holding, Counted
<1> QED BY <1>1, FS_Subset DEF CallsInv

\* A call that is over.
LEMMA OverCall ==
  ASSUME NEW answer \in {"not_sent", "uncertain", "accepted", "rejected"}
  PROVE  /\ Over(answer) \in CallRecords
         /\ Over(answer).stage = "done" /\ Over(answer).answer = answer
BY DEF CallRecords, Over, NoCall

\* What a call may become, and be told, when it alone changes.
CallMoves(call) ==
  /\ calls' \in [Calls -> CallRecords]
  /\ \A c \in Calls : c # call => calls'[c] = calls[c]
  /\ calls'[call].stage # "done" => calls'[call].answer = "none"
  /\ calls'[call].stage \in {"idle", "preparing", "signed"} => call \notin sent'
  /\ calls'[call].answer = "accepted" => call \in accepted
  /\ calls'[call].answer = "rejected" => call \in rejected
  /\ calls'[call].answer = "not_sent" => call \notin sent'

\* One call moves and its counters with it.
LEMMA OneCall ==
  ASSUME CallsInv, NEW call \in Calls, CallMoves(call),
         submissions' = submissions - (IF calls[call].stage \in Counted THEN 1 ELSE 0)
                                    + (IF calls'[call].stage \in Counted THEN 1 ELSE 0),
         buffered' = buffered - (IF calls[call].stage \in Holding THEN 1 ELSE 0)
                              + (IF calls'[call].stage \in Holding THEN 1 ELSE 0),
         submissions' <= MaxSubmissions, buffered' <= MaxBuffered,
         UNCHANGED <<deliveries, accepted, rejected>>,
         sent' = sent \/ sent' = sent \cup {call}
  PROVE  CallsInv'
<1>1. IsFiniteSet(InStage(Counted)) /\ IsFiniteSet(InStage(Holding))
  BY HoldingFinite DEF CallsInv
<1>2. /\ IsFiniteSet(InStage(Counted)') /\ Count(Counted) \in Nat
      /\ Count(Counted)' = Count(Counted) - (IF calls[call].stage \in Counted THEN 1 ELSE 0)
                                          + (IF calls'[call].stage \in Counted THEN 1 ELSE 0)
  BY <1>1, CountMoves DEF CallMoves
<1>3. /\ IsFiniteSet(InStage(Holding)') /\ Count(Holding) \in Nat
      /\ Count(Holding)' = Count(Holding) - (IF calls[call].stage \in Holding THEN 1 ELSE 0)
                                          + (IF calls'[call].stage \in Holding THEN 1 ELSE 0)
  BY <1>1, CountMoves DEF CallMoves
<1>4. submissions' = Count(Counted)' /\ buffered' = Count(Holding)' + deliveries'
  BY <1>2, <1>3 DEF CallsInv
<1>5. Count(Counted)' \in Nat /\ Count(Holding)' \in Nat
  BY <1>2, <1>3, FS_CardinalityType DEF Count, InStage
<1>6. submissions' \in Nat /\ buffered' \in Nat /\ deliveries' \in Nat
  BY <1>4, <1>5 DEF CallsInv
<1>7. ASSUME NEW c \in Calls
      PROVE  /\ calls'[c].stage \in {"idle", "preparing", "signed"} => c \notin sent'
             /\ calls'[c].stage # "done" => calls'[c].answer = "none"
             /\ calls'[c].answer = "accepted" => c \in accepted
             /\ calls'[c].answer = "rejected" => c \in rejected
             /\ calls'[c].answer = "not_sent" => c \notin sent'
  <2>1. CASE c = call
    BY <2>1 DEF CallMoves
  <2>2. CASE c # call
    BY <2>2 DEF CallMoves, CallsInv, AnswersAreTrue
  <2> QED BY <2>1, <2>2
<1>8. AnswersAreTrue'
  BY <1>7 DEF AnswersAreTrue
<1> QED BY <1>2, <1>4, <1>6, <1>7, <1>8 DEF CallsInv, CallMoves

\* rejectWaiters: those who wait are told that it is uncertain, and give back what they hold.
LEMMA RejectCalls ==
  ASSUME CallsInv, NEW epochs, RejectWaiters(epochs), UNCHANGED <<deliveries, sent, accepted, rejected>>
  PROVE  /\ CallsInv'
         /\ \A call \in Calls : calls'[call].stage = "waiting" =>
              calls'[call] = calls[call] /\ calls[call].epoch \notin epochs
<1> DEFINE gone == Waiters(epochs)
<1>1. /\ calls \in [Calls -> CallRecords]
      /\ IsFiniteSet(InStage(Counted)) /\ IsFiniteSet(InStage(Holding))
  BY HoldingFinite DEF CallsInv
<1>2. /\ \A call \in gone : calls'[call] = Over("uncertain")
      /\ \A call \in Calls \ gone : calls'[call] = calls[call]
      /\ gone \subseteq Calls
      /\ submissions' = submissions - Cardinality(gone)
      /\ buffered' = buffered - Cardinality(gone)
      /\ calls' = [call \in Calls |-> calls'[call]]
  BY DEF RejectWaiters, Waiters
<1>3. \A call \in gone : /\ calls[call].stage = "waiting" /\ calls'[call].stage = "done"
                         /\ calls'[call].answer = "uncertain" /\ calls'[call] \in CallRecords
  <2>1. \A call \in gone : calls[call].stage = "waiting" /\ calls[call] \in CallRecords
    BY <1>1, <1>2 DEF Waiters
  <2> QED BY <1>2, <2>1, OverCall
<1>4. calls' \in [Calls -> CallRecords]
  <2>1. \A call \in Calls : calls'[call] \in CallRecords
    <3> HIDE DEF gone
    <3> QED BY <1>1, <1>2, <1>3
  <2> QED BY <1>2, <2>1
<1>5. gone \subseteq InStage(Holding) /\ gone \subseteq InStage(Counted)
  BY DEF Waiters, InStage, Holding, Counted
<1>6. InStage(Holding)' = InStage(Holding) \ gone /\ InStage(Counted)' = InStage(Counted) \ gone
  <2>1. ASSUME NEW call \in Calls
        PROVE  /\ call \in InStage(Holding)' <=> call \in InStage(Holding) \ gone
               /\ call \in InStage(Counted)' <=> call \in InStage(Counted) \ gone
    BY <1>2, <1>3 DEF InStage, Holding, Counted
  <2> QED BY <2>1 DEF InStage
<1> HIDE DEF gone
<1>7. /\ IsFiniteSet(InStage(Counted)')
      /\ Count(Counted)' = Count(Counted) - Cardinality(gone)
      /\ Count(Holding)' = Count(Holding) - Cardinality(gone)
  <2>1. InStage(Holding) \cap gone = gone /\ InStage(Counted) \cap gone = gone
    BY <1>5
  <2>2. IsFiniteSet(InStage(Counted) \ gone)
    BY <1>1, FS_Difference
  <2>3. Cardinality(InStage(Counted) \ gone) = Cardinality(InStage(Counted)) - Cardinality(gone)
    BY <1>1, <2>1, FS_Difference
  <2>4. Cardinality(InStage(Holding) \ gone) = Cardinality(InStage(Holding)) - Cardinality(gone)
    BY <1>1, <2>1, FS_Difference
  <2>5. /\ Count(Counted) = Cardinality(InStage(Counted)) /\ Count(Holding) = Cardinality(InStage(Holding))
        /\ Count(Counted)' = Cardinality(InStage(Counted)') /\ Count(Holding)' = Cardinality(InStage(Holding)')
    BY DEF Count, InStage
  <2> QED BY <1>6, <2>2, <2>3, <2>4, <2>5
<1>8. /\ Cardinality(gone) \in Nat /\ Count(Counted) \in Nat /\ Count(Holding) \in Nat
      /\ Count(Counted)' \in Nat /\ Count(Holding)' \in Nat
  <2>1. IsFiniteSet(gone)
    BY <1>1, <1>5, FS_Subset
  <2>2. IsFiniteSet(InStage(Holding)')
    BY <1>1, <1>6, FS_Difference
  <2> QED BY <1>1, <1>7, <2>1, <2>2, FS_CardinalityType DEF Count, InStage
<1>9. /\ submissions' = Count(Counted)' /\ buffered' = Count(Holding)' + deliveries'
      /\ submissions' \in Nat /\ buffered' \in Nat /\ deliveries' \in Nat
      /\ submissions' <= MaxSubmissions /\ buffered' <= MaxBuffered
  <2>1. MaxSubmissions \in Nat /\ MaxBuffered \in Nat
    BY GatewayAssumption
  <2>2. /\ submissions = Count(Counted) /\ buffered = Count(Holding) + deliveries
        /\ submissions <= MaxSubmissions /\ buffered <= MaxBuffered /\ deliveries \in Nat
        /\ deliveries' = deliveries
    BY DEF CallsInv
  <2> QED BY <1>2, <1>7, <1>8, <2>1, <2>2
<1>10. ASSUME NEW c \in Calls
       PROVE  /\ calls'[c].stage \in {"idle", "preparing", "signed"} => c \notin sent'
              /\ calls'[c].stage # "done" => calls'[c].answer = "none"
              /\ calls'[c].answer = "accepted" => c \in accepted
              /\ calls'[c].answer = "rejected" => c \in rejected
              /\ calls'[c].answer = "not_sent" => c \notin sent'
  <2>1. CASE c \in gone
    BY <1>3, <2>1
  <2>2. CASE c \notin gone
    BY <1>2, <2>2 DEF CallsInv, AnswersAreTrue
  <2> QED BY <2>1, <2>2
<1>11. AnswersAreTrue'
  BY <1>10 DEF AnswersAreTrue
<1>12. CallsInv'
  BY <1>4, <1>7, <1>9, <1>10, <1>11 DEF CallsInv
<1>13. ASSUME NEW call \in Calls, calls'[call].stage = "waiting"
       PROVE  calls'[call] = calls[call] /\ calls[call].epoch \notin epochs
  <2>1. call \notin gone
    BY <1>3, <1>13
  <2> QED BY <1>2, <1>13, <2>1 DEF gone, Waiters
<1> QED BY <1>12, <1>13

\* The finally blocks of fetch and submit, for a call that is in progress.
LEMMA FinishCall ==
  ASSUME CallsInv, NEW call \in Calls, NEW answer \in {"not_sent", "uncertain", "accepted", "rejected"},
         NEW reserved \in Nat, Finish(call, answer, reserved),
         \/ calls[call].stage = "preparing" /\ reserved = 0
         \/ calls[call].stage \in Holding /\ reserved = 1,
         answer = "accepted" => call \in accepted,
         answer = "rejected" => call \in rejected,
         answer = "not_sent" => calls[call].stage # "waiting",
         UNCHANGED <<deliveries, sent, accepted, rejected>>
  PROVE  /\ CallsInv'
         /\ \A c \in Calls : calls'[c].stage = "waiting" => calls'[c] = calls[c]
<1>1. /\ calls \in [Calls -> CallRecords] /\ submissions \in Nat /\ buffered \in Nat
      /\ submissions <= MaxSubmissions /\ buffered <= MaxBuffered
      /\ MaxSubmissions \in Nat /\ MaxBuffered \in Nat
  BY GatewayAssumption DEF CallsInv
<1>2. /\ calls'[call] = Over(answer)
      /\ \A c \in Calls : c # call => calls'[c] = calls[c]
      /\ calls' = [c \in Calls |-> calls'[c]]
      /\ submissions' = submissions - 1 /\ buffered' = buffered - reserved
  BY <1>1 DEF Finish
<1>3. calls'[call] \in CallRecords /\ calls'[call].stage = "done" /\ calls'[call].answer = answer
  BY <1>1, <1>2, OverCall
<1>4. calls' \in [Calls -> CallRecords]
  BY <1>1, <1>2, <1>3
<1>5. answer = "not_sent" => call \notin sent
  BY <1>1 DEF CallsInv, Holding
<1>6. CallMoves(call)
  BY <1>2, <1>3, <1>4, <1>5 DEF CallMoves
<1>7. /\ calls'[call].stage \notin Counted /\ calls'[call].stage \notin Holding
      /\ calls[call].stage \in Counted
      /\ reserved = IF calls[call].stage \in Holding THEN 1 ELSE 0
  BY <1>3 DEF Counted, Holding
<1>8. /\ submissions' = submissions - (IF calls[call].stage \in Counted THEN 1 ELSE 0)
                                    + (IF calls'[call].stage \in Counted THEN 1 ELSE 0)
      /\ buffered' = buffered - (IF calls[call].stage \in Holding THEN 1 ELSE 0)
                              + (IF calls'[call].stage \in Holding THEN 1 ELSE 0)
      /\ submissions' <= MaxSubmissions /\ buffered' <= MaxBuffered
  <2>1. CASE calls[call].stage \in Holding
    BY <1>1, <1>2, <1>7, <2>1
  <2>2. CASE calls[call].stage \notin Holding
    BY <1>1, <1>2, <1>7, <2>2
  <2> QED BY <2>1, <2>2
<1>9. CallsInv'
  BY <1>6, <1>8, OneCall
<1> QED BY <1>2, <1>3, <1>9

\* Calls and their counters are left alone; the daemon may have answered more.
LEMMA CallsSame ==
  ASSUME CallsInv, UNCHANGED <<calls, submissions, buffered, deliveries, sent>>,
         accepted \subseteq accepted', rejected \subseteq rejected'
  PROVE  CallsInv'
<1>1. InStage(Counted)' = InStage(Counted) /\ Count(Counted)' = Count(Counted)
      /\ Count(Holding)' = Count(Holding)
  BY DEF InStage, Count
<1>2. AnswersAreTrue'
  BY DEF CallsInv, AnswersAreTrue
<1> QED BY <1>1, <1>2 DEF CallsInv

\* A delivery begins or ends and takes its buffer with it.
LEMMA CallsBeside ==
  ASSUME CallsInv, UNCHANGED <<calls, submissions, daemon>>, NEW change \in {-1, 1},
         deliveries' = deliveries + change, buffered' = buffered + change,
         deliveries' \in Nat, buffered' <= MaxBuffered
  PROVE  CallsInv'
<1>1. /\ InStage(Counted)' = InStage(Counted) /\ Count(Counted)' = Count(Counted)
      /\ Count(Holding)' = Count(Holding)
  BY DEF InStage, Count
<1>2. AnswersAreTrue' /\ sent' = sent
  BY DEF CallsInv, AnswersAreTrue, daemon
<1>3. Count(Holding) \in Nat
  BY HoldingFinite, FS_CardinalityType DEF Count, InStage
<1>4. buffered' = Count(Holding) + deliveries' /\ buffered' \in Nat
  BY <1>3 DEF CallsInv
<1> QED BY <1>1, <1>2, <1>4 DEF CallsInv

-----------------------------------------------------------------------------
(* Sockets *)

\* Those who wait, wait on a socket that is as it was, open, or closed after a fault.
LEMMA WaitersStep ==
  ASSUME WaitersHaveSockets, faults \in Nat, faults' \in Nat, faults' >= faults,
         \A call \in Calls : calls'[call].stage = "waiting" /\ calls'[call].epoch \in Epochs =>
           \/ /\ calls'[call] = calls[call]
              /\ sockets'[calls[call].epoch].state = sockets[calls[call].epoch].state
           \/ sockets'[calls'[call].epoch].state = "open"
           \/ sockets'[calls'[call].epoch].state = "closing" /\ faults' > 0
  PROVE  WaitersHaveSockets'
<1> SUFFICES ASSUME NEW call \in Calls, calls'[call].stage = "waiting", calls'[call].epoch \in Epochs
             PROVE  \/ sockets'[calls'[call].epoch].state = "open"
                    \/ sockets'[calls'[call].epoch].state = "closing" /\ faults' > 0
  BY DEF WaitersHaveSockets, Waiters, Open
<1>1. CASE /\ calls'[call] = calls[call]
           /\ sockets'[calls[call].epoch].state = sockets[calls[call].epoch].state
  <2>1. call \in Waiters(Epochs)
    BY <1>1 DEF Waiters
  <2>2. \/ sockets[calls[call].epoch].state = "open"
        \/ sockets[calls[call].epoch].state = "closing" /\ faults > 0
    BY <2>1 DEF WaitersHaveSockets, Open
  <2> QED BY <1>1, <2>2
<1> QED BY <1>1

\* What closing some sockets makes of them.
LEMMA ClosedSockets ==
  ASSUME LinkInv, NEW epochs
  PROVE  /\ Closed(epochs) \in [Epochs -> SocketRecords]
         /\ \A e \in Epochs :
              /\ Closed(epochs)[e].version = sockets[e].version
              /\ e \notin epochs => Closed(epochs)[e] = sockets[e]
              /\ e \in epochs => Closed(epochs)[e].state # "open"
              /\ Closed(epochs)[e].state = "open" => sockets[e].state = "open"
              /\ sockets[e].state # "open" => Closed(epochs)[e] = sockets[e]
              /\ Closed(epochs)[e].state = "closing" \/ Closed(epochs)[e] = sockets[e]
<1>1. sockets \in [Epochs -> SocketRecords]
  BY DEF LinkInv
<1>2. ASSUME NEW e \in Epochs
      PROVE  /\ Closed(epochs)[e] \in SocketRecords
             /\ Closed(epochs)[e].version = sockets[e].version
             /\ e \notin epochs => Closed(epochs)[e] = sockets[e]
             /\ e \in epochs => Closed(epochs)[e].state # "open"
             /\ Closed(epochs)[e].state = "open" => sockets[e].state = "open"
             /\ sockets[e].state # "open" => Closed(epochs)[e] = sockets[e]
             /\ Closed(epochs)[e].state = "closing" \/ Closed(epochs)[e] = sockets[e]
  <2>1. CASE e \in epochs /\ sockets[e].state = "open"
    <3>1. Closed(epochs)[e] = [sockets[e] EXCEPT !.state = "closing"]
      BY <2>1 DEF Closed, Open
    <3>2. /\ [sockets[e] EXCEPT !.state = "closing"] \in SocketRecords
          /\ [sockets[e] EXCEPT !.state = "closing"].version = sockets[e].version
          /\ [sockets[e] EXCEPT !.state = "closing"].state = "closing"
      BY <1>1 DEF SocketRecords
    <3> QED BY <2>1, <3>1, <3>2
  <2>2. CASE ~(e \in epochs /\ sockets[e].state = "open")
    <3>1. Closed(epochs)[e] = sockets[e]
      BY <2>2 DEF Closed, Open
    <3> QED BY <1>1, <2>2, <3>1
  <2> QED BY <2>1, <2>2
<1>3. Closed(epochs) \in [Epochs -> SocketRecords]
  <2>1. Closed(epochs) = [e \in Epochs |-> Closed(epochs)[e]]
    BY DEF Closed
  <2> QED BY <1>2, <2>1
<1> QED BY <1>2, <1>3

\* Sockets may close while the row stays.
LEMMA LinkCloses ==
  ASSUME LinkInv, row' = row, sockets' \in [Epochs -> SocketRecords], faults' \in Nat,
         \A e \in Epochs : sockets'[e].state = "open" =>
           sockets[e].state = "open" /\ sockets'[e].version = sockets[e].version
  PROVE  LinkInv'
<1>1. OneDaemon'
  BY DEF LinkInv, OneDaemon, Open
<1> QED BY <1>1 DEF LinkInv

-----------------------------------------------------------------------------
(* Deliveries and frames *)

\* There are finitely many slots.
LEMMA HeldFinite == IsFiniteSet(Held) /\ IsFiniteSet(Held')
<1>1. MaxDeliveries \in Nat /\ IsFiniteSet(Slots)
  BY GatewayAssumption, FS_Interval DEF Slots
<1>2. Held \subseteq Slots /\ Held' \subseteq Slots
  BY DEF Held
<1> QED BY <1>1, <1>2, FS_Subset

\* deliver takes a free slot.
LEMMA SlotTaken ==
  ASSUME DeliveriesInv, NEW slot \in Slots, inflight[slot] = NoDelivery, NEW d \in DeliveryRecords,
         inflight' = [inflight EXCEPT ![slot] = d], deliveries' = deliveries + 1,
         deliveries < MaxDeliveries
  PROVE  DeliveriesInv' /\ deliveries' \in Nat
<1>1. d # NoDelivery
  BY DEF DeliveryRecords, NoDelivery
<1>2. Held' = Held \cup {slot} /\ slot \notin Held
  BY <1>1 DEF Held, DeliveriesInv
<1>3. Cardinality(Held') = Cardinality(Held) + 1 /\ Cardinality(Held) \in Nat
  BY <1>2, HeldFinite, FS_AddElement, FS_CardinalityType
<1>4. inflight' \in [Slots -> {NoDelivery} \cup DeliveryRecords]
  BY DEF DeliveriesInv
<1>5. MaxDeliveries \in Nat
  BY GatewayAssumption
<1> QED BY <1>3, <1>4, <1>5 DEF DeliveriesInv

\* deliver gives its slot back.
LEMMA SlotFreed ==
  ASSUME DeliveriesInv, NEW slot \in Slots, inflight[slot] # NoDelivery,
         inflight' = [inflight EXCEPT ![slot] = NoDelivery], deliveries' = deliveries - 1
  PROVE  DeliveriesInv' /\ deliveries' \in Nat
<1>2. Held' = Held \ {slot} /\ slot \in Held
  BY DEF Held, DeliveriesInv
<1>3. /\ Cardinality(Held') = Cardinality(Held) - 1 /\ Cardinality(Held) \in Nat
      /\ Cardinality(Held') \in Nat
  BY <1>2, HeldFinite, FS_RemoveElement, FS_CardinalityType
<1>4. inflight' \in [Slots -> {NoDelivery} \cup DeliveryRecords]
  BY DEF DeliveriesInv
<1>5. MaxDeliveries \in Nat
  BY GatewayAssumption
<1> QED BY <1>3, <1>4, <1>5 DEF DeliveriesInv

\* Frames that are added say what was said; the others said it before.
LEMMA WiresStep ==
  ASSUME WiresInv, accepted \subseteq accepted', rejected \subseteq rejected',
         admitted \subseteq admitted', refused \subseteq refused', deployment' = deployment,
         \A frame \in toGateway' :
           \/ frame \in toGateway
           \/ /\ frame.epoch \in Epochs
              /\ \/ frame.type = "accepted" /\ frame.about \in accepted'
                 \/ frame.type = "rejected" /\ frame.about \in rejected'
                 \/ frame.type = "result" /\ frame.about \in Results,
         \A frame \in toDaemon' :
           \/ frame \in toDaemon
           \/ /\ frame.epoch \in Epochs
              /\ \/ frame.type = "result_ack" /\ frame.about.request \in admitted'
                 \/ frame.type = "refused" /\ frame.about.request \in refused'
                 \/ frame.type = "invalid" /\ frame.about.envelope \notin deployment.verified
                 \/ frame.type = "unrouted" /\ deployment.routes = "broken"
                 \/ frame.type \in {"nack", "request"}
  PROVE  WiresInv'
<1>1. ASSUME NEW frame \in toGateway'
      PROVE  /\ frame.epoch \in Epochs
             /\ frame.type = "accepted" => frame.about \in accepted'
             /\ frame.type = "rejected" => frame.about \in rejected'
             /\ frame.type = "result" => frame.about \in Results
  BY DEF WiresInv
<1>2. ASSUME NEW frame \in toDaemon'
      PROVE  /\ frame.epoch \in Epochs
             /\ frame.type = "result_ack" => frame.about.request \in admitted'
             /\ frame.type = "refused" => frame.about.request \in refused'
             /\ frame.type = "invalid" => frame.about.envelope \notin deployment'.verified
             /\ frame.type = "unrouted" => deployment'.routes = "broken"
             /\ frame.type # "revoked"
  BY DEF WiresInv, VerdictsAreTrue
<1> QED BY <1>1, <1>2 DEF WiresInv, VerdictsAreTrue

-----------------------------------------------------------------------------
(* The actions *)

\* Registration, a new execution secret and hello touch no call and close nothing.
LEMMA RegisterStep ==
  ASSUME GatewayInv, deployment' = deployment,
         \/ Register \/ RotateExecution
         \/ \E epoch \in Epochs, generation \in Generations : Hello(epoch, generation)
  PROVE  GatewayInv'
<1>0. CallsInv /\ DeliveriesInv /\ LinkInv /\ WaitersHaveSockets /\ WiresInv
  BY DEF GatewayInv
<1>1. UNCHANGED <<calls, inflight, counters, wires, receiver, daemon, faults>>
  BY DEF Register, RotateExecution, Hello
<1>2. /\ UNCHANGED <<calls, submissions, buffered, deliveries, sent, accepted, rejected, inflight,
                     toDaemon, toGateway, admitted, refused, faults>>
  BY <1>1 DEF counters, wires, receiver, daemon
<1>3. CallsInv' /\ DeliveriesInv' /\ WiresInv'
  <2>1. CallsInv'
    BY <1>0, <1>2, CallsSame
  <2>2. DeliveriesInv'
    BY <1>0, <1>2 DEF DeliveriesInv, Held
  <2>3. WiresInv'
    BY <1>0, <1>2, WiresStep
  <2> QED BY <2>1, <2>2, <2>3
<1>4. /\ row \in RowRecords /\ sockets \in [Epochs -> SocketRecords] /\ faults \in Nat
  BY <1>0 DEF LinkInv
<1>5. CASE Register
  <2>1. /\ row.state = "none" /\ sockets' = sockets
        /\ row' = [row EXCEPT !.state = "live", !.daemon = 1, !.execution = 1]
    BY <1>5 DEF Register
  <2>2. row' \in RowRecords
    BY <1>4, <2>1 DEF RowRecords
  <2>3. \A epoch \in Epochs : ~Open(epoch)
    BY <1>0, <2>1 DEF LinkInv, OneDaemon
  <2>4. LinkInv'
    BY <1>2, <1>4, <2>1, <2>2, <2>3 DEF LinkInv, OneDaemon, Open
  <2>5. WaitersHaveSockets'
    BY <1>0, <1>2, <1>4, <2>1, WaitersStep
  <2> QED BY <1>3, <2>4, <2>5 DEF GatewayInv
<1>6. CASE RotateExecution
  <2>1. sockets' = sockets /\ row' = [row EXCEPT !.execution = @ + 1]
    BY <1>6 DEF RotateExecution
  <2>2. /\ row' \in RowRecords
        /\ row'.state = row.state /\ row'.epoch = row.epoch /\ row'.daemon = row.daemon
    BY <1>4, <2>1 DEF RowRecords
  <2>4. LinkInv'
    BY <1>0, <1>2, <1>4, <2>1, <2>2 DEF LinkInv, OneDaemon, Open
  <2>5. WaitersHaveSockets'
    BY <1>0, <1>2, <1>4, <2>1, WaitersStep
  <2> QED BY <1>3, <2>4, <2>5 DEF GatewayInv
<1>7. ASSUME NEW epoch \in Epochs, NEW generation \in Generations, Hello(epoch, generation)
      PROVE  GatewayInv'
  <2>1. sockets' = [sockets EXCEPT ![epoch].generation = generation] /\ row' = row
    BY <1>7 DEF Hello
  <2>2. /\ sockets' \in [Epochs -> SocketRecords]
        /\ \A e \in Epochs : /\ sockets'[e].state = sockets[e].state
                             /\ sockets'[e].version = sockets[e].version
    BY <1>4, <2>1 DEF SocketRecords
  <2>4. LinkInv'
    BY <1>0, <1>2, <1>4, <2>1, <2>2, LinkCloses
  <2>5. WaitersHaveSockets'
    BY <1>0, <1>2, <1>4, <2>2, WaitersStep
  <2> QED BY <1>3, <2>4, <2>5 DEF GatewayInv
<1> QED BY <1>5, <1>6, <1>7

\* A rotated daemon secret, a deletion or a new connection closes every socket that
\* was open and tells everyone who waits.
LEMMA ReplaceStep ==
  ASSUME GatewayInv, deployment' = deployment, RotateDaemon \/ Delete \/ Connect
  PROVE  GatewayInv'
<1>0. CallsInv /\ DeliveriesInv /\ LinkInv /\ WaitersHaveSockets /\ WiresInv
  BY DEF GatewayInv
<1>1. /\ RejectWaiters(Epochs)
      /\ UNCHANGED <<inflight, deliveries, wires, receiver, daemon, faults>>
  BY DEF RotateDaemon, Delete, Connect, CloseConnections
<1>2. UNCHANGED <<deliveries, sent, accepted, rejected, inflight, toDaemon, toGateway, admitted, refused>>
  BY <1>1 DEF wires, receiver, daemon
<1>3. /\ CallsInv'
      /\ \A call \in Calls : calls'[call].stage = "waiting" => calls[call].epoch \notin Epochs
                                                               /\ calls'[call] = calls[call]
  BY <1>0, <1>1, <1>2, RejectCalls
<1>4. DeliveriesInv'
  BY <1>0, <1>2 DEF DeliveriesInv, Held
<1>5. WiresInv'
  BY <1>0, <1>2, WiresStep
<1>6. row \in RowRecords /\ sockets \in [Epochs -> SocketRecords] /\ faults \in Nat /\ faults' = faults
  BY <1>0, <1>1 DEF LinkInv
<1>7. WaitersHaveSockets'
  BY <1>3, <1>6 DEF WaitersHaveSockets, Waiters
<1>8. /\ Closed(Epochs) \in [Epochs -> SocketRecords]
      /\ \A e \in Epochs : Closed(Epochs)[e].state # "open"
  BY <1>0, ClosedSockets
<1>9. CASE RotateDaemon \/ Delete
  <2>1. sockets' = Closed(Epochs)
    BY <1>9 DEF RotateDaemon, Delete, CloseConnections
  <2>2. row' \in RowRecords
    <3>1. CASE row' = [row EXCEPT !.daemon = @ + 1]
      BY <1>6, <3>1 DEF RowRecords
    <3>2. CASE row' = [row EXCEPT !.state = "deleted"]
      BY <1>6, <3>2 DEF RowRecords
    <3> QED BY <1>9, <3>1, <3>2 DEF RotateDaemon, Delete
  <2>3. LinkInv'
    BY <1>6, <1>8, <2>1, <2>2 DEF LinkInv, OneDaemon, Open
  <2> QED BY <1>3, <1>4, <1>5, <1>7, <2>3 DEF GatewayInv
<1>10. CASE Connect
  <2> DEFINE new == [state |-> "open", version |-> row.daemon, generation |-> NoGeneration]
             e == row.epoch + 1
  <2>1. /\ row.state = "live" /\ row.epoch < MaxEpochs /\ row' = [row EXCEPT !.epoch = @ + 1]
        /\ sockets' = [Closed(Epochs) EXCEPT ![e] = new]
    BY <1>10 DEF Connect
  <2>2. /\ e \in Epochs /\ row' \in RowRecords /\ row'.epoch = e /\ row'.state = "live"
        /\ row'.daemon = row.daemon
    <3>1. MaxEpochs \in Nat /\ row.epoch \in Nat
      BY <1>6, GatewayAssumption DEF RowRecords
    <3> QED BY <1>6, <2>1, <3>1 DEF RowRecords, Epochs
  <2>3. new \in SocketRecords /\ new.version = row.daemon
    BY <1>6 DEF RowRecords, SocketRecords
  <2> HIDE DEF new, e
  <2>4. /\ sockets' \in [Epochs -> SocketRecords] /\ sockets'[e] = new
        /\ \A x \in Epochs : x # e => sockets'[x].state # "open"
    BY <1>8, <2>1, <2>2, <2>3
  <2>5. LinkInv'
    BY <1>6, <2>2, <2>3, <2>4 DEF LinkInv, OneDaemon, Open
  <2> QED BY <1>3, <1>4, <1>5, <1>7, <2>5 DEF GatewayInv
<1> QED BY <1>9, <1>10

\* A socket ends or is closed, and those who wait on it are told.
LEMMA SocketStep ==
  ASSUME GatewayInv, deployment' = deployment,
         \/ \E epoch \in Epochs : SocketEnds(epoch) \/ MessageInvalid(epoch)
         \/ \E frame \in toGateway : MessageRefused(frame)
  PROVE  GatewayInv'
<1>0. CallsInv /\ DeliveriesInv /\ LinkInv /\ WaitersHaveSockets /\ WiresInv
  BY DEF GatewayInv
<1>1. row \in RowRecords /\ sockets \in [Epochs -> SocketRecords] /\ faults \in Nat
  BY <1>0 DEF LinkInv
<1>2. PICK epoch \in Epochs :
        /\ RejectWaiters({epoch})
        /\ \/ sockets' = [sockets EXCEPT ![epoch] = NoSocket]
           \/ sockets' = Closed({epoch})
        /\ UNCHANGED <<row, inflight, deliveries, receiver, daemon>>
        /\ faults' = faults \/ faults' = faults + 1
        /\ toDaemon' \subseteq toDaemon /\ toGateway' \subseteq toGateway
  <2>1. ASSUME NEW epoch \in Epochs, SocketEnds(epoch) \/ MessageInvalid(epoch)
        PROVE  /\ RejectWaiters({epoch})
               /\ \/ sockets' = [sockets EXCEPT ![epoch] = NoSocket]
                  \/ sockets' = Closed({epoch})
               /\ UNCHANGED <<row, inflight, deliveries, receiver, daemon>>
               /\ faults' = faults \/ faults' = faults + 1
               /\ toDaemon' \subseteq toDaemon /\ toGateway' \subseteq toGateway
    BY <2>1 DEF SocketEnds, MessageInvalid, Fault, wires
  <2>2. ASSUME NEW frame \in toGateway, MessageRefused(frame)
        PROVE  /\ frame.epoch \in Epochs
               /\ RejectWaiters({frame.epoch})
               /\ sockets' = Closed({frame.epoch})
               /\ UNCHANGED <<row, inflight, deliveries, receiver, daemon>>
               /\ faults' = faults
               /\ toDaemon' \subseteq toDaemon /\ toGateway' \subseteq toGateway
    BY <1>0, <2>2 DEF MessageRefused, Read, WiresInv
  <2> QED BY <2>1, <2>2
<1>3. UNCHANGED <<deliveries, sent, accepted, rejected, inflight, admitted, refused, row>>
  BY <1>2 DEF receiver, daemon
<1>4. /\ CallsInv'
      /\ \A call \in Calls : calls'[call].stage = "waiting" =>
           calls'[call] = calls[call] /\ calls[call].epoch \notin {epoch}
  BY <1>0, <1>2, <1>3, RejectCalls
<1>5. DeliveriesInv'
  BY <1>0, <1>3 DEF DeliveriesInv, Held
<1>6. WiresInv'
  BY <1>0, <1>2, <1>3, WiresStep
<1>7. /\ sockets' \in [Epochs -> SocketRecords]
      /\ \A x \in Epochs : x # epoch => sockets'[x] = sockets[x]
      /\ sockets'[epoch].state # "open"
  <2>1. CASE sockets' = [sockets EXCEPT ![epoch] = NoSocket]
    BY <1>1, <2>1 DEF SocketRecords, NoSocket
  <2>2. CASE sockets' = Closed({epoch})
    <3>1. /\ Closed({epoch}) \in [Epochs -> SocketRecords]
          /\ \A x \in Epochs : x \notin {epoch} => Closed({epoch})[x] = sockets[x]
          /\ Closed({epoch})[epoch].state # "open"
      BY <1>0, ClosedSockets
    <3> QED BY <2>2, <3>1
  <2> QED BY <1>2, <2>1, <2>2
<1>8. faults' \in Nat /\ faults' >= faults
  BY <1>1, <1>2
<1>9. LinkInv'
  BY <1>0, <1>3, <1>7, <1>8, LinkCloses
<1>10. WaitersHaveSockets'
  BY <1>0, <1>1, <1>4, <1>7, <1>8, WaitersStep
<1> QED BY <1>4, <1>5, <1>6, <1>9, <1>10 DEF GatewayInv

\* The close after an oversized frame: those who wait keep waiting.
LEMMA TooLargeStep ==
  ASSUME GatewayInv, deployment' = deployment, NEW epoch \in Epochs, MessageTooLarge(epoch)
  PROVE  GatewayInv'
<1>0. CallsInv /\ DeliveriesInv /\ LinkInv /\ WaitersHaveSockets /\ WiresInv
  BY DEF GatewayInv
<1>1. /\ sockets' = Closed({epoch}) /\ row' = row /\ faults \in Nat /\ faults' = faults + 1
      /\ UNCHANGED <<calls, submissions, buffered, deliveries, sent, accepted, rejected, inflight,
                     toDaemon, toGateway, admitted, refused>>
  BY <1>0 DEF MessageTooLarge, Fault, counters, wires, receiver, daemon, LinkInv
<1>2. CallsInv'
  BY <1>0, <1>1, CallsSame
<1>3. DeliveriesInv'
  BY <1>0, <1>1 DEF DeliveriesInv, Held
<1>4. WiresInv'
  BY <1>0, <1>1, WiresStep
<1>5. /\ Closed({epoch}) \in [Epochs -> SocketRecords]
      /\ \A x \in Epochs : /\ Closed({epoch})[x].version = sockets[x].version
                           /\ Closed({epoch})[x].state = "open" => sockets[x].state = "open"
                           /\ Closed({epoch})[x].state = "closing" \/ Closed({epoch})[x] = sockets[x]
  BY <1>0, ClosedSockets
<1>6. faults' \in Nat /\ faults' >= faults /\ faults' > 0
  BY <1>1
<1>7. LinkInv'
  BY <1>0, <1>1, <1>5, <1>6, LinkCloses
<1>8. WaitersHaveSockets'
  BY <1>0, <1>1, <1>5, <1>6, WaitersStep
<1> QED BY <1>2, <1>3, <1>4, <1>7, <1>8 DEF GatewayInv

\* An eviction or a deployment empties the object: its memory starts over, callers are
\* uncertain, and no frame is left that speaks of what the deployment was.
LEMMA EvictStep ==
  ASSUME GatewayInv, Restarts
  PROVE  GatewayInv'
<1>0. CallsInv /\ DeliveriesInv /\ LinkInv /\ WaitersHaveSockets /\ WiresInv
  BY DEF GatewayInv
<1>1. /\ row \in RowRecords /\ sockets \in [Epochs -> SocketRecords] /\ faults \in Nat
      /\ calls \in [Calls -> CallRecords]
  BY <1>0 DEF LinkInv, CallsInv
<1>2. /\ sockets' = [epoch \in Epochs |-> NoSocket]
      /\ calls' = [call \in Calls |->
                     IF calls[call].stage \in {"idle", "done"} THEN calls[call]
                     ELSE Over("uncertain")]
      /\ inflight' = [slot \in Slots |-> NoDelivery]
      /\ submissions' = 0 /\ deliveries' = 0 /\ buffered' = 0
      /\ toDaemon' = {} /\ toGateway' = {} /\ faults' = faults + 1
      /\ UNCHANGED <<row, admitted, refused, sent, accepted, rejected>>
  BY DEF Restarts, Fault, receiver, daemon
<1>3. ASSUME NEW call \in Calls
      PROVE  /\ calls'[call] \in CallRecords /\ calls'[call].stage \in {"idle", "done"}
             /\ \/ calls'[call] = calls[call]
                \/ calls'[call].answer = "uncertain" /\ calls'[call].stage = "done"
  <2>1. CASE calls[call].stage \in {"idle", "done"}
    <3>1. calls'[call] = calls[call]
      BY <1>2, <2>1
    <3> QED BY <1>1, <2>1, <3>1
  <2>2. CASE calls[call].stage \notin {"idle", "done"}
    <3>1. calls'[call] = Over("uncertain")
      BY <1>1, <1>2, <2>2
    <3> QED BY <3>1, OverCall
  <2> QED BY <2>1, <2>2
<1>4. CallsInv'
  <2>1. calls' \in [Calls -> CallRecords]
    BY <1>2, <1>3
  <2>2. InStage(Counted)' = {} /\ InStage(Holding)' = {}
    BY <1>3 DEF InStage, Counted, Holding
  <2>3. IsFiniteSet({}) /\ Cardinality({}) = 0
    BY FS_EmptySet
  <2>4. /\ Count(Counted)' = Cardinality(InStage(Counted)')
        /\ Count(Holding)' = Cardinality(InStage(Holding)')
    BY DEF Count, InStage
  <2>5. IsFiniteSet(InStage(Counted)') /\ Count(Counted)' = 0 /\ Count(Holding)' = 0
    BY <2>2, <2>3, <2>4
  <2>6. ASSUME NEW c \in Calls
        PROVE  /\ calls'[c].stage \in {"idle", "preparing", "signed"} => c \notin sent'
               /\ calls'[c].stage # "done" => calls'[c].answer = "none"
               /\ calls'[c].answer = "accepted" => c \in accepted
               /\ calls'[c].answer = "rejected" => c \in rejected
               /\ calls'[c].answer = "not_sent" => c \notin sent'
    BY <1>0, <1>2, <1>3 DEF CallsInv, AnswersAreTrue
  <2>7. AnswersAreTrue'
    BY <1>2, <2>6 DEF AnswersAreTrue
  <2>8. MaxSubmissions \in Nat /\ MaxBuffered \in Nat
    BY GatewayAssumption
  <2> QED BY <1>2, <2>1, <2>5, <2>6, <2>7, <2>8 DEF CallsInv
<1>5. DeliveriesInv'
  <2>1. Held' = {}
    BY <1>2 DEF Held
  <2>2. Cardinality(Held') = 0
    BY <2>1, FS_EmptySet
  <2>3. MaxDeliveries \in Nat
    BY GatewayAssumption
  <2> QED BY <1>2, <2>2, <2>3 DEF DeliveriesInv
<1>6. /\ sockets' \in [Epochs -> SocketRecords]
      /\ \A e \in Epochs : sockets'[e].state = "none"
  BY <1>1, <1>2 DEF SocketRecords, NoSocket
<1>7. LinkInv'
  BY <1>0, <1>1, <1>2, <1>6, LinkCloses
<1>8. WaitersHaveSockets'
  BY <1>3 DEF WaitersHaveSockets, Waiters
<1>9. WiresInv'
  BY <1>2 DEF WiresInv, VerdictsAreTrue
<1> QED BY <1>4, <1>5, <1>7, <1>8, <1>9 DEF GatewayInv

\* A step of a call that is not its dispatch.
LEMMA CallOnly ==
  ASSUME GatewayInv, deployment' = deployment, CallsInv',
         \A c \in Calls : calls'[c].stage = "waiting" => calls'[c] = calls[c],
         UNCHANGED <<row, sockets, inflight, deliveries, receiver, daemon, faults, toDaemon>>,
         toGateway' \subseteq toGateway
  PROVE  GatewayInv'
<1>0. DeliveriesInv /\ LinkInv /\ WaitersHaveSockets /\ WiresInv
  BY DEF GatewayInv
<1>1. UNCHANGED <<accepted, rejected, admitted, refused>>
  BY DEF receiver, daemon
<1>2. DeliveriesInv'
  BY <1>0 DEF DeliveriesInv, Held
<1>3. LinkInv'
  BY <1>0, LinkCloses DEF LinkInv
<1>4. WaitersHaveSockets'
  BY <1>0, WaitersStep DEF LinkInv
<1>5. WiresInv'
  BY <1>0, <1>1, WiresStep
<1> QED BY <1>2, <1>3, <1>4, <1>5 DEF GatewayInv

\* fetch and authorize: a call is refused or begins.
LEMMA ArriveStep ==
  ASSUME GatewayInv, deployment' = deployment, NEW call \in Calls, NEW token \in Versions, NEW generation \in Generations,
         SubmitArrives(call, token, generation)
  PROVE  GatewayInv'
<1>0. CallsInv
  BY DEF GatewayInv
<1>1. /\ calls \in [Calls -> CallRecords] /\ calls[call].stage = "idle" /\ token \in Nat
      /\ submissions \in Nat /\ buffered \in Nat /\ submissions <= MaxSubmissions
      /\ buffered <= MaxBuffered /\ MaxSubmissions \in Nat /\ MaxBuffered \in Nat
      /\ call \notin sent /\ calls[call].answer = "none"
  BY <1>0, GatewayAssumption DEF SubmitArrives, CallsInv, Versions
<1>2. /\ UNCHANGED <<row, sockets, inflight, deliveries, receiver, daemon, faults, toDaemon, toGateway>>
      /\ UNCHANGED <<deliveries, accepted, rejected, sent>> /\ buffered' = buffered
  BY DEF SubmitArrives, wires, daemon
<1>3. CASE /\ calls' = [calls EXCEPT ![call].stage = "preparing", ![call].token = token,
                                     ![call].generation = generation]
           /\ submissions < MaxSubmissions /\ submissions' = submissions + 1
  <2> DEFINE x == [calls[call] EXCEPT !.stage = "preparing", !.token = token,
                                      !.generation = generation]
  <2>1. x \in CallRecords /\ x.stage = "preparing" /\ x.answer = calls[call].answer
    BY <1>1 DEF CallRecords
  <2>2. calls' = [calls EXCEPT ![call] = x]
    BY <1>1, <1>3
  <2> HIDE DEF x
  <2>3. /\ calls' \in [Calls -> CallRecords] /\ calls'[call] = x
        /\ \A c \in Calls : c # call => calls'[c] = calls[c]
    BY <1>1, <2>1, <2>2
  <2>4. CallMoves(call)
    BY <1>1, <1>2, <2>1, <2>3 DEF CallMoves
  <2>5. /\ calls[call].stage \notin Counted /\ calls[call].stage \notin Holding
        /\ calls'[call].stage \in Counted /\ calls'[call].stage \notin Holding
    BY <1>1, <2>1, <2>3 DEF Counted, Holding
  <2>6. CallsInv'
    BY <1>0, <1>1, <1>2, <1>3, <2>4, <2>5, OneCall
  <2> QED BY <1>2, <2>1, <2>3, <2>6, CallOnly
<1>4. CASE /\ calls' = [calls EXCEPT ![call] = Over("not_sent")]
           /\ submissions' = submissions
  <2> DEFINE x == Over("not_sent")
  <2>1. x \in CallRecords /\ x.stage = "done" /\ x.answer = "not_sent"
    BY <1>1, OverCall
  <2>2. calls' = [calls EXCEPT ![call] = x]
    BY <1>4
  <2> HIDE DEF x
  <2>3. /\ calls' \in [Calls -> CallRecords] /\ calls'[call] = x
        /\ \A c \in Calls : c # call => calls'[c] = calls[c]
    BY <1>1, <2>1, <2>2
  <2>4. CallMoves(call)
    BY <1>1, <1>2, <2>1, <2>3 DEF CallMoves
  <2>5. /\ calls[call].stage \notin Counted /\ calls[call].stage \notin Holding
        /\ calls'[call].stage \notin Counted /\ calls'[call].stage \notin Holding
    BY <1>1, <2>1, <2>3 DEF Counted, Holding
  <2>6. CallsInv'
    BY <1>0, <1>1, <1>2, <1>4, <2>4, <2>5, OneCall
  <2> QED BY <1>2, <2>1, <2>3, <2>6, CallOnly
<1> QED BY <1>3, <1>4 DEF SubmitArrives

\* The body is read: a buffer is taken while there is one.
LEMMA ReadStep ==
  ASSUME GatewayInv, deployment' = deployment, NEW call \in Calls, SubmitReads(call)
  PROVE  GatewayInv'
<1>0. CallsInv
  BY DEF GatewayInv
<1>1. /\ calls \in [Calls -> CallRecords] /\ calls[call].stage = "preparing"
      /\ submissions \in Nat /\ buffered \in Nat /\ submissions <= MaxSubmissions
      /\ buffered < MaxBuffered /\ MaxSubmissions \in Nat /\ MaxBuffered \in Nat
      /\ call \notin sent /\ calls[call].answer = "none"
  BY <1>0, GatewayAssumption DEF SubmitReads, CallsInv
<1>2. /\ UNCHANGED <<row, sockets, inflight, deliveries, receiver, daemon, faults, toDaemon, toGateway>>
      /\ UNCHANGED <<deliveries, accepted, rejected, sent>>
      /\ buffered' = buffered + 1 /\ submissions' = submissions
  BY DEF SubmitReads, wires, daemon
<1> DEFINE x == [calls[call] EXCEPT !.stage = "signed"]
<1>3. x \in CallRecords /\ x.stage = "signed" /\ x.answer = calls[call].answer
  BY <1>1 DEF CallRecords
<1>4. calls' = [calls EXCEPT ![call] = x]
  BY <1>1 DEF SubmitReads
<1> HIDE DEF x
<1>5. /\ calls' \in [Calls -> CallRecords] /\ calls'[call] = x
      /\ \A c \in Calls : c # call => calls'[c] = calls[c]
  BY <1>1, <1>3, <1>4
<1>6. CallMoves(call)
  BY <1>1, <1>2, <1>3, <1>5 DEF CallMoves
<1>7. /\ calls[call].stage \in Counted /\ calls[call].stage \notin Holding
      /\ calls'[call].stage \in Counted /\ calls'[call].stage \in Holding
  BY <1>1, <1>3, <1>5 DEF Counted, Holding
<1>8. CallsInv'
  BY <1>0, <1>1, <1>2, <1>6, <1>7, OneCall
<1> QED BY <1>2, <1>3, <1>5, <1>8, CallOnly

\* A call ends before its dispatch, or at its deadline.
LEMMA EndStep ==
  ASSUME GatewayInv, deployment' = deployment, NEW call \in Calls,
         SubmitInvalid(call) \/ SubmitRefused(call) \/ SubmitTimesOut(call)
  PROVE  GatewayInv'
<1>0. CallsInv
  BY DEF GatewayInv
<1>1. /\ UNCHANGED <<row, sockets, inflight, deliveries, receiver, daemon, faults, toDaemon, toGateway>>
      /\ UNCHANGED <<deliveries, accepted, rejected, sent>>
  BY DEF SubmitInvalid, SubmitRefused, SubmitTimesOut, wires, daemon
<1>2. /\ CallsInv'
      /\ \A c \in Calls : calls'[c].stage = "waiting" => calls'[c] = calls[c]
  <2>1. CASE SubmitInvalid(call)
    BY <1>0, <1>1, <2>1, FinishCall DEF SubmitInvalid
  <2>2. CASE SubmitRefused(call)
    <3>1. calls[call].stage \in Holding /\ calls[call].stage # "waiting" /\ Finish(call, "not_sent", 1)
      BY <2>2 DEF SubmitRefused, Holding
    <3> QED BY <1>0, <1>1, <3>1, FinishCall
  <2>3. CASE SubmitTimesOut(call)
    <3>1. calls[call].stage \in Holding /\ Finish(call, "uncertain", 1)
      BY <2>3 DEF SubmitTimesOut, Holding
    <3> QED BY <1>0, <1>1, <3>1, FinishCall
  <2> QED BY <2>1, <2>2, <2>3
<1> QED BY <1>1, <1>2, CallOnly

\* The dispatch: the call waits on the open socket of the row.
LEMMA DispatchStep ==
  ASSUME GatewayInv, deployment' = deployment, NEW call \in Calls, SubmitDispatches(call)
  PROVE  GatewayInv'
<1>0. CallsInv /\ DeliveriesInv /\ LinkInv /\ WaitersHaveSockets /\ WiresInv
  BY DEF GatewayInv
<1>1. /\ calls \in [Calls -> CallRecords] /\ calls[call].stage = "signed"
      /\ submissions \in Nat /\ buffered \in Nat /\ submissions <= MaxSubmissions
      /\ buffered <= MaxBuffered /\ calls[call].answer = "none"
  BY <1>0 DEF SubmitDispatches, CallsInv
<1>2. /\ UNCHANGED <<row, sockets, inflight, receiver, faults, toGateway>>
      /\ UNCHANGED <<deliveries, submissions, buffered, accepted, rejected, admitted, refused>>
      /\ toDaemon' = toDaemon \cup {Frame(row.epoch, "request", call)}
      /\ sent' = sent \cup {call}
  BY DEF SubmitDispatches, counters, receiver
<1>3. row.epoch \in Epochs /\ sockets[row.epoch].state = "open"
  BY DEF SubmitDispatches, Dispatchable, Socket, Open
<1> DEFINE x == [calls[call] EXCEPT !.stage = "waiting", !.epoch = row.epoch]
<1>4. x \in CallRecords /\ x.stage = "waiting" /\ x.answer = "none" /\ x.epoch = row.epoch
  <2>1. row.epoch \in Nat
    BY <1>0 DEF LinkInv, RowRecords
  <2>2. calls[call] \in CallRecords
    BY <1>1
  <2> QED BY <1>1, <2>1, <2>2 DEF CallRecords
<1>5. calls' = [calls EXCEPT ![call] = x]
  BY <1>1 DEF SubmitDispatches
<1> HIDE DEF x
<1>6. /\ calls' \in [Calls -> CallRecords] /\ calls'[call] = x
      /\ \A c \in Calls : c # call => calls'[c] = calls[c]
  BY <1>1, <1>4, <1>5
<1>7. CallMoves(call)
  BY <1>4, <1>6 DEF CallMoves
<1>8. /\ calls[call].stage \in Counted /\ calls[call].stage \in Holding
      /\ calls'[call].stage \in Counted /\ calls'[call].stage \in Holding
  BY <1>1, <1>4, <1>6 DEF Counted, Holding
<1>9. CallsInv'
  BY <1>0, <1>1, <1>2, <1>7, <1>8, OneCall
<1>10. DeliveriesInv'
  BY <1>0, <1>2 DEF DeliveriesInv, Held
<1>11. LinkInv'
  BY <1>0, <1>2, LinkCloses DEF LinkInv
<1>12. WaitersHaveSockets'
  <2>1. faults \in Nat /\ faults' = faults
    BY <1>0, <1>2 DEF LinkInv
  <2> QED BY <1>0, <1>2, <1>3, <1>4, <1>6, <2>1, WaitersStep
<1>13. WiresInv'
  <2>1. /\ Frame(row.epoch, "request", call).epoch = row.epoch
        /\ Frame(row.epoch, "request", call).type = "request"
    BY DEF Frame
  <2> QED BY <1>0, <1>2, <1>3, <2>1, WiresStep
<1> QED BY <1>9, <1>10, <1>11, <1>12, <1>13 DEF GatewayInv

\* The daemon's answer: it ends the wait of its own call and connection, or nothing.
LEMMA ReplyStep ==
  ASSUME GatewayInv, deployment' = deployment, NEW frame \in toGateway, Reply(frame)
  PROVE  GatewayInv'
<1>0. CallsInv /\ WiresInv
  BY DEF GatewayInv
<1>1. /\ UNCHANGED <<row, sockets, inflight, deliveries, receiver, daemon, faults, toDaemon>>
      /\ UNCHANGED <<deliveries, accepted, rejected, sent>> /\ toGateway' \subseteq toGateway
  BY DEF Reply, Read, daemon
<1>2. CASE UNCHANGED <<calls, submissions, buffered>>
  <2>1. CallsInv'
    BY <1>0, <1>1, <1>2, CallsSame
  <2> QED BY <1>1, <1>2, <2>1, CallOnly
<1>3. CASE frame.about \in Waiters({frame.epoch}) /\ Finish(frame.about, frame.type, 1)
  <2>1. /\ frame.about \in Calls /\ calls[frame.about].stage = "waiting"
        /\ frame.type \in {"accepted", "rejected"}
        /\ frame.type = "accepted" => frame.about \in accepted
        /\ frame.type = "rejected" => frame.about \in rejected
    BY <1>0, <1>3 DEF Waiters, Reply, WiresInv
  <2>2. /\ calls[frame.about].stage \in Holding /\ frame.type # "not_sent"
        /\ frame.type \in {"not_sent", "uncertain", "accepted", "rejected"}
    BY <2>1 DEF Holding
  <2>3. /\ CallsInv'
        /\ \A c \in Calls : calls'[c].stage = "waiting" => calls'[c] = calls[c]
    BY <1>0, <1>1, <1>3, <2>1, <2>2, FinishCall
  <2> QED BY <1>1, <2>3, CallOnly
<1> QED BY <1>2, <1>3 DEF Reply

\* What deliver sends is sent only on a socket that is open.
LEMMA SentFrames ==
  ASSUME NEW epoch, NEW type, NEW about, NEW frame \in Sent(epoch, type, about)
  PROVE  \/ frame \in toDaemon
         \/ /\ Open(epoch)
            /\ frame.epoch = epoch /\ frame.type = type /\ frame.about = about
BY DEF Sent, Frame

\* A delivery that is under way has its connection.
LEMMA DeliveryFields ==
  ASSUME DeliveriesInv, NEW slot \in Slots, inflight[slot].stage \in {"verifying", "calling"}
  PROVE  /\ inflight[slot] # NoDelivery /\ inflight[slot] \in DeliveryRecords
         /\ inflight[slot].epoch \in Epochs
<1>1. inflight[slot] # NoDelivery
  BY DEF NoDelivery
<1>2. inflight[slot] \in DeliveryRecords
  BY <1>1 DEF DeliveriesInv
<1> QED BY <1>1, <1>2 DEF DeliveryRecords

\* deliver ends: its slot and its buffer are given back, whatever the verdict.
LEMMA EndsStep ==
  ASSUME GatewayInv, deployment' = deployment, NEW slot \in Slots, inflight[slot].stage \in {"verifying", "calling"},
         NEW type \in {"result_ack", "nack", "refused", "invalid", "unrouted", "revoked"},
         DeliverEnds(slot, type), admitted \subseteq admitted', refused \subseteq refused',
         type = "result_ack" => inflight[slot].result.request \in admitted',
         type = "refused" => inflight[slot].result.request \in refused',
         type = "invalid" => inflight[slot].result.envelope \notin deployment.verified,
         type = "unrouted" => deployment.routes = "broken",
         type = "revoked" => ~Open(inflight[slot].epoch)
  PROVE  GatewayInv'
<1>0. CallsInv /\ DeliveriesInv /\ LinkInv /\ WaitersHaveSockets /\ WiresInv
  BY DEF GatewayInv
<1>1. /\ inflight[slot] # NoDelivery /\ inflight[slot].epoch \in Epochs
  BY <1>0, DeliveryFields
<1>2. /\ toDaemon' = Sent(inflight[slot].epoch, type, inflight[slot].result)
      /\ inflight' = [inflight EXCEPT ![slot] = NoDelivery]
      /\ deliveries' = deliveries - 1 /\ buffered' = buffered - 1
      /\ UNCHANGED <<row, sockets, calls, submissions, toGateway, daemon, faults, accepted, rejected>>
  BY DEF DeliverEnds, daemon
<1>3. DeliveriesInv' /\ deliveries' \in Nat
  BY <1>0, <1>1, <1>2, SlotFreed
<1>4. CallsInv'
  <2>1. /\ deliveries \in Nat /\ buffered \in Nat /\ buffered <= MaxBuffered /\ MaxBuffered \in Nat
    BY <1>0, GatewayAssumption DEF CallsInv
  <2>2. deliveries' = deliveries + (-1) /\ buffered' = buffered + (-1) /\ buffered' <= MaxBuffered
    BY <1>2, <2>1
  <2> QED BY <1>0, <1>2, <1>3, <2>2, CallsBeside
<1>5. LinkInv'
  BY <1>0, <1>2, LinkCloses DEF LinkInv
<1>6. WaitersHaveSockets'
  BY <1>0, <1>2, WaitersStep DEF LinkInv
<1>7. ASSUME NEW frame \in toDaemon'
      PROVE  \/ frame \in toDaemon
             \/ /\ frame.epoch \in Epochs
                /\ \/ frame.type = "result_ack" /\ frame.about.request \in admitted'
                   \/ frame.type = "refused" /\ frame.about.request \in refused'
                   \/ frame.type = "invalid" /\ frame.about.envelope \notin deployment.verified
                   \/ frame.type = "unrouted" /\ deployment.routes = "broken"
                   \/ frame.type \in {"nack", "request"}
  <2>1. CASE frame \in toDaemon
    BY <2>1
  <2>2. CASE /\ Open(inflight[slot].epoch) /\ frame.epoch = inflight[slot].epoch
             /\ frame.type = type /\ frame.about = inflight[slot].result
    BY <1>1, <2>2
  <2> QED BY <1>2, <1>7, <2>1, <2>2, SentFrames
<1>8. WiresInv'
  BY <1>0, <1>2, <1>7, WiresStep
<1> QED BY <1>3, <1>4, <1>5, <1>6, <1>8 DEF GatewayInv

\* The verdicts of deliver: the error of a stale delivery is never sent, for a socket that
\* is open is current.
LEMMA VerdictStep ==
  ASSUME GatewayInv, deployment' = deployment, NEW slot \in Slots,
         \/ DeliverInvalid(slot) \/ DeliverStale(slot) \/ DeliverUnrouted(slot)
         \/ DeliverAcks(slot) \/ DeliverRefused(slot) \/ DeliverTimesOut(slot)
  PROVE  GatewayInv'
<1>1. CASE DeliverInvalid(slot)
  <2>1. /\ inflight[slot].stage \in {"verifying", "calling"}
        /\ inflight[slot].result.envelope \notin deployment.verified
        /\ DeliverEnds(slot, "invalid") /\ UNCHANGED <<admitted, refused>>
    BY <1>1 DEF DeliverInvalid, Verified, receiver
  <2> QED BY <2>1, EndsStep
<1>2. CASE DeliverStale(slot)
  <2>1. /\ inflight[slot].stage \in {"verifying", "calling"} /\ ~Current(inflight[slot].epoch)
        /\ DeliverEnds(slot, "revoked") /\ UNCHANGED <<admitted, refused>>
    BY <1>2 DEF DeliverStale, receiver
  <2>2. inflight[slot].epoch \in Epochs
    BY <2>1, DeliveryFields DEF GatewayInv
  <2>3. ~Open(inflight[slot].epoch)
    BY <2>1, <2>2 DEF GatewayInv, LinkInv, OneDaemon, Current
  <2> QED BY <2>1, <2>3, EndsStep
<1>3. CASE DeliverUnrouted(slot)
  <2> DEFINE type == IF deployment.routes = "broken" THEN "unrouted" ELSE "nack"
  <2>1. /\ inflight[slot].stage \in {"verifying", "calling"}
        /\ DeliverEnds(slot, type) /\ UNCHANGED <<admitted, refused>>
    BY <1>3 DEF DeliverUnrouted, Deliverable, receiver
  <2>2. CASE deployment.routes = "broken"
    <3>1. DeliverEnds(slot, "unrouted")
      BY <2>1, <2>2
    <3> QED BY <2>1, <2>2, <3>1, EndsStep
  <2>3. CASE deployment.routes # "broken"
    <3>1. DeliverEnds(slot, "nack")
      BY <2>1, <2>3
    <3> QED BY <2>1, <3>1, EndsStep
  <2> QED BY <2>2, <2>3
<1>4. CASE DeliverAcks(slot)
  <2>1. /\ inflight[slot].stage \in {"verifying", "calling"}
        /\ inflight[slot].result.request \in admitted
        /\ DeliverEnds(slot, "result_ack") /\ UNCHANGED <<admitted, refused>>
    BY <1>4 DEF DeliverAcks, receiver
  <2> QED BY <2>1, EndsStep
<1>5. CASE DeliverRefused(slot)
  <2>1. /\ inflight[slot].stage \in {"verifying", "calling"}
        /\ DeliverEnds(slot, "refused") /\ admitted' = admitted
        /\ refused' = refused \cup {inflight[slot].result.request}
    BY <1>5 DEF DeliverRefused
  <2> QED BY <2>1, EndsStep
<1>6. CASE DeliverTimesOut(slot)
  <2>1. /\ inflight[slot].stage \in {"verifying", "calling"}
        /\ DeliverEnds(slot, "nack") /\ UNCHANGED <<admitted, refused>>
    BY <1>6 DEF DeliverTimesOut, receiver
  <2> QED BY <2>1, EndsStep
<1> QED BY <1>1, <1>2, <1>3, <1>4, <1>5, <1>6

\* What changes neither calls nor counters nor sockets: frames and the receiver's books.
LEMMA FramesOnly ==
  ASSUME GatewayInv, deployment' = deployment, UNCHANGED <<row, sockets, calls, counters, sent>>,
         faults' = faults \/ faults' = faults + 1,
         DeliveriesInv', WiresInv', accepted \subseteq accepted', rejected \subseteq rejected'
  PROVE  GatewayInv'
<1>0. CallsInv /\ LinkInv /\ WaitersHaveSockets
  BY DEF GatewayInv
<1>1. UNCHANGED <<submissions, buffered, deliveries>>
  BY DEF counters
<1>2. CallsInv'
  BY <1>0, <1>1, CallsSame
<1>3. faults \in Nat /\ faults' \in Nat /\ faults' >= faults
  BY <1>0 DEF LinkInv
<1>4. LinkInv'
  BY <1>0, <1>3, LinkCloses DEF LinkInv
<1>5. WaitersHaveSockets'
  BY <1>0, <1>3, WaitersStep
<1> QED BY <1>2, <1>4, <1>5 DEF GatewayInv

\* A result arrives: refused at the limit, or taken into a slot.
LEMMA ResultStep ==
  ASSUME GatewayInv, deployment' = deployment, NEW frame \in toGateway,
         ResultNoCapacity(frame) \/ \E slot \in Slots : ResultStarts(frame, slot)
  PROVE  GatewayInv'
<1>0. CallsInv /\ DeliveriesInv /\ LinkInv /\ WaitersHaveSockets /\ WiresInv
  BY DEF GatewayInv
<1>1. frame.epoch \in Epochs /\ frame.about \in Results /\ toGateway' \subseteq toGateway
  BY <1>0 DEF ResultNoCapacity, ResultStarts, ResultRead, Read, WiresInv
<1>2. CASE ResultNoCapacity(frame)
  <2>1. /\ toDaemon' = Sent(frame.epoch, "nack", frame.about)
        /\ UNCHANGED <<row, sockets, calls, inflight, counters, sent, faults, accepted, rejected,
                       admitted, refused, deliveries>>
    BY <1>2 DEF ResultNoCapacity, receiver, daemon, counters
  <2>2. \A f \in toDaemon' : f \in toDaemon \/ (f.epoch \in Epochs /\ f.type = "nack")
    <3> SUFFICES ASSUME NEW f \in toDaemon' PROVE f \in toDaemon \/ (f.epoch \in Epochs /\ f.type = "nack")
      OBVIOUS
    <3> DEFINE epoch == frame.epoch
               about == frame.about
    <3>1. f \in Sent(epoch, "nack", about) /\ epoch \in Epochs
      BY <1>1, <2>1
    <3> HIDE DEF epoch, about
    <3>2. f \in toDaemon \/ (f.epoch = epoch /\ f.type = "nack")
      BY <3>1, SentFrames
    <3> QED BY <3>1, <3>2
  <2>3. WiresInv'
    BY <1>0, <1>1, <2>1, <2>2, WiresStep
  <2>4. DeliveriesInv'
    BY <1>0, <2>1 DEF DeliveriesInv, Held
  <2> QED BY <2>1, <2>3, <2>4, FramesOnly
<1>3. ASSUME NEW slot \in Slots, ResultStarts(frame, slot) PROVE GatewayInv'
  <2> DEFINE d == [stage |-> "verifying", epoch |-> frame.epoch, result |-> frame.about]
  <2>1. d \in DeliveryRecords
    BY <1>1 DEF DeliveryRecords
  <2>2. /\ inflight[slot] = NoDelivery /\ inflight' = [inflight EXCEPT ![slot] = d]
        /\ deliveries < MaxDeliveries /\ buffered < MaxBuffered
        /\ deliveries' = deliveries + 1 /\ buffered' = buffered + 1
        /\ UNCHANGED <<row, sockets, calls, submissions, toDaemon, daemon, faults, accepted, rejected,
                       admitted, refused>>
    BY <1>3 DEF ResultStarts, ResultRead, receiver, daemon
  <2> HIDE DEF d
  <2>3. DeliveriesInv' /\ deliveries' \in Nat
    BY <1>0, <2>1, <2>2, SlotTaken
  <2>4. CallsInv'
    <3>1. buffered' <= MaxBuffered
      BY <1>0, <2>2, GatewayAssumption DEF CallsInv
    <3> QED BY <1>0, <2>2, <2>3, <3>1, CallsBeside
  <2>5. LinkInv'
    BY <1>0, <2>2, LinkCloses DEF LinkInv
  <2>6. WaitersHaveSockets'
    BY <1>0, <2>2, WaitersStep DEF LinkInv
  <2>7. WiresInv'
    BY <1>0, <1>1, <2>2, WiresStep
  <2> QED BY <2>3, <2>4, <2>5, <2>6, <2>7 DEF GatewayInv
<1> QED BY <1>2, <1>3

\* The receiver is called, or admits a result.
LEMMA ReceiverStep ==
  ASSUME GatewayInv, deployment' = deployment,
         \/ \E slot \in Slots : DeliverCalls(slot)
         \/ \E request \in Requests : ReceiverAdmits(request)
  PROVE  GatewayInv'
<1>0. DeliveriesInv /\ WiresInv
  BY DEF GatewayInv
<1>1. /\ UNCHANGED <<row, sockets, calls, counters, faults, deliveries, sent, accepted, rejected, refused>>
      /\ UNCHANGED <<toDaemon, toGateway>> /\ admitted \subseteq admitted'
  BY DEF DeliverCalls, ReceiverAdmits, counters, daemon, wires
<1>2. WiresInv'
  BY <1>0, <1>1, WiresStep
<1>3. DeliveriesInv'
  <2>1. ASSUME NEW slot \in Slots, DeliverCalls(slot) PROVE DeliveriesInv'
    <3> DEFINE d == [inflight[slot] EXCEPT !.stage = "calling"]
    <3>1. inflight[slot] # NoDelivery /\ inflight[slot] \in DeliveryRecords
      BY <1>0, <2>1, DeliveryFields DEF DeliverCalls, Deliverable
    <3>2. d \in DeliveryRecords /\ d # NoDelivery
      BY <3>1 DEF DeliveryRecords, NoDelivery
    <3>3. inflight' = [inflight EXCEPT ![slot] = d]
      BY <2>1 DEF DeliverCalls
    <3> HIDE DEF d
    <3>4. /\ inflight' \in [Slots -> {NoDelivery} \cup DeliveryRecords]
          /\ Held' = Held
      BY <1>0, <3>1, <3>2, <3>3 DEF DeliveriesInv, Held
    <3> QED BY <1>0, <1>1, <3>4 DEF DeliveriesInv
  <2>2. ASSUME NEW request \in Requests, ReceiverAdmits(request) PROVE DeliveriesInv'
    BY <1>0, <1>1, <2>2 DEF ReceiverAdmits, DeliveriesInv, Held
  <2> QED BY <2>1, <2>2
<1> QED BY <1>1, <1>2, <1>3, FramesOnly

\* The daemon answers, reads, and sends results of what it has accepted.
LEMMA DaemonStep ==
  ASSUME GatewayInv, EnvelopesInv, deployment' = deployment,
         \/ \E frame \in toDaemon :
              \/ DaemonReads(frame)
              \/ \E answer \in {"accepted", "rejected"} : DaemonAnswers(frame, answer)
         \/ \E epoch \in Epochs, request \in Requests :
              DaemonSendsResult(epoch, request) \/ DaemonSendsInvalid(epoch, request)
  PROVE  GatewayInv'
<1>0. DeliveriesInv /\ WiresInv
  BY DEF GatewayInv
<1>1. /\ UNCHANGED <<row, sockets, calls, inflight, counters, deliveries, sent, admitted, refused>>
      /\ accepted \subseteq accepted' /\ rejected \subseteq rejected' /\ toDaemon' \subseteq toDaemon
  BY DEF DaemonReads, DaemonAnswers, DaemonSendsResult, DaemonSendsInvalid, DaemonSends, counters,
         daemon, receiver
<1>2. faults' = faults \/ faults' = faults + 1
  BY DEF DaemonReads, DaemonAnswers, DaemonSendsResult, DaemonSendsInvalid, Fault
<1>3. DeliveriesInv'
  BY <1>0, <1>1 DEF DeliveriesInv, Held
<1>4. WiresInv'
  <2>1. ASSUME NEW frame \in toDaemon, DaemonReads(frame) PROVE WiresInv'
    BY <1>0, <1>1, <2>1, WiresStep DEF DaemonReads
  <2>2. ASSUME NEW frame \in toDaemon, NEW answer \in {"accepted", "rejected"},
               DaemonAnswers(frame, answer)
        PROVE  WiresInv'
    <3> DEFINE f == Frame(frame.epoch, answer, frame.about)
    <3>1. f.epoch \in Epochs /\ f.type = answer /\ f.about = frame.about
      BY <1>0 DEF Frame, WiresInv
    <3>2. /\ toGateway' = toGateway \cup {f}
          /\ answer = "accepted" => frame.about \in accepted'
          /\ answer = "rejected" => frame.about \in rejected'
      BY <2>2 DEF DaemonAnswers
    <3> HIDE DEF f
    <3> QED BY <1>0, <1>1, <3>1, <3>2, WiresStep
  <2>3. ASSUME NEW epoch \in Epochs, NEW request \in Requests,
               DaemonSendsResult(epoch, request) \/ DaemonSendsInvalid(epoch, request)
        PROVE  WiresInv'
    <3>1. PICK envelope \in Nat : DaemonSends(epoch, request, envelope)
      BY <2>3 DEF DaemonSendsResult, DaemonSendsInvalid, EnvelopesInv, NoEnvelope
    <3> DEFINE f == Frame(epoch, "result", Result(request, envelope))
    <3>2. f.epoch = epoch /\ f.type = "result" /\ f.about \in Results
      BY DEF Frame, Result, Results
    <3>3. toGateway' = toGateway \cup {f}
      BY <3>1 DEF DaemonSends
    <3> HIDE DEF f
    <3> QED BY <1>0, <1>1, <3>2, <3>3, WiresStep
  <2> QED BY <2>1, <2>2, <2>3
<1> QED BY <1>1, <1>2, <1>3, <1>4, FramesOnly

-----------------------------------------------------------------------------
(* The theorems *)

\* A machine that is not registered has no sockets, calls or frames.
LEMMA GatewayInit == Init => GatewayInv
<1> SUFFICES ASSUME Init PROVE GatewayInv
  OBVIOUS
<1>1. /\ MaxSubmissions \in Nat /\ MaxBuffered \in Nat /\ MaxDeliveries \in Nat
      /\ IsFiniteSet({}) /\ Cardinality({}) = 0
  BY GatewayAssumption, FS_EmptySet
<1>2. CallsInv
  <2>1. /\ calls \in [Calls -> CallRecords]
        /\ \A call \in Calls : calls[call].stage = "idle" /\ calls[call].answer = "none"
    BY DEF Init, CallRecords, NoCall
  <2>2. InStage(Counted) = {} /\ InStage(Holding) = {}
    BY <2>1 DEF InStage, Counted, Holding
  <2>3. Count(Counted) = 0 /\ Count(Holding) = 0
    BY <1>1, <2>2 DEF Count, InStage
  <2>4. AnswersAreTrue
    BY <2>1 DEF AnswersAreTrue
  <2> QED BY <1>1, <2>1, <2>2, <2>3, <2>4 DEF Init, CallsInv
<1>3. DeliveriesInv
  <2>1. Held = {}
    BY DEF Init, Held
  <2> QED BY <1>1, <2>1 DEF Init, DeliveriesInv
<1>4. LinkInv
  BY DEF Init, LinkInv, RowRecords, SocketRecords, OneDaemon, Open, NoSocket
<1>5. WaitersHaveSockets
  BY DEF Init, WaitersHaveSockets, Waiters, NoCall
<1>6. WiresInv
  BY DEF Init, WiresInv, VerdictsAreTrue
<1> QED BY <1>2, <1>3, <1>4, <1>5, <1>6 DEF GatewayInv

\* An envelope is signed with the secret of a deployment.
LEMMA EnvelopesAlways == Spec => []EnvelopesInv
<1>1. Init => EnvelopesInv
  BY DEF Init, EnvelopesInv, DeploymentRecords, NoEnvelope
<1>2. EnvelopesInv /\ [Next]_vars => EnvelopesInv'
  <2> SUFFICES ASSUME EnvelopesInv, [Next]_vars PROVE EnvelopesInv'
    OBVIOUS
  <2>1. CASE UNCHANGED <<deployment, envelopes>>
    BY <2>1 DEF EnvelopesInv
  <2>2. ASSUME NEW next \in Deployments, Deploy(next) PROVE EnvelopesInv'
    <3>1. ASSUME NEW kept \in {{}, {deployment.secret}},
                 next = [deployment EXCEPT !.secret = @ + 1,
                                           !.verified = {deployment.secret + 1} \cup kept]
          PROVE  next \in DeploymentRecords
      <4>1. deployment.secret \in Nat /\ {deployment.secret + 1} \cup kept \subseteq Nat
        BY DEF EnvelopesInv, DeploymentRecords
      <4> QED BY <3>1, <4>1 DEF EnvelopesInv, DeploymentRecords
    <3>2. ASSUME NEW routes \in {"configured", "unavailable", "broken"},
                 next = [deployment EXCEPT !.routes = routes]
          PROVE  next \in DeploymentRecords
      BY <3>2 DEF EnvelopesInv, DeploymentRecords
    <3>3. next \in DeploymentRecords
      BY <3>1, <3>2 DEF Deployments
    <3>4. envelopes' = envelopes /\ deployment' = next
      BY <2>2 DEF Deploy, Restarts, daemon
    <3> QED BY <3>3, <3>4 DEF EnvelopesInv
  <2>3. ASSUME NEW frame \in toDaemon, NEW answer \in {"accepted", "rejected"},
               DaemonAnswers(frame, answer), deployment' = deployment
        PROVE  EnvelopesInv'
    <3>1. deployment.secret \in Nat
      BY DEF EnvelopesInv, DeploymentRecords
    <3> QED BY <2>3, <3>1 DEF DaemonAnswers, EnvelopesInv
  <2>4. CASE /\ Management \/ Connections \/ Submissions \/ Messages \/ Deliveries
             /\ deployment' = deployment
    <3>1. envelopes' = envelopes
      BY <2>4 DEF Management, Register, RotateDaemon, RotateExecution, Delete, Connections, Connect,
           Hello, SocketEnds, MessageInvalid, MessageTooLarge, Submissions, SubmitArrives, SubmitReads,
           SubmitInvalid, SubmitDispatches, SubmitRefused, SubmitTimesOut, Messages, MessageRefused,
           Reply, ResultNoCapacity, ResultStarts, Deliveries, DeliverInvalid, DeliverStale,
           DeliverUnrouted, DeliverCalls, DeliverAcks, DeliverRefused, DeliverTimesOut, DeliverEnds,
           daemon
    <3> QED BY <2>1, <2>4, <3>1
  <2>5. CASE Peers /\ deployment' = deployment
    BY <2>1, <2>3, <2>5 DEF Peers, ReceiverAdmits, DaemonReads, DaemonSendsResult,
       DaemonSendsInvalid, DaemonSends, daemon
  <2>6. CASE Evict \/ UNCHANGED vars
    BY <2>1, <2>6 DEF Evict, Restarts, daemon, vars
  <2> QED BY <2>2, <2>4, <2>5, <2>6 DEF Next
<1> QED BY <1>1, <1>2, PTL DEF Spec

\* Every step of the gateway, its callers, its daemon and its receiver keeps the invariant.
LEMMA GatewayStep == GatewayInv /\ EnvelopesInv /\ [Next]_vars => GatewayInv'
<1> SUFFICES ASSUME GatewayInv, EnvelopesInv, [Next]_vars PROVE GatewayInv'
  OBVIOUS
<1>1. CASE deployment' = deployment /\ Management
  BY <1>1, RegisterStep, ReplaceStep DEF Management
<1>2. CASE deployment' = deployment /\ Connections
  BY <1>2, ReplaceStep, SocketStep, TooLargeStep, RegisterStep DEF Connections
<1>3. CASE deployment' = deployment /\ Submissions
  BY <1>3, ArriveStep, ReadStep, EndStep, DispatchStep DEF Submissions
<1>4. CASE deployment' = deployment /\ Messages
  BY <1>4, SocketStep, ReplyStep, ResultStep DEF Messages
<1>5. CASE deployment' = deployment /\ Deliveries
  BY <1>5, VerdictStep, ReceiverStep DEF Deliveries
<1>6. CASE deployment' = deployment /\ Peers
  BY <1>6, ReceiverStep, DaemonStep DEF Peers
<1>7. CASE Evict \/ \E next \in Deployments : Deploy(next)
  BY <1>7, EvictStep DEF Evict, Deploy
<1>8. CASE UNCHANGED vars
  <2>1. /\ UNCHANGED <<deployment, row, sockets, calls, counters, sent, faults, accepted, rejected,
                       inflight, deliveries, toDaemon, toGateway, admitted, refused>>
    BY <1>8 DEF vars, counters, daemon, wires, receiver
  <2>2. DeliveriesInv'
    BY <2>1 DEF GatewayInv, DeliveriesInv, Held
  <2>3. WiresInv'
    BY <2>1, WiresStep DEF GatewayInv
  <2> QED BY <2>1, <2>2, <2>3, FramesOnly
<1> QED BY <1>1, <1>2, <1>3, <1>4, <1>5, <1>6, <1>7, <1>8 DEF Next

\* The invariant holds in every reachable state.
LEMMA GatewayAlways == Spec => []GatewayInv
BY GatewayInit, GatewayStep, EnvelopesAlways, PTL DEF Spec

\* submit's answers and deliver's verdicts: a caller is told "accepted", "rejected" or
\* "not sent" only when it is so; the daemon is told to forget a result only when the
\* receiver holds it, and to give up on it only by the receiver's refusal or by a deployment
\* that cannot verify its envelope or read its routes, through every rotation, deletion,
\* reconnection, eviction and deadline.
THEOREM GatewayAnswersHold == Spec => []AnswersHold
<1>1. GatewayInv => AnswersHold
  BY DEF GatewayInv, CallsInv, WiresInv, AnswersHold
<1> QED BY <1>1, GatewayAlways, PTL

\* The machine's sockets, its row, the calls that wait and the three counters of the
\* object agree, whatever awaits interleave, so that no limit leaks or is passed.
THEOREM GatewayBooksInStep == Spec => []BooksInStep
<1>1. GatewayInv => BooksInStep
  BY DEF GatewayInv, CallsInv, DeliveriesInv, LinkInv, Held, Counted, Holding, BooksInStep,
         ConnectionsInStep, CountersBalance
<1> QED BY <1>1, GatewayAlways, PTL

\* "Every await before dispatch may admit a concurrent rotation/deletion/reconnect":
\* submit sends, and deliver calls the receiver, only on what is valid at that moment.
THEOREM RevocationAlwaysWins == Spec => RevocationWins
<1> DEFINE A == /\ \A call \in sent' \ sent : Authorized(call)
                /\ \A slot \in Slots :
                     inflight[slot].stage = "verifying" /\ inflight'[slot].stage = "calling" =>
                       Open(inflight[slot].epoch)
<1>1. GatewayInv /\ [Next]_vars => [A]_vars
  <2> SUFFICES ASSUME GatewayInv, Next PROVE A
    BY DEF vars
  <2>1. inflight \in [Slots -> {NoDelivery} \cup DeliveryRecords]
    BY DEF GatewayInv, DeliveriesInv
  <2>2. NoDelivery.stage # "verifying" /\ NoDelivery.stage # "calling"
    BY DEF NoDelivery
  <2>3. CASE Management
    BY <2>3 DEF Management, Register, RotateDaemon, RotateExecution, Delete, daemon
  <2>4. CASE Connections
    <3>1. sent' = sent
      BY <2>4 DEF Connections, Connect, SocketEnds, MessageInvalid, MessageTooLarge, Hello, daemon
    <3>2. inflight' = inflight
      BY <2>4 DEF Connections, Connect, SocketEnds, MessageInvalid, MessageTooLarge, Hello
    <3> QED BY <3>1, <3>2
  <2>5. CASE Submissions
    <3>1. inflight' = inflight
      BY <2>5 DEF Submissions, SubmitArrives, SubmitReads, SubmitInvalid, SubmitDispatches,
           SubmitRefused, SubmitTimesOut
    <3>2. PICK call \in Calls :
            \/ \E token \in Versions, generation \in Generations : SubmitArrives(call, token, generation)
            \/ SubmitReads(call) \/ SubmitInvalid(call) \/ SubmitDispatches(call)
            \/ SubmitRefused(call) \/ SubmitTimesOut(call)
      BY <2>5 DEF Submissions
    <3>3. CASE SubmitDispatches(call)
      <4>1. sent' = sent \cup {call} /\ Authorized(call)
        BY <3>3 DEF SubmitDispatches, Dispatchable
      <4> QED BY <3>1, <4>1
    <3>4. CASE ~SubmitDispatches(call)
      <4>1. sent' = sent
        BY <3>2, <3>4 DEF SubmitArrives, SubmitReads, SubmitInvalid, SubmitRefused, SubmitTimesOut, daemon
      <4> QED BY <3>1, <4>1
    <3> QED BY <3>3, <3>4
  <2>6. CASE Messages
    <3>1. sent' = sent
      BY <2>6 DEF Messages, MessageRefused, Reply, ResultNoCapacity, ResultStarts, daemon
    <3>2. \/ inflight' = inflight
          \/ \E slot \in Slots : /\ inflight[slot] = NoDelivery
                                 /\ \A x \in Slots : x # slot => inflight'[x] = inflight[x]
      BY <2>1, <2>6 DEF Messages, MessageRefused, Reply, ResultNoCapacity, ResultStarts
    <3> QED BY <2>1, <2>2, <3>1, <3>2
  <2>7. ASSUME NEW slot \in Slots,
               \/ DeliverInvalid(slot) \/ DeliverStale(slot) \/ DeliverUnrouted(slot)
               \/ DeliverCalls(slot) \/ DeliverAcks(slot) \/ DeliverRefused(slot)
               \/ DeliverTimesOut(slot)
        PROVE  A
    <3>1. sent' = sent
      BY <2>7 DEF DeliverInvalid, DeliverStale, DeliverUnrouted, DeliverCalls, DeliverAcks,
           DeliverTimesOut, DeliverRefused, DeliverEnds, daemon
    <3>2. \/ inflight' = [inflight EXCEPT ![slot] = NoDelivery]
          \/ /\ \A s \in Slots : s # slot => inflight'[s] = inflight[s]
             /\ Open(inflight[slot].epoch)
      BY <2>1, <2>7 DEF DeliverInvalid, DeliverStale, DeliverUnrouted, DeliverCalls, DeliverAcks,
           DeliverTimesOut, DeliverRefused, DeliverEnds, Deliverable, Current
    <3> QED BY <2>1, <2>2, <3>1, <3>2
  <2>8. CASE Peers
    BY <2>8 DEF Peers, ReceiverAdmits, DaemonReads, DaemonAnswers, DaemonSendsResult,
         DaemonSendsInvalid, DaemonSends, daemon
  <2>9. CASE Restarts
    <3>1. sent' = sent /\ inflight' = [slot \in Slots |-> NoDelivery]
      BY <2>9 DEF Restarts, daemon
    <3> QED BY <2>2, <3>1
  <2> QED BY <2>3, <2>4, <2>5, <2>6, <2>7, <2>8, <2>9 DEF Next, Deliveries, Evict, Deploy
<1> QED BY <1>1, GatewayAlways, PTL DEF Spec, RevocationWins

=============================================================================
