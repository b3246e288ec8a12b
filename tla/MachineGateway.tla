---------------------------- MODULE MachineGateway ----------------------------
(***************************************************************************)
(* The execution gateway's Durable Object of one machine (machine.ts) and  *)
(* its registry row (registry.ts, credentials.ts).                         *)
(*                                                                         *)
(* HTTP callers submit requests that are sent over the daemon's WebSocket  *)
(* and wait for the daemon to accept them; the daemon's results are handed *)
(* to a receiver and acknowledged once the receiver has admitted them.     *)
(* Secrets rotate, the machine is deleted and the daemon reconnects while  *)
(* submissions and deliveries are suspended at an await.  The gateway may  *)
(* be deployed with another routing secret or other callback routes: then  *)
(* it refuses results by itself.                                           *)
(*                                                                         *)
(* One action is the code between two awaits that wait for I/O.  A secret  *)
(* is its version; a socket is its epoch; a call is one HTTP attempt and   *)
(* the dispatchId it sends; an envelope is the routing secret that signed  *)
(* it.  The daemon and the receiver are external.                          *)
(***************************************************************************)
EXTENDS Integers, FiniteSets

CONSTANTS
  Calls,           \* HTTP attempts at a submission
  Requests,        \* request identities, each with one result
  RequestOf(_),    \* the request a call submits
  Generations,     \* runtime generations the daemon may announce
  MaxSubmissions,  \* MAX_PENDING_SUBMISSIONS
  MaxDeliveries,   \* MAX_CONCURRENT_DELIVERIES
  MaxBuffered,     \* MAX_BUFFERED_BYTES, in payloads
  MaxVersions,     \* bound on secret versions
  MaxEpochs,       \* bound on connections
  MaxFrames,       \* bound on frames under way
  MaxFaults        \* bound on evictions, deployments and invalid frames

NoGeneration == "none"

ASSUME GatewayAssumption ==
  /\ NoGeneration \notin Generations
  /\ \A call \in Calls : RequestOf(call) \in Requests
  /\ {MaxSubmissions, MaxDeliveries, MaxBuffered, MaxVersions, MaxEpochs, MaxFrames,
      MaxFaults} \subseteq Nat

VARIABLES
  deployment,   \* env: ROUTING_SIGNING_SECRET, the secrets that verify, CALLBACK_ROUTES
  row,          \* the registry's row
  sockets,      \* sockets by epoch, with their attachment
  calls,        \* progress of each HTTP attempt
  inflight,     \* results in deliver, by slot
  submissions,  \* this.submissions
  deliveries,   \* this.deliveries
  buffered,     \* this.bufferedBytes
  toDaemon,     \* frames on their way to the daemon
  toGateway,    \* frames on their way to the gateway
  atReceiver,   \* results handed to the receiver
  admitted,     \* results the receiver has durably admitted
  refused,      \* results the receiver has refused for good
  envelopes,    \* the envelope that the daemon keeps of each request
  sent,         \* history: calls whose request was sent
  accepted,     \* calls the daemon has accepted
  rejected,     \* calls the daemon has rejected
  faults        \* evictions, deployments and invalid frames, bounded by MaxFaults

counters == <<submissions, deliveries, buffered>>
wires    == <<toDaemon, toGateway>>
receiver == <<atReceiver, admitted, refused>>
daemon   == <<sent, accepted, rejected, envelopes>>
vars == <<deployment, row, sockets, calls, inflight, counters, wires, receiver, daemon, faults>>

-----------------------------------------------------------------------------
(* Values *)

Epochs   == 1 .. MaxEpochs
Versions == 1 .. MaxVersions
Slots    == 1 .. MaxDeliveries

\* A socket is none (never opened or forgotten), open, or closing (close was called on
\* this side).  A call is idle, preparing (authorised, reading the body), signed (ready
\* to be dispatched), waiting or done.
NoDelivery == [stage |-> "none"]

NoSocket == [state |-> "none", version |-> 0, generation |-> NoGeneration]

NoCall == [stage |-> "idle", token |-> 0, generation |-> NoGeneration, epoch |-> 0, answer |-> "none"]

Over(answer) == [NoCall EXCEPT !.stage = "done", !.answer = answer]

\* A result on its way: its request and its envelope.  NoEnvelope stands for a result that
\* fails the checks of deliver under every deployment: its envelope was tampered with or
\* is another machine's, it is too large, or its delivery ID is not its own.
NoEnvelope == 0

Result(request, envelope) == [request |-> request, envelope |-> envelope]

Frame(epoch, type, about) == [epoch |-> epoch, type |-> type, about |-> about]

Waiters(epochs) ==
  {call \in Calls : calls[call].stage = "waiting" /\ calls[call].epoch \in epochs}

Count(stages) == Cardinality({call \in Calls : calls[call].stage \in stages})

Open(epoch) == sockets[epoch].state = "open"

RoomInFlight == Cardinality(toDaemon) + Cardinality(toGateway) < MaxFrames

-----------------------------------------------------------------------------
(* Helpers of Machine *)

\* current: the frame's socket still speaks for the machine.
Current(epoch) ==
  /\ row.state = "live"
  /\ row.daemon = sockets[epoch].version
  /\ row.epoch = epoch
  /\ Open(epoch)

\* socket: the open connection of the row, or none.
Socket ==
  {epoch \in Epochs :
     /\ row.state = "live"
     /\ Open(epoch)
     /\ epoch = row.epoch
     /\ sockets[epoch].version = row.daemon}

\* authorize, for the execution secret.
Authorized(call) ==
  row.state = "live" /\ calls[call].token = row.execution

\* Variant: a wait that breaks off is reported as never sent.
RejectAsUnsent(epochs) ==
  LET gone == Waiters(epochs)
  IN  /\ calls' = [call \in Calls |->
                     IF call \in gone
                     THEN Over("not_sent")
                     ELSE calls[call]]
      /\ submissions' = submissions - Cardinality(gone)
      /\ buffered' = buffered - Cardinality(gone)

\* rejectWaiters, and the finally blocks its callers run through.
RejectWaiters(epochs) ==
  LET gone == Waiters(epochs)
  IN  /\ calls' = [call \in Calls |->
                     IF call \in gone
                     THEN Over("uncertain")
                     ELSE calls[call]]
      /\ submissions' = submissions - Cardinality(gone)
      /\ buffered' = buffered - Cardinality(gone)

Closed(epochs) ==
  [epoch \in Epochs |->
     IF epoch \in epochs /\ Open(epoch) THEN [sockets[epoch] EXCEPT !.state = "closing"]
     ELSE sockets[epoch]]

\* closeConnections
CloseConnections ==
  /\ sockets' = Closed(Epochs)
  /\ RejectWaiters(Epochs)

\* A send on a socket that is not open throws, and every such throw is caught.
Sent(epoch, type, about) ==
  IF Open(epoch) THEN toDaemon \cup {Frame(epoch, type, about)} ELSE toDaemon

Fault ==
  /\ faults < MaxFaults
  /\ faults' = faults + 1

-----------------------------------------------------------------------------
(* Management requests *)

\* register; a second registration changes nothing, a tombstone refuses it.
Register ==
  /\ row.state = "none"
  /\ row' = [row EXCEPT !.state = "live", !.daemon = 1, !.execution = 1]
  /\ UNCHANGED <<sockets, calls, inflight, counters, wires, receiver, daemon, faults>>

\* rotate of a version that is still the expected one; any other is refused or
\* answered with the secret that exists.
RotateDaemon ==
  /\ row.state = "live"
  /\ row.daemon < MaxVersions
  /\ row' = [row EXCEPT !.daemon = @ + 1]
  /\ CloseConnections
  /\ UNCHANGED <<inflight, deliveries, wires, receiver, daemon, faults>>

RotateExecution ==
  /\ row.state = "live"
  /\ row.execution < MaxVersions
  /\ row' = [row EXCEPT !.execution = @ + 1]
  /\ UNCHANGED <<sockets, calls, inflight, counters, wires, receiver, daemon, faults>>

Delete ==
  /\ row.state # "none"
  /\ row' = [row EXCEPT !.state = "deleted"]
  /\ CloseConnections
  /\ UNCHANGED <<inflight, deliveries, wires, receiver, daemon, faults>>

-----------------------------------------------------------------------------
(* Connections *)

\* connectDaemon, after authorize: the newest connection replaces the others.
Connect ==
  /\ row.state = "live"
  /\ row.epoch < MaxEpochs
  /\ row' = [row EXCEPT !.epoch = @ + 1]
  /\ sockets' = [Closed(Epochs) EXCEPT ![row.epoch + 1] =
                   [state |-> "open", version |-> row.daemon, generation |-> NoGeneration]]
  /\ RejectWaiters(Epochs)
  /\ UNCHANGED <<inflight, deliveries, wires, receiver, daemon, faults>>

\* hello: the generation of a connection is set once.
Hello(epoch, generation) ==
  /\ Current(epoch)
  /\ sockets[epoch].generation = NoGeneration
  /\ buffered < MaxBuffered
  /\ sockets' = [sockets EXCEPT ![epoch].generation = generation]
  /\ UNCHANGED <<row, calls, inflight, counters, wires, receiver, daemon, faults>>

\* webSocketClose and webSocketError: the connection is over on both sides.
SocketEnds(epoch) ==
  /\ sockets[epoch].state # "none"
  /\ sockets' = [sockets EXCEPT ![epoch] = NoSocket]
  /\ RejectWaiters({epoch})
  /\ toDaemon' = {frame \in toDaemon : frame.epoch # epoch}
  /\ toGateway' = {frame \in toGateway : frame.epoch # epoch}
  /\ UNCHANGED <<row, inflight, deliveries, receiver, daemon, faults>>

\* Memory and sockets go, the row stays.
Restarts ==
  /\ Fault
  /\ sockets' = [epoch \in Epochs |-> NoSocket]
  /\ calls' = [call \in Calls |->
                 IF calls[call].stage \in {"idle", "done"} THEN calls[call]
                 ELSE Over("uncertain")]
  /\ inflight' = [slot \in Slots |-> NoDelivery]
  /\ submissions' = 0 /\ deliveries' = 0 /\ buffered' = 0
  /\ toDaemon' = {} /\ toGateway' = {}
  /\ UNCHANGED <<row, receiver, daemon>>

\* The object is evicted.
Evict == Restarts /\ UNCHANGED deployment

\* The gateway is deployed with a new routing secret, of which the old one may stay as
\* ROUTING_PREVIOUS_SIGNING_SECRET, or with other callback routes: all are there, a
\* receiver is missing, or they do not parse.
Deployments ==
  {[deployment EXCEPT !.secret = @ + 1, !.verified = {deployment.secret + 1} \cup kept] :
     kept \in {{}, {deployment.secret}}}
  \cup {[deployment EXCEPT !.routes = routes] : routes \in {"configured", "unavailable", "broken"}}

Deploy(next) ==
  /\ Restarts
  /\ next.secret <= MaxVersions
  /\ deployment' = next

-----------------------------------------------------------------------------
(* Submissions *)

\* The finally blocks of fetch and submit.
Finish(call, answer, reserved) ==
  /\ calls' = [calls EXCEPT ![call] = Over(answer)]
  /\ submissions' = submissions - 1
  /\ buffered' = buffered - reserved

\* fetch and the first authorize.
SubmitArrives(call, token, generation) ==
  /\ calls[call].stage = "idle"
  /\ IF /\ submissions < MaxSubmissions
        /\ row.state = "live"
        /\ token = row.execution
     THEN /\ calls' = [calls EXCEPT ![call].stage = "preparing", ![call].token = token,
                                    ![call].generation = generation]
          /\ submissions' = submissions + 1
     ELSE /\ calls' = [calls EXCEPT ![call] = Over("not_sent")]
          /\ UNCHANGED submissions
  /\ UNCHANGED <<row, sockets, inflight, deliveries, buffered, wires, receiver, daemon, faults>>

\* The body is read into the buffer budget, checked, hashed and signed.
SubmitReads(call) ==
  /\ calls[call].stage = "preparing"
  /\ buffered < MaxBuffered
  /\ deployment.routes = "configured"
  /\ calls' = [calls EXCEPT ![call].stage = "signed"]
  /\ buffered' = buffered + 1
  /\ UNCHANGED <<row, sockets, inflight, submissions, deliveries, wires, receiver, daemon, faults>>

\* No room, an invalid body, or an unknown receiver.
SubmitInvalid(call) ==
  /\ calls[call].stage = "preparing"
  /\ Finish(call, "not_sent", 0)
  /\ UNCHANGED <<row, sockets, inflight, deliveries, wires, receiver, daemon, faults>>

\* Variant: what was authorised before the awaits is dispatched.
DispatchableOnce(call) ==
  \E epoch \in Socket :
    /\ sockets[epoch].generation = calls[call].generation
    /\ Cardinality(Waiters(Epochs)) < MaxSubmissions

\* "Every await before dispatch may admit a concurrent rotation/deletion/reconnect."
Dispatchable(call) ==
  /\ Authorized(call)
  /\ \E epoch \in Socket :
       /\ sockets[epoch].generation = calls[call].generation
       /\ Cardinality(Waiters(Epochs)) < MaxSubmissions

SubmitDispatches(call) ==
  /\ calls[call].stage = "signed"
  /\ Dispatchable(call)
  /\ RoomInFlight
  /\ calls' = [calls EXCEPT ![call].stage = "waiting", ![call].epoch = row.epoch]
  /\ toDaemon' = toDaemon \cup {Frame(row.epoch, "request", call)}
  /\ sent' = sent \cup {call}
  /\ UNCHANGED <<row, sockets, inflight, counters, toGateway, receiver, accepted, rejected,
                 envelopes, faults>>

SubmitRefused(call) ==
  /\ calls[call].stage = "signed"
  /\ ~Dispatchable(call)
  /\ Finish(call, "not_sent", 1)
  /\ UNCHANGED <<row, sockets, inflight, deliveries, wires, receiver, daemon, faults>>

\* The acceptance deadline.
SubmitTimesOut(call) ==
  /\ calls[call].stage = "waiting"
  /\ Finish(call, "uncertain", 1)
  /\ UNCHANGED <<row, sockets, inflight, deliveries, wires, receiver, daemon, faults>>

-----------------------------------------------------------------------------
(* webSocketMessage *)

Read(frame) ==
  /\ frame \in toGateway
  /\ toGateway' = toGateway \ {frame}

\* A frame of a connection that no longer speaks for the machine, one that does not
\* fit the buffer budget: the connection is closed and its waiters are told.
MessageRefused(frame) ==
  /\ Read(frame)
  /\ ~Current(frame.epoch) \/ buffered >= MaxBuffered
  /\ sockets' = Closed({frame.epoch})
  /\ RejectWaiters({frame.epoch})
  /\ UNCHANGED <<row, inflight, deliveries, toDaemon, receiver, daemon, faults>>

\* A malformed frame.
MessageInvalid(epoch) ==
  /\ Open(epoch)
  /\ Fault
  /\ sockets' = Closed({epoch})
  /\ RejectWaiters({epoch})
  /\ UNCHANGED <<row, inflight, deliveries, wires, receiver, daemon>>

\* A frame over the limit: closed with 1009, and waiters keep their deadline.
MessageTooLarge(epoch) ==
  /\ Current(epoch)
  /\ Fault
  /\ sockets' = Closed({epoch})
  /\ UNCHANGED <<row, calls, inflight, counters, wires, receiver, daemon>>

\* accepted or rejected, for a call that waits on this connection or no longer waits.
Reply(frame) ==
  /\ Read(frame)
  /\ frame.type \in {"accepted", "rejected"}
  /\ Current(frame.epoch) /\ buffered < MaxBuffered
  /\ IF frame.about \in Waiters({frame.epoch})
     THEN Finish(frame.about, frame.type, 1)
     ELSE UNCHANGED <<calls, submissions, buffered>>
  /\ UNCHANGED <<row, sockets, inflight, deliveries, toDaemon, receiver, daemon, faults>>

ResultRead(frame) ==
  /\ Read(frame)
  /\ frame.type = "result"
  /\ Current(frame.epoch) /\ buffered < MaxBuffered

\* deliver at its limit.
ResultNoCapacity(frame) ==
  /\ ResultRead(frame)
  /\ deliveries >= MaxDeliveries
  /\ toDaemon' = Sent(frame.epoch, "nack", frame.about)
  /\ UNCHANGED <<row, sockets, calls, inflight, counters, receiver, daemon, faults>>

\* deliver, up to the signature and hash work.
ResultStarts(frame, slot) ==
  /\ ResultRead(frame)
  /\ deliveries < MaxDeliveries
  /\ inflight[slot] = NoDelivery
  /\ inflight' = [inflight EXCEPT ![slot] =
                    [stage |-> "verifying", epoch |-> frame.epoch, result |-> frame.about]]
  /\ deliveries' = deliveries + 1
  /\ buffered' = buffered + 1
  /\ UNCHANGED <<row, sockets, calls, submissions, toDaemon, receiver, daemon, faults>>

\* Variant: a send that throws leaves the delivery counted.
DeliverLeaks(slot, type) ==
  /\ toDaemon' = Sent(inflight[slot].epoch, type, inflight[slot].result)
  /\ inflight' = [inflight EXCEPT ![slot] = NoDelivery]
  /\ deliveries' = IF Open(inflight[slot].epoch) THEN deliveries - 1 ELSE deliveries
  /\ buffered' = buffered - 1
  /\ UNCHANGED <<row, sockets, calls, submissions, toGateway, daemon, faults>>

\* The catch and finally blocks of deliver and webSocketMessage, or its last send.
DeliverEnds(slot, type) ==
  /\ toDaemon' = Sent(inflight[slot].epoch, type, inflight[slot].result)
  /\ inflight' = [inflight EXCEPT ![slot] = NoDelivery]
  /\ deliveries' = deliveries - 1
  /\ buffered' = buffered - 1
  /\ UNCHANGED <<row, sockets, calls, submissions, toGateway, daemon, faults>>

\* The checks of deliver, before and after which it waits for signature and hash work:
\* verifyRoutingEnvelope and the ones a result without an envelope stands for.
Verified(slot) == inflight[slot].result.envelope \in deployment.verified

\* A permanent refusal by the gateway itself, also of a result the receiver has.
DeliverInvalid(slot) ==
  /\ inflight[slot].stage = "verifying"
  /\ ~Verified(slot)
  /\ DeliverEnds(slot, "invalid")
  /\ UNCHANGED receiver

\* "Authorization might have changed during signature/hash work": the error of
\* current is not retryable, but it is sent only while the socket is open.
DeliverStale(slot) ==
  /\ inflight[slot].stage = "verifying"
  /\ Verified(slot)
  /\ ~Current(inflight[slot].epoch)
  /\ DeliverEnds(slot, "revoked")
  /\ UNCHANGED receiver

Deliverable(slot) ==
  /\ inflight[slot].stage = "verifying"
  /\ Verified(slot)
  /\ Current(inflight[slot].epoch)

\* receiver throws: a receiver that is missing may come back, routes that do not parse
\* are refused for good.
DeliverUnrouted(slot) ==
  /\ Deliverable(slot)
  /\ deployment.routes # "configured"
  /\ DeliverEnds(slot, IF deployment.routes = "broken" THEN "unrouted" ELSE "nack")
  /\ UNCHANGED receiver

DeliverCalls(slot) ==
  /\ Deliverable(slot)
  /\ deployment.routes = "configured"
  /\ inflight' = [inflight EXCEPT ![slot].stage = "calling"]
  /\ atReceiver' = atReceiver \cup {inflight[slot].result.request}
  /\ UNCHANGED <<row, sockets, calls, counters, wires, admitted, refused, daemon, faults>>

\* Variant: a callback that has returned is taken for the receiver's receipt.
DeliverAcksAnyReturn(slot) ==
  /\ inflight[slot].stage = "calling"
  /\ DeliverEnds(slot, "result_ack")
  /\ UNCHANGED receiver

\* "No durable acknowledgement before the receiver's matching receipt."
DeliverAcks(slot) ==
  /\ inflight[slot].stage = "calling"
  /\ inflight[slot].result.request \in admitted
  /\ DeliverEnds(slot, "result_ack")
  /\ UNCHANGED receiver

\* The receiver answered "rejected", and not only for now.
DeliverRefused(slot) ==
  /\ inflight[slot].stage = "calling"
  /\ inflight[slot].result.request \notin admitted
  /\ refused' = refused \cup {inflight[slot].result.request}
  /\ DeliverEnds(slot, "refused")
  /\ UNCHANGED <<atReceiver, admitted>>

\* The callback deadline, a callback that throws or whose receipt does not match, or a
\* receiver that refuses for now: admission stays possible.
DeliverTimesOut(slot) ==
  /\ inflight[slot].stage = "calling"
  /\ DeliverEnds(slot, "nack")
  /\ UNCHANGED receiver

-----------------------------------------------------------------------------
(* The receiver and the daemon, external *)

ReceiverAdmits(request) ==
  /\ request \in atReceiver \ (admitted \cup refused)
  /\ admitted' = admitted \cup {request}
  /\ UNCHANGED <<row, sockets, calls, inflight, counters, wires, atReceiver, refused, daemon, faults>>

\* The daemon answers on the connection that asked; a duplicate is accepted again, and
\* "an identical resubmission may replace its signed routing envelope".  A request that is
\* on its way was signed by this activation.
DaemonAnswers(frame, answer) ==
  /\ frame \in toDaemon
  /\ frame.type = "request"
  /\ toDaemon' = toDaemon \ {frame}
  /\ toGateway' = toGateway \cup {Frame(frame.epoch, answer, frame.about)}
  /\ accepted' = IF answer = "accepted" THEN accepted \cup {frame.about} ELSE accepted
  /\ rejected' = IF answer = "rejected" THEN rejected \cup {frame.about} ELSE rejected
  /\ envelopes' = IF answer = "accepted"
                  THEN [envelopes EXCEPT ![RequestOf(frame.about)] = deployment.secret]
                  ELSE envelopes
  /\ UNCHANGED <<row, sockets, calls, inflight, counters, receiver, sent, faults>>

DaemonReads(frame) ==
  /\ frame \in toDaemon
  /\ frame.type # "request"
  /\ toDaemon' = toDaemon \ {frame}
  /\ UNCHANGED <<row, sockets, calls, inflight, counters, toGateway, receiver, daemon, faults>>

\* A result of an accepted request is sent, and sent again until acknowledged.
DaemonSends(epoch, request, envelope) ==
  /\ sockets[epoch].state # "none"
  /\ sockets[epoch].generation # NoGeneration
  /\ envelopes[request] # NoEnvelope
  /\ RoomInFlight
  /\ toGateway' = toGateway \cup {Frame(epoch, "result", Result(request, envelope))}
  /\ UNCHANGED <<row, sockets, calls, inflight, counters, toDaemon, receiver, daemon>>

DaemonSendsResult(epoch, request) ==
  /\ DaemonSends(epoch, request, envelopes[request])
  /\ UNCHANGED faults

DaemonSendsInvalid(epoch, request) == Fault /\ DaemonSends(epoch, request, NoEnvelope)

-----------------------------------------------------------------------------
Init ==
  /\ deployment = [secret |-> 1, verified |-> {1}, routes |-> "configured"]
  /\ row = [state |-> "none", daemon |-> 0, execution |-> 0, epoch |-> 0]
  /\ sockets = [epoch \in Epochs |-> NoSocket]
  /\ calls = [call \in Calls |-> NoCall]
  /\ inflight = [slot \in Slots |-> NoDelivery]
  /\ submissions = 0 /\ deliveries = 0 /\ buffered = 0
  /\ toDaemon = {} /\ toGateway = {}
  /\ atReceiver = {} /\ admitted = {} /\ refused = {}
  /\ sent = {} /\ accepted = {} /\ rejected = {}
  /\ envelopes = [request \in Requests |-> NoEnvelope]
  /\ faults = 0

Management == Register \/ RotateDaemon \/ RotateExecution \/ Delete

Connections ==
  \/ Connect
  \/ \E epoch \in Epochs :
       \/ SocketEnds(epoch)
       \/ MessageInvalid(epoch)
       \/ MessageTooLarge(epoch)
       \/ \E generation \in Generations : Hello(epoch, generation)

Submissions ==
  \E call \in Calls :
    \/ \E token \in Versions, generation \in Generations :
         SubmitArrives(call, token, generation)
    \/ SubmitReads(call)
    \/ SubmitInvalid(call)
    \/ SubmitDispatches(call)
    \/ SubmitRefused(call)
    \/ SubmitTimesOut(call)

Messages ==
  \E frame \in toGateway :
    \/ MessageRefused(frame)
    \/ Reply(frame)
    \/ ResultNoCapacity(frame)
    \/ \E slot \in Slots : ResultStarts(frame, slot)

Deliveries ==
  \E slot \in Slots :
    \/ DeliverInvalid(slot)
    \/ DeliverStale(slot)
    \/ DeliverUnrouted(slot)
    \/ DeliverCalls(slot)
    \/ DeliverAcks(slot)
    \/ DeliverRefused(slot)
    \/ DeliverTimesOut(slot)

Peers ==
  \/ \E request \in Requests : ReceiverAdmits(request)
  \/ \E frame \in toDaemon :
       \/ DaemonReads(frame)
       \/ \E answer \in {"accepted", "rejected"} : DaemonAnswers(frame, answer)
  \/ \E epoch \in Epochs, request \in Requests :
       DaemonSendsResult(epoch, request) \/ DaemonSendsInvalid(epoch, request)

\* An activation keeps the environment it was deployed with.
Next ==
  \/ (Management \/ Connections \/ Submissions \/ Messages \/ Deliveries \/ Peers)
       /\ UNCHANGED deployment
  \/ Evict
  \/ \E next \in Deployments : Deploy(next)

Spec == Init /\ [][Next]_vars

-----------------------------------------------------------------------------
(* Properties *)

\* The limits are counted right through every await, refusal, throw and deadline:
\* a counter is exactly what is in progress, so that it neither leaks nor admits
\* more than its limit.
CountersBalance ==
  /\ submissions = Count({"preparing", "signed", "waiting"})
  /\ deliveries = Cardinality({slot \in Slots : inflight[slot] # NoDelivery})
  /\ buffered = Count({"signed", "waiting"}) + deliveries
  /\ submissions <= MaxSubmissions
  /\ deliveries <= MaxDeliveries
  /\ buffered <= MaxBuffered

\* What a caller is told is true of its own attempt: "accepted" and "rejected" are
\* the daemon's answer to it, "not sent" means that the daemon never got it, and
\* every other end of an attempt that was sent is reported as uncertain.
AnswersAreTrue ==
  \A call \in Calls :
    LET answer == calls[call].answer
    IN  /\ answer = "accepted" => call \in accepted
        /\ answer = "rejected" => call \in rejected
        /\ answer = "not_sent" => call \notin sent

\* A machine has one daemon: an open socket is that of the latest connection, with
\* the current secret, of a machine that is not deleted.
OneDaemon ==
  \A epoch \in Epochs :
    Open(epoch) =>
      /\ row.state = "live"
      /\ row.epoch = epoch
      /\ row.daemon = sockets[epoch].version

\* Nobody waits for a connection that has ended, been replaced or been revoked: only
\* the close after an oversized frame leaves its waiters to their deadline.
WaitersHaveSockets ==
  \A call \in Waiters(Epochs) :
    \/ Open(calls[call].epoch)
    \/ sockets[calls[call].epoch].state = "closing" /\ faults > 0

\* The sockets the gateway holds, the row and the calls that wait never disagree,
\* however opening, replacing, revoking and closing interleave.
ConnectionsInStep == OneDaemon /\ WaitersHaveSockets

\* What the daemon is told of a result is true: it may forget it only once the receiver
\* holds it, and gives up on it only when the receiver refused it, or the deployment cannot
\* verify its envelope or read its routes.  A rotation of the machine's secrets, a deletion
\* or a reconnection in the middle of a delivery never makes it do either, although the
\* error that they raise is not retryable.
VerdictsAreTrue ==
  \A frame \in toDaemon :
    /\ frame.type = "result_ack" => frame.about.request \in admitted
    /\ frame.type = "refused" => frame.about.request \in refused
    /\ frame.type = "invalid" => frame.about.envelope \notin deployment.verified
    /\ frame.type = "unrouted" => deployment.routes = "broken"
    /\ frame.type # "revoked"

\* Callers and the daemon are told what is so.
AnswersHold == AnswersAreTrue /\ VerdictsAreTrue

\* Sockets, waiting calls and the counters of what is in progress never disagree.
BooksInStep == ConnectionsInStep /\ CountersBalance

\* A request leaves for the daemon only under a secret that is valid at that moment,
\* and a result reaches the receiver only from the machine's daemon: what was checked
\* before an await does not count after a rotation, a deletion or a reconnection.
RevocationWins ==
  [][/\ \A call \in sent' \ sent : Authorized(call)
     /\ \A slot \in Slots :
          inflight[slot].stage = "verifying" /\ inflight'[slot].stage = "calling" =>
            Open(inflight[slot].epoch)]_vars
=============================================================================
