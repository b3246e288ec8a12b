---------------------------- MODULE RequestLedger ----------------------------
(***************************************************************************)
(* The request ledger of the execution core (core.rs, receipts.rs).        *)
(*                                                                         *)
(* Every request has a receipt from its acceptance on, before it is        *)
(* dispatched.  A repeated request joins the receipt; the task behind it   *)
(* runs whether or not anybody waits.  Delivered results expire into       *)
(* tombstones that keep the identity.  Capacity for the result is          *)
(* reserved at acceptance.  Shutdown shares the ledger's lock with         *)
(* acceptance.  One action is what happens under that lock or between two  *)
(* awaits of a request's task; callers only wait, and are left out.  What  *)
(* an operation does, and how long it takes, is external.                  *)
(***************************************************************************)
EXTENDS Integers, FiniteSets, Functions

CONSTANTS
  Ids,          \* request IDs
  Inputs,       \* operations, as their fingerprints
  Sizes,        \* encoded sizes of results
  Reserve,      \* max_result_bytes
  ErrorSize,    \* encoded size of an error
  TombstoneSize,\* encoded size of result_expired
  MaxRequests,  \* max_requests
  MaxPending,   \* max_pending_requests
  MaxBytes      \* max_receipt_bytes

ASSUME LedgerAssumption ==
  /\ Sizes \subseteq Nat
  /\ {Reserve, ErrorSize, TombstoneSize, MaxRequests, MaxPending, MaxBytes} \subseteq Nat
  /\ ErrorSize <= Reserve
  /\ IsFiniteSet(Ids)

VARIABLES
  receipts,   \* ledger.entries
  bytes,      \* ledger.bytes
  pending,    \* ledger.pending
  cancelled,  \* runtime.cancel
  shutdown,   \* the progress of shutdown
  effects     \* history: how often each request's operation was begun

vars == <<receipts, bytes, pending, cancelled, shutdown, effects>>

-----------------------------------------------------------------------------
(* Values *)

NoReceipt == [phase |-> "none"]

\* accepted: the task is spawned; working: the operation was begun.
Phases  == {"accepted", "working", "finished"}
Results == {"none", "cancelled", "value", "oversize", "expired"}

\* delivered: not reported, reported, reported and past its retention.
Receipts ==
  {r \in [phase : Phases, input : Inputs, cancel : BOOLEAN, result : Results, size : Nat,
          delivered : {"no", "yes", "due"}] :
     /\ r.phase = "finished" <=> r.result # "none"
     /\ r.delivered # "no" => r.phase = "finished"}

Known(id) == receipts[id] # NoReceipt

Settled(id) == Known(id) /\ receipts[id].phase = "finished"

Entries == {id \in Ids : Known(id)}

-----------------------------------------------------------------------------
(* execute_inner *)

Room ==
  /\ Cardinality(Entries) < MaxRequests
  /\ pending < MaxPending
  /\ bytes + Reserve <= MaxBytes

\* Variant: the shutdown token is looked at before the ledger is locked, so that
\* what it said may be stale.
AcceptUnchecked(id, input) ==
  /\ ~Known(id)
  /\ Room
  /\ receipts' = [receipts EXCEPT ![id] =
       [phase |-> "accepted", input |-> input, cancel |-> FALSE, result |-> "none",
        size |-> 0, delivered |-> "no"]]
  /\ bytes' = bytes + Reserve
  /\ pending' = pending + 1
  /\ UNCHANGED <<cancelled, shutdown, effects>>

\* A new request.  A known one joins its receipt or conflicts with it, and one
\* that is not admitted is refused: neither changes anything.
Accept(id, input) ==
  /\ ~Known(id)
  /\ ~cancelled
  /\ Room
  /\ receipts' = [receipts EXCEPT ![id] =
       [phase |-> "accepted", input |-> input, cancel |-> FALSE, result |-> "none",
        size |-> 0, delivered |-> "no"]]
  /\ bytes' = bytes + Reserve
  /\ pending' = pending + 1
  /\ UNCHANGED <<cancelled, shutdown, effects>>

\* Variant: an operation whose task failed is dispatched again.
DispatchAgain(id) ==
  /\ Known(id)
  /\ receipts[id].phase \in {"accepted", "working"}
  /\ ~cancelled /\ ~receipts[id].cancel
  /\ receipts' = [receipts EXCEPT ![id].phase = "working"]
  /\ effects' = [effects EXCEPT ![id] = @ + 1]
  /\ UNCHANGED <<bytes, pending, cancelled, shutdown>>

\* dispatch: the operation is begun unless it was cancelled before.
Dispatch(id) ==
  /\ Known(id)
  /\ receipts[id].phase = "accepted"
  /\ ~cancelled /\ ~receipts[id].cancel
  /\ receipts' = [receipts EXCEPT ![id].phase = "working"]
  /\ effects' = [effects EXCEPT ![id] = @ + 1]
  /\ UNCHANGED <<bytes, pending, cancelled, shutdown>>

\* Variant: pending is counted down by whoever sees the result first.
SettleWithoutCount(id, result, size) ==
  /\ receipts' = [receipts EXCEPT ![id] =
                    [@ EXCEPT !.phase = "finished", !.result = result, !.size = size]]
  /\ bytes' = bytes - Reserve + size
  /\ UNCHANGED <<pending, cancelled, shutdown, effects>>

\* The end of the task: the reservation gives way to the result.
Settle(id, result, size) ==
  /\ receipts' = [receipts EXCEPT ![id] =
                    [@ EXCEPT !.phase = "finished", !.result = result, !.size = size]]
  /\ bytes' = bytes - Reserve + size
  /\ pending' = pending - 1
  /\ UNCHANGED <<cancelled, shutdown, effects>>

\* dispatch refuses: cancelled before execution.
Refuse(id) ==
  /\ Known(id)
  /\ receipts[id].phase = "accepted"
  /\ cancelled \/ receipts[id].cancel
  /\ Settle(id, "cancelled", ErrorSize)

\* The operation ends with a result or an error, or its task fails.
Finish(id, size) ==
  /\ Known(id)
  /\ receipts[id].phase = "working"
  /\ IF size > Reserve THEN Settle(id, "oversize", ErrorSize) ELSE Settle(id, "value", size)

-----------------------------------------------------------------------------
(* mark_delivered, cancel, sweep *)

MarkDelivered(id) ==
  /\ Settled(id)
  /\ receipts[id].delivered = "no"
  /\ receipts' = [receipts EXCEPT ![id].delivered = "yes"]
  /\ UNCHANGED <<bytes, pending, cancelled, shutdown, effects>>

\* The retention period of a delivered result ends.
Elapse(id) ==
  /\ Known(id)
  /\ receipts[id].delivered = "yes"
  /\ receipts' = [receipts EXCEPT ![id].delivered = "due"]
  /\ UNCHANGED <<bytes, pending, cancelled, shutdown, effects>>

Cancel(id) ==
  /\ Known(id)
  /\ receipts' = [receipts EXCEPT ![id].cancel = TRUE]
  /\ UNCHANGED <<bytes, pending, cancelled, shutdown, effects>>

Tombstone(receipt) ==
  [receipt EXCEPT !.result = "expired", !.size = TombstoneSize, !.delivered = "no"]

Due == {id \in Ids : Known(id) /\ receipts[id].delivered = "due"}

\* Variant: expired receipts are removed from the map.
SweepAway ==
  /\ Due # {}
  /\ receipts' = [id \in Ids |-> IF id \in Due THEN NoReceipt ELSE receipts[id]]
  /\ bytes' = bytes - SumFunctionOnSet([id \in Due |-> receipts[id].size], Due)
  /\ UNCHANGED <<pending, cancelled, shutdown, effects>>

\* Ledger::sweep
Sweep ==
  /\ Due # {}
  /\ receipts' = [id \in Ids |-> IF id \in Due THEN Tombstone(receipts[id]) ELSE receipts[id]]
  /\ bytes' = bytes + Cardinality(Due) * TombstoneSize
                - SumFunctionOnSet([id \in Due |-> receipts[id].size], Due)
  /\ UNCHANGED <<pending, cancelled, shutdown, effects>>

-----------------------------------------------------------------------------
(* shutdown *)

\* The token is cancelled under the lock that admits requests.
ShutdownBegin ==
  /\ shutdown = "no"
  /\ shutdown' = "begun"
  /\ cancelled' = TRUE
  /\ UNCHANGED <<receipts, bytes, pending, effects>>

\* shutdown polls the ledger until nothing is pending.
ShutdownReturn ==
  /\ shutdown = "begun"
  /\ pending = 0
  /\ shutdown' = "returned"
  /\ UNCHANGED <<receipts, bytes, pending, cancelled, effects>>

-----------------------------------------------------------------------------
(* Specification *)

Init ==
  /\ receipts = [id \in Ids |-> NoReceipt]
  /\ bytes = 0
  /\ pending = 0
  /\ cancelled = FALSE
  /\ shutdown = "no"
  /\ effects = [id \in Ids |-> 0]

Task(id) == Dispatch(id) \/ Refuse(id) \/ \E size \in Sizes : Finish(id, size)

Next ==
  \/ \E id \in Ids : \/ \E input \in Inputs : Accept(id, input)
                     \/ Task(id)
                     \/ MarkDelivered(id) \/ Elapse(id) \/ Cancel(id)
  \/ Sweep
  \/ ShutdownBegin \/ ShutdownReturn

Spec == Init /\ [][Next]_vars

-----------------------------------------------------------------------------
(* Properties *)

\* An operation is begun once at most under one identity, through joins, cancels,
\* delivery and expiry: a tombstone never executes again, and a request reported as
\* cancelled had no effect.
EffectsHonest ==
  \A id \in Ids :
    /\ effects[id] <= 1
    /\ Known(id) /\ receipts[id].result = "cancelled" => effects[id] = 0

\* What a receipt has in the account: its reservation, or the size of its result.
Charge(id) == IF ~Known(id) THEN 0 ELSE IF Settled(id) THEN receipts[id].size ELSE Reserve

\* The account is what the receipts hold: pending counts the requests whose task has
\* not ended, nothing leaks through settling, replacement of oversize results and
\* expiry, and results that can be replayed fit the budget next to the reservations
\* for those to come, tombstones aside.
AccountsBalance ==
  /\ pending = Cardinality({id \in Ids : Known(id) /\ ~Settled(id)})
  /\ bytes = SumFunction([id \in Ids |-> Charge(id)])
  /\ SumFunction([id \in Ids |-> IF Settled(id) /\ receipts[id].result = "expired"
                                 THEN 0 ELSE Charge(id)]) <= MaxBytes

\* When shutdown has returned every accepted request is settled, and none can come.
SettledAtShutdown ==
  shutdown = "returned" => \A id \in Ids : Known(id) => Settled(id)

\* A recorded result is replayed unchanged until it has been delivered and its
\* retention is over; then only the tombstone follows.  An identity is never given up
\* and never changes its input.
ReplayIsStable ==
  [][\A id \in Ids : Known(id) =>
       /\ receipts'[id] # NoReceipt
       /\ receipts'[id].input = receipts[id].input
       /\ receipts[id].phase = "finished" /\ receipts[id].delivered # "due" =>
            /\ receipts'[id].phase = "finished"
            /\ receipts'[id].result = receipts[id].result]_vars

=============================================================================
