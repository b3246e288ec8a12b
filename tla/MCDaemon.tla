------------------------------ MODULE MCDaemon ------------------------------
(***************************************************************************)
(* Parts of the daemon's process in one run: the core's ledger of          *)
(* requests, the journal and runner, and the input of an execution.  A     *)
(* behaviour picks a part in its first state and is a behaviour of that    *)
(* part's module, while the variables of the others keep their initial     *)
(* values.  A big result fills the room that the journal reserves for a    *)
(* running request; inputs are known by their size.                        *)
(***************************************************************************)
EXTENDS RequestLedger, DaemonJournal, ExecutionInput

VARIABLE part

all == <<part, vars, journalVars, inputVars>>

BigFills(outcome) == IF outcome = "big" THEN 2 ELSE 1
SizeItself(data) == data

ASSUME DaemonAssumption == InputAssumption

DaemonInit ==
  /\ part \in {"ledger", "journal", "input"}
  /\ Init
  /\ JournalInit
  /\ InputInit

DaemonNext ==
  \/ part = "ledger" /\ Next
       /\ UNCHANGED <<part, journalVars, inputVars>>
  \/ part = "input" /\ InputNext
       /\ UNCHANGED <<part, vars, journalVars>>
  \/ part = "journal" /\ JournalNext
       /\ UNCHANGED <<part, vars, inputVars>>

DaemonSpec == DaemonInit /\ [][DaemonNext]_all
=============================================================================
