--------------------------- MODULE MCDaemonJournal ---------------------------
(***************************************************************************)
(* Small instances of DaemonJournal: a big result fills the room that is   *)
(* reserved for a running request; the others are smaller.                 *)
(***************************************************************************)
EXTENDS DaemonJournal

MCBytes(outcome) == IF outcome = "big" THEN 2 ELSE 1
=============================================================================
