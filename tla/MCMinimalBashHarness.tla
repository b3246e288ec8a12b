------------------------ MODULE MCMinimalBashHarness ------------------------
(***************************************************************************)
(* Small instances of MinimalBashHarness: a refused call between two that  *)
(* run, and a response whose only call is refused.                         *)
(***************************************************************************)
EXTENDS MinimalBashHarness

SerialBatches == {<<TRUE, FALSE, TRUE>>, <<FALSE>>}
=============================================================================
