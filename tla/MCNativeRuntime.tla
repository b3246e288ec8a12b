--------------------------- MODULE MCNativeRuntime ---------------------------
(***************************************************************************)
(* Small instances of NativeRuntime: runs with and without a timeout.      *)
(***************************************************************************)
EXTENDS NativeRuntime

MCTimed(args) == args = "timed"
=============================================================================
