--------------------------- MODULE MCMachineGateway ---------------------------
(***************************************************************************)
(* Small instances of MachineGateway: every call is an attempt at the same *)
(* request, and calls are interchangeable.                                 *)
(***************************************************************************)
EXTENDS MachineGateway, TLC

CONSTANT TheRequest

MCRequestOf(call) == TheRequest

AnyCall == Permutations(Calls)
=============================================================================
