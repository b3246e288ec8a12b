----------------------------- MODULE MCPiHarness -----------------------------
(***************************************************************************)
(* Small instances of PiHarness: a lane of three mutations of which one is *)
(* refused, next to a read; and a single call that is refused.             *)
(***************************************************************************)
EXTENDS PiHarness

Read1   == [mutation |-> FALSE, valid |-> TRUE]
Write   == [mutation |-> TRUE, valid |-> TRUE]
BadRead == [mutation |-> FALSE, valid |-> FALSE]
BadEdit == [mutation |-> TRUE, valid |-> FALSE]

LaneBatches == {<<Write, BadEdit, Write, Read1>>, <<BadRead>>}
=============================================================================
