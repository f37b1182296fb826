----------------------------- MODULE MCEtwStream -----------------------------
(* A small instance of EtwStream: records of two processes, one of them       *)
(* filtered out, with one opcode of two dropped.                              *)
EXTENDS EtwStream

MCPids == {1, 2}
MCOpcodes == {10, 12}
MCFilter == {1}
MCDrops == {10}
MCBoth == {"raw", "decoded"}
=============================================================================
