---------------------------- MODULE MCVmwareFifo ----------------------------
(* Values of the constants of VmwareFifo for TLC.                          *)
EXTENDS VmwareFifo

CONSTANTS update, define
MCWords == {update, define}
=============================================================================
