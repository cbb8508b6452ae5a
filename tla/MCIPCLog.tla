------------------------------ MODULE MCIPCLog -----------------------------
(***************************************************************************)
(* Small instances of IPCLog for TLC.                                      *)
(***************************************************************************)
EXTENDS IPCLog

=============================================================================
