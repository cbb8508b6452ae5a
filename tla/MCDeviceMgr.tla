---------------------------- MODULE MCDeviceMgr ----------------------------
(***************************************************************************)
(* Small instances of DeviceMgr for TLC.                                   *)
(***************************************************************************)
EXTENDS DeviceMgr, TLC

\* Device ids and handles are taken in order, so they are not symmetric.
Symmetry == Permutations(UsbIds)

=============================================================================
