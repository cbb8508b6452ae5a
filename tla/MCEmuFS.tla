------------------------------ MODULE MCEmuFS ------------------------------
(***************************************************************************)
(* Small instances of EmuFS for TLC.  Paths, files and texts are           *)
(* interchangeable where the specification only compares them.             *)
(***************************************************************************)
EXTENDS EmuFS, TLC

\* Slots are scanned in order, so they are numbers and not symmetric.
Symmetry == Permutations(Paths) \cup Permutations(Files) \cup Permutations(Texts)

=============================================================================
