---------------------------- MODULE MCUSBStorage ----------------------------
(***************************************************************************)
(* A small drive for TLC: a unit that is no disk, and a disk of two        *)
(* sectors.                                                                *)
(***************************************************************************)
EXTENDS USBStorage, TLC

CONSTANTS a, b, x, y

MCUnits == (0 :> "other") @@ (1 :> "disk")
MCDisk == (0 :> a) @@ (1 :> b)
MCTexts == {x, y}
MCReads == {<<0, 2>>, <<1, 1>>}
MCWrites == {<<0, <<x, y>>>>, <<1, <<x>>>>}

=============================================================================
