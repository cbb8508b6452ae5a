------------------------------ MODULE MCSDCard ------------------------------
(***************************************************************************)
(* Two cards for TLC: one that counts bytes and IOS accepts, and a         *)
(* high-capacity one that it does not.                                     *)
(***************************************************************************)
EXTENDS SDCard, TLC

CONSTANTS a, b, x

MCCards == 0 .. 1
MCHighCapacity == {1}
MCAccepted == {0}
MCData == (0 :> ((0 :> a) @@ (1 :> b) @@ (2 :> a))) @@ (1 :> ((0 :> b) @@ (1 :> a) @@ (2 :> b)))
MCTexts == {x}
MCReads == {<<0, 3>>, <<1, 1>>}
MCWrites == {<<1, <<x, x>>>>}

=============================================================================
