------------------------------ MODULE MCEmuDI ------------------------------
(***************************************************************************)
(* A small disc for TLC: an image of 14 and 13 words in blocks of 5, of    *)
(* which 4 are data.  The second block lies across the two files, so that  *)
(* ReadRaw takes no read of it.                                            *)
(***************************************************************************)
EXTENDS EmuDI, TLC

CONSTANTS Game, Channel, MenuTitle, SomeIOS

MCTitles == {Game, Channel, MenuTitle, SomeIOS}

Partition(dataOffset, tmdOffset) ==
  [title |-> Game, dataOffset |-> dataOffset,
   tmdOffset |-> tmdOffset, tmdLength |-> 1, tmdSizeOK |-> TRUE]

\* The game's partition, and one without metadata.
MCPartitionAt == (2 :> Partition(3, 1)) @@ (1 :> Partition(2, 0))

Patch(start, length, file, from) ==
  [start |-> start, length |-> length, file |-> file, from |-> from]

\* Three patches of which one is empty, three of which the first is a later part of its
\* file and the last lies behind a gap, and one too many.
MCTables ==
  { <<Patch(16, 2, 1, 0), Patch(18, 0, 3, 0), Patch(18, 2, 2, 5)>>,
    <<Patch(16, 2, 2, 3), Patch(18, 1, 1, 0), Patch(20, 1, 3, 2)>>,
    [i \in 1 .. 4 |-> Patch(15 + i, 1, i, 0)] }

\* From one block into the next, one of which cannot be read or both can, of a
\* length not aligned, two blocks, into the patches, from inside of a patch into the
\* next, over two patches or on into a gap, and from a gap into a patch.
MCReads ==
  { <<2, 4>>, <<1, 3>>, <<10, 4>>, <<8, 8>>, <<14, 4>>, <<17, 2>>, <<18, 2>>, <<19, 2>> }

\* What the theorem on ImplementsDisc takes for granted holds here.
ASSUME MCTablesAssumption == ValidTables

\* Requests about the running title, others, and one that is wrong.
MCRequests ==
  { [cmd |-> "GetTitleID", ins |-> <<>>, outs |-> <<"u64">>, aligned |-> TRUE, title |-> Channel],
    [cmd |-> "GetTitleID", ins |-> <<>>, outs |-> <<"u32">>, aligned |-> TRUE, title |-> Channel],
    [cmd |-> "DIGetTicketView", ins |-> <<"none">>, outs |-> <<"view">>, aligned |-> TRUE,
     title |-> Channel],
    [cmd |-> "LaunchTitle", ins |-> <<"u64", "view">>, outs |-> <<>>, aligned |-> TRUE,
     title |-> Channel],
    [cmd |-> "GetTMDView", ins |-> <<"u64">>, outs |-> <<"view">>, aligned |-> TRUE,
     title |-> Channel] }

=============================================================================
