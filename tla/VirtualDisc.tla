---------------------------- MODULE VirtualDisc ----------------------------
(***************************************************************************)
(* What an emulated disc promises the game that reads it (the interface    *)
(* src/ios/EmuDI/VirtualDisc.hpp behind the commands of EmuDI.cpp): the    *)
(* partition opens once, after the disc's id was read; a read that is      *)
(* answered OK gives the words of the partition and of the patches over    *)
(* it, zeros only for a word that could not be read just now, and that     *)
(* only in a read that reaches the patches; and once the game runs on an   *)
(* open partition, what there is to read does not change.                  *)
(*                                                                         *)
(* A read that starts at a stale address is promised no word of the stale  *)
(* addresses.  Addresses become stale only in a command that is answered   *)
(* with an error, or in a read that lost words.                            *)
(***************************************************************************)
EXTENDS Integers

CONSTANTS
  PatchBase,  \* the first word address of the patches
  Zero        \* a word of zeros

VARIABLES
  idRead, opened, started,
  content,    \* the word there is at every address
  stale,      \* the addresses the disc has lost hold of
  reply       \* the last reply: [cmd, result, at, data, lost], of which lost are
              \* the places of data whose word could not be read

vars == <<idRead, opened, started, content, stale, reply>>

OK(cmd) == reply'.cmd = cmd /\ reply'.result = "OK"

\* The reply r reaches the patches.
Mixed(r) == \E i \in DOMAIN r.data : r.at + i >= PatchBase

\* The reply r gives, at its place i, the word it should.
RightAt(r, i) ==
  IF i \in r.lost THEN r.data[i] = Zero
  ELSE \/ r.data[i] = content[r.at + i]
       \/ r.at \in stale /\ r.at + i \in stale

Right(r) ==
  /\ \A i \in DOMAIN r.data : RightAt(r, i)
  /\ r.lost # {} => Mixed(r)

\* The words of the partition are read while it is open.
Readable(r) ==
  \A i \in DOMAIN r.data : r.at + i < PatchBase /\ i \notin r.lost => opened

Init ==
  /\ idRead = FALSE /\ opened = FALSE /\ started = FALSE /\ stale = {}
  /\ reply.result = "none"

Answers ==
  /\ OK("Read") => Right(reply') /\ Readable(reply')
  /\ (OK("OpenPartition") /\ ~opened) => idRead

\* The game has started on an open partition.
Frozen == opened /\ started

Next ==
  /\ Answers
  /\ idRead => idRead'
  /\ started => started'
  /\ opened' = (opened \/ OK("OpenPartition"))
  /\ stale' \subseteq stale \/ reply'.result # "OK" \/ reply'.lost # {}
  /\ Frozen => content' = content

Spec == Init /\ [][Next]_vars

=============================================================================
