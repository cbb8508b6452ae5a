----------------------------- MODULE BlockStore -----------------------------
(***************************************************************************)
(* What a drive promises FatFS through disk_read and disk_write            *)
(* (src/ios/Disk/FatFS.cpp, DeviceMgr::DeviceRead and DeviceWrite): a read *)
(* that succeeds gives what the sectors hold, a write that succeeds is     *)
(* kept, and a write that fails leaves the old or the new data in each of  *)
(* its sectors, which one a later read settles for good.                   *)
(***************************************************************************)
EXTENDS Naturals, Sequences

CONSTANTS Sectors, Data

VARIABLES
  known,  \* of each sector, what it may hold
  reply   \* the last reply: [call, ok, first, data]

vars == <<known, reply>>

Span(r) == r.first .. r.first + Len(r.data) - 1

\* What reply r says of sector s.
Said(r, s) == r.data[s - r.first + 1]

Init ==
  /\ known \in [Sectors -> {{d} : d \in Data}]
  /\ reply.call = "none"

\* The drive answers a read or a write with OK: from now on its sectors hold what
\* was read or written.
Settled(r) ==
  known' = [s \in Sectors |-> IF s \in Span(r) THEN {Said(r, s)} ELSE known[s]]

Read ==
  /\ reply'.call = "Read" /\ reply'.ok
  /\ \A s \in Span(reply') : Said(reply', s) \in known[s]
  /\ Settled(reply')

Write == reply'.call = "Write" /\ reply'.ok /\ Settled(reply')

WriteFails ==
  /\ reply'.call = "Write" /\ ~reply'.ok
  /\ known' = [s \in Sectors |->
                 IF s \in Span(reply') THEN known[s] \cup {Said(reply', s)} ELSE known[s]]

\* Starting the drive, flushing it, and reads that fail.
Others ==
  /\ reply'.call \in {"Init", "Sync"} \/ (reply'.call = "Read" /\ ~reply'.ok)
  /\ UNCHANGED known

Next == Read \/ Write \/ WriteFails \/ Others

Spec == Init /\ [][Next]_vars

=============================================================================
