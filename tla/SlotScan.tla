------------------------------ MODULE SlotScan ------------------------------
(***************************************************************************)
(* Which descriptor EmuFS takes when it needs a free one: the scan shared  *)
(* by RegisterFileDescriptor and FindAvailableFileDescriptor               *)
(* (src/ios/IOS/EmuFS.cpp).  The code scans with two conditions that move  *)
(* a candidate: Match below.  ScanPicks says where the scan ends.          *)
(*                                                                         *)
(* u[s] is sFileArray[s].inUse and o[s] is sFileArray[s].filOpened.        *)
(***************************************************************************)
EXTENDS Integers

CONSTANT NumSlots  \* NAND_MAX_FILE_DESCRIPTOR_AMOUNT, the size of sFileArray

ASSUME NumSlotsAssumption == NumSlots \in Nat \ {0}

Slots == 0 .. NumSlots - 1

Vacant(u, o, s) == ~u[s] /\ ~o[s]
Cached(u, o, s) == ~u[s] /\ o[s]
InUseNotOpen(u, o, s) == u[s] /\ ~o[s]

\* A vacant slot ends the search: the first one is taken.  Without one the
\* candidate alternates between cached slots and slots in use but not open
\* (those of directories), and the last kind met wins: a cached slot is taken
\* only when no directory follows it, and it is the first since the last one.
ScanPicks(u, o, s) ==
  \/ /\ Vacant(u, o, s)
     /\ \A t \in DOMAIN u : t < s => ~Vacant(u, o, t)
  \/ /\ Cached(u, o, s)
     /\ \A t \in DOMAIN u : ~Vacant(u, o, t)
     /\ \A t \in DOMAIN u : t > s => ~InUseNotOpen(u, o, t)
     /\ \A t \in DOMAIN u : t < s /\ Cached(u, o, t) =>
          \E d \in DOMAIN u : t < d /\ d < s /\ InUseNotOpen(u, o, d)

\* A variant that never moves the candidate to a directory's slot: not what the
\* code does, and LoopMatchesScan (EmuFS) tells the two apart (README.md).
M_TurnFree(u, o, i, match) ==
  LET moved == IF ~u[i] /\ u[match] THEN i ELSE match
  IN  IF ~u[i] /\ ~o[i] /\ o[moved] THEN i ELSE moved

\* One turn of the loop: both conditions look at the candidate, the second at
\* the one the first may have moved.
Turn(u, o, i, match) ==
  LET moved == IF ~u[i] /\ u[match] THEN i ELSE match
  IN  IF ~o[i] /\ o[moved] THEN i ELSE moved

\* The candidate after all turns.
Match(u, o) ==
  LET after[n \in 0 .. NumSlots] == IF n = 0 THEN 0 ELSE Turn(u, o, n - 1, after[n - 1])
  IN  after[NumSlots]

=============================================================================
