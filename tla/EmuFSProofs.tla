---------------------------- MODULE EmuFSProofs ----------------------------
(***************************************************************************)
(* Proofs about EmuFS, for every size of its tables and every choice of    *)
(* paths, files, contents and faults.                                      *)
(*                                                                         *)
(* The inductive invariant has three parts, each proved one action at a    *)
(* time: TypeOK; OwnInv, who owns a slot; and CohInv, which file an open   *)
(* slot refers to.  The invariants that the runs check follow from them,   *)
(* and so do the action properties.  Two more parts, InUseNotOpenIsDir and *)
(* MgrInv, serve the replies at a full table; both rest on the fact that a *)
(* non-empty set of naturals has a least element, for the scans take the   *)
(* first slot of a kind.                                                   *)
(*                                                                         *)
(* An action that leaves the variables of an invariant alone is covered by *)
(* that invariant's frame lemma.                                           *)
(***************************************************************************)
EXTENDS EmuFS, SlotScanProofs, Numbers, FiniteSetTheorems, TLAPS

\* The state ThreadEntry starts in (with the table of direct handles as it was
\* loaded) is in the ranges of TypeOK.
LEMMA TypeInit == Init => TypeOK
BY NumSlotsAssumption, NamesAssumption
DEF Init, TypeOK, NoReply, Contents, ReadMode, ReadWriteMode, Slots, Direct, Directories

\* The part of TypeOK about the FIL objects.
FilTypeOK ==
  /\ filFile \in [Slots -> Files \cup {NoFile}]
  /\ filState \in [Slots -> {"good", "err", "dead"}]
  /\ filPos \in [Slots -> {0, 1}]

\* Opening or closing the FIL of a slot keeps the FIL objects in their ranges.
LEMMA SetFilType ==
  ASSUME FilTypeOK, NEW s \in Slots
  PROVE  /\ \A f \in Files : OpenFil(s, f) => FilTypeOK'
         /\ OpenFil(s, NoFile) => FilTypeOK'
         /\ CloseFil(s) => FilTypeOK'
BY DEF FilTypeOK, OpenFil, CloseFil, SetFil

\* No request and no change of the card takes a variable out of its range.
LEMMA TypeStep == TypeOK /\ [Next]_vars => TypeOK'
<1> SUFFICES ASSUME TypeOK, [Next]_vars PROVE TypeOK'
  OBVIOUS
<1> USE DEF TypeOK, NoReply, MaxOpen, slotVars, directVars, cardVars, filVars
<1>1. ASSUME NEW p \in Paths, OpenLocked(p) PROVE TypeOK'
  BY <1>1 DEF OpenLocked
<1>2. ASSUME NEW p \in Paths, OpenMaxOpen(p) PROVE TypeOK'
  BY <1>2 DEF OpenMaxOpen
<1>3. ASSUME NEW p \in Paths, NEW m \in Modes, NEW s \in Slots, OpenReuse(p, m, s) PROVE TypeOK'
  <2>1. /\ inUse' \in [Slots -> BOOLEAN]
        /\ mode' \in [Slots -> {ReadMode, ReadWriteMode}]
    BY <1>3, NamesAssumption DEF FreeFileDescriptor, OpenReuse
  <2>2. FilTypeOK'
    BY <1>3 DEF FilTypeOK, Rewind, OpenReuse
  <2>3. held' \in [Slots -> Paths \cup {NoPath}] /\ openReply' \in {NoReply, MaxOpen}
    BY <1>3 DEF OpenReuse
  <2> QED BY <1>3, <2>1, <2>2, <2>3 DEF FilTypeOK, OpenReuse
<1>4. ASSUME NEW p \in Paths, NEW m \in Modes, NEW s \in Slots, OpenFresh(p, m, s) PROVE TypeOK'
  <2>1. FilTypeOK'
    BY <1>4, SetFilType DEF FilTypeOK, OpenFresh
  <2>2. mode' \in [Slots -> {ReadMode, ReadWriteMode}]
    BY <1>4, NamesAssumption DEF OpenFresh
  <2>3. inUse' \in [Slots -> BOOLEAN] /\ filOpened' \in [Slots -> BOOLEAN]
    BY <1>4 DEF FreeFileDescriptor, OpenFresh
  <2>4. held' \in [Slots -> Paths \cup {NoPath}] /\ openReply' \in {NoReply, MaxOpen}
    BY <1>4 DEF OpenFresh
  <2> QED BY <1>4, <2>1, <2>2, <2>3, <2>4 DEF FilTypeOK, OpenFresh
<1>5. ASSUME NEW s \in Slots, CloseProxy(s) PROVE TypeOK'
  BY <1>5 DEF CloseProxy
<1>6. ASSUME NEW s \in Slots, CloseProxyFails(s) PROVE TypeOK'
  BY <1>6 DEF CloseProxyFails
<1>7. ASSUME NEW s \in Slots, IOFails(s) PROVE TypeOK'
  BY <1>7 DEF IOFails, Rewind, Contents
<1>8. ASSUME NEW s \in Slots, ReadOrSeek(s) PROVE TypeOK'
  BY <1>8 DEF ReadOrSeek
<1>9. ASSUME NEW s \in Slots, NEW x \in Texts, ReqWrite(s, x) PROVE TypeOK'
  BY <1>9 DEF ReqWrite, Contents
<1>10. ASSUME NEW d \in Direct, DirectHandleOpen(d) PROVE TypeOK'
  BY <1>10 DEF DirectHandleOpen
<1>11. ASSUME NEW d \in Direct, NEW s \in Slots, DirectDirOpen(d, s) PROVE TypeOK'
  <2>1. FilTypeOK'
    BY <1>11, SetFilType DEF FilTypeOK, DirectDirOpen
  <2>2. inUse' \in [Slots -> BOOLEAN]
    BY <1>11 DEF DirectDirOpen
  <2>3. isDir' \in [Slots -> BOOLEAN]
    BY <1>11 DEF DirectDirOpen
  <2>4. dFd' \in [Direct -> Slots \cup {NotFound}]
    BY <1>11 DEF LeaveUnbound, DirectDirOpen
  <2> QED BY <1>11, <2>1, <2>2, <2>3, <2>4 DEF FilTypeOK, DirectDirOpen
<1>12. ASSUME NEW d \in Direct, DirectClose(d) PROVE TypeOK'
  <2>1. FilTypeOK'
    BY <1>12, SetFilType DEF FilTypeOK, DirectClose, LeaveSlot
  <2>2. inUse' \in [Slots -> BOOLEAN]
    BY <1>12 DEF DirectClose, LeaveSlot
  <2>3. filOpened' = filOpened \/ \E s \in Slots : filOpened' = [filOpened EXCEPT ![s] = FALSE]
    BY <1>12 DEF DirectClose, LeaveSlot
  <2>4. leaked' \in SUBSET Slots
    BY <1>12 DEF DirectClose, LeaveSlot
  <2>5. filOpened' \in [Slots -> BOOLEAN]
    BY <2>3
  <2> QED BY <1>12, <2>1, <2>2, <2>4, <2>5 DEF FilTypeOK, DirectClose
<1>13. ASSUME NEW d \in Direct, NEW p \in Paths, NEW m \in Modes, NEW s \in Slots, DirectOpen(d, p, m, s)
       PROVE  TypeOK'
  <2>1. FilTypeOK'
    BY <1>13, SetFilType DEF FilTypeOK, DirectOpen
  <2>2. inUse' \in [Slots -> BOOLEAN]
    BY <1>13 DEF DirectOpen
  <2>3. filOpened' \in [Slots -> BOOLEAN]
    BY <1>13 DEF DirectOpen
  <2>4. isDir' \in [Slots -> BOOLEAN]
    BY <1>13 DEF DirectOpen
  <2>5. mode' \in [Slots -> {ReadMode, ReadWriteMode}]
    BY <1>13, NamesAssumption DEF DirectOpen
  <2>6. dFd' \in [Direct -> Slots \cup {NotFound}]
    BY <1>13 DEF LeaveUnbound, DirectOpen
  <2> QED BY <1>13, <2>1, <2>2, <2>3, <2>4, <2>5, <2>6 DEF FilTypeOK, DirectOpen
<1>14. CASE MgrOpen
  BY <1>14 DEF MgrOpen
<1>15. ASSUME NEW h \in Mgr, MgrClose(h) PROVE TypeOK'
  BY <1>15 DEF MgrClose
<1>16. ASSUME NEW p \in Paths, NEW f \in Files, CreateFile(p, f) PROVE TypeOK'
  <2>1. FilTypeOK' /\ filOpened' \in [Slots -> BOOLEAN] /\ astray' \in SUBSET Slots
    BY <1>16, SetFilType DEF FilTypeOK, CreateFile
  <2> QED BY <1>16, <2>1 DEF FilTypeOK, CreateFile, Contents
<1>17. ASSUME NEW p \in Paths, Delete(p) PROVE TypeOK'
  BY <1>17 DEF Delete, CloseFil, SetFil
<1>18. ASSUME NEW p \in Paths, NEW s \in Slots, RenameToCachedFails(p, s) PROVE TypeOK'
  BY <1>18 DEF RenameToCachedFails, Rewind, Contents
<1>19. ASSUME NEW p \in Paths, NEW q \in Paths, RenameOnCard(p, q) PROVE TypeOK'
  BY <1>19 DEF RenameOnCard
<1>20. ASSUME NEW n \in NandPaths, NEW p \in Paths, NEW f \in Files, RenameToClosed(n, p, f) PROVE TypeOK'
  BY <1>20 DEF RenameToClosed, CopiedData, CopyOutcomes, FinishRename, Contents
<1>21. ASSUME NEW n \in NandPaths, NEW p \in Paths, NEW s \in Slots, RenameToCached(n, p, s) PROVE TypeOK'
  <2>1. FilTypeOK'
    BY <1>21 DEF FilTypeOK, RenameToCached
  <2>2. data' \in [Files -> Contents]
    BY <1>21 DEF CopiedData, CopyOutcomes, Contents, RenameToCached
  <2>3. nand' \in [NandPaths -> Texts \cup {NoFile}] /\ fault' \in {"none", "validDescriptor", "openHandle", "flush"}
    BY <1>21 DEF FinishRename, RenameToCached
  <2> QED BY <1>21, <2>1, <2>2, <2>3 DEF FilTypeOK, RenameToCached
<1>22. ASSUME NEW n \in NandPaths, NandChange(n) PROVE TypeOK'
  BY <1>22 DEF NandChange
<1>23. CASE CardRemoved
  BY <1>23 DEF CardRemoved
<1>24. CASE CardInserted
  BY <1>24 DEF CardInserted, Directories, Contents
<1>25. CASE UNCHANGED vars
  BY <1>25 DEF vars
<1> QED
  BY <1>1, <1>2, <1>3, <1>4, <1>5, <1>6, <1>7, <1>8, <1>9, <1>10, <1>11, <1>12, <1>13,
     <1>14, <1>15, <1>16, <1>17, <1>18, <1>19, <1>20, <1>21, <1>22, <1>23, <1>24, <1>25
  DEF Next, Request, ProxyRequest, FileRequest, DirectRequest, ManagerRequest

-----------------------------------------------------------------------------
\* The scan for a free descriptor never ends at a slot in use.
LEMMA ReusableIsFree ==
  ASSUME NEW s \in Slots, Reusable(s)
  PROVE  ~inUse[s]
BY DEF Reusable, ScanPicks, Vacant, Cached

\* A slot marked as a directory was never freed since: ReqClose leaves it.  It is
\* what makes the assertion of ReqProxyOpen hold.
DirectoriesInUse == \A s \in Slots : isDir[s] => inUse[s] /\ ~filOpened[s]

\* Who owns a slot: the inductive invariant behind HeldSlotsAreServed,
\* SlotOwnership and RegisteredIsValid.
OwnInv ==
  /\ HeldSlotsAreServed
  /\ SlotOwnership
  /\ DirectoriesInUse
  /\ RegisteredIsValid

\* The variables OwnInv is about, but for the assertion.
ownVars == <<inUse, filOpened, ipcFile, isDir, path, directVars, held, leaked>>

\* No slot has an owner at first.
LEMMA OwnInit == Init => OwnInv
BY DEF Init, OwnInv, HeldSlotsAreServed, SlotOwnership, DirectoriesInUse, RegisteredIsValid, Bound

\* A step that leaves the owners' variables alone keeps OwnInv.
LEMMA OwnFrame == OwnInv /\ UNCHANGED ownVars /\ (fault' = fault \/ fault' # "validDescriptor") => OwnInv'
BY DEF OwnInv, HeldSlotsAreServed, SlotOwnership, DirectoriesInUse, RegisteredIsValid, Bound, ownVars, directVars

\* Every request keeps the owners as OwnInv says: opens take free slots, only the
\* owner's close frees one, and the manager's ioctls take none away.
LEMMA OwnStep == TypeOK /\ OwnInv /\ [Next]_vars => OwnInv'
<1> SUFFICES ASSUME TypeOK, OwnInv, [Next]_vars PROVE OwnInv'
  OBVIOUS
<1> USE DEF slotVars, directVars, cardVars, filVars
<1>0. /\ NoPath \notin Paths /\ NotFound \notin Slots
      /\ inUse \in [Slots -> BOOLEAN] /\ filOpened \in [Slots -> BOOLEAN]
      /\ ipcFile \in [Slots -> BOOLEAN] /\ isDir \in [Slots -> BOOLEAN]
      /\ path \in [Slots -> Paths \cup {NoPath}] /\ held \in [Slots -> Paths \cup {NoPath}]
      /\ dInUse \in [Direct -> BOOLEAN] /\ dFd \in [Direct -> Slots \cup {NotFound}]
      /\ leaked \in SUBSET Slots
  BY NamesAssumption DEF TypeOK
<1>1. ASSUME NEW p \in Paths, OpenLocked(p) PROVE OwnInv'
  BY <1>1, OwnFrame DEF OpenLocked, ownVars
<1>2. ASSUME NEW p \in Paths, OpenMaxOpen(p) PROVE OwnInv'
  BY <1>2, OwnFrame DEF OpenMaxOpen, ownVars
<1>3. ASSUME NEW p \in Paths, NEW m \in Modes, NEW s \in Slots, OpenReuse(p, m, s) PROVE OwnInv'
  <2> USE <1>3 DEF OwnInv, Bound, OpenReuse, FreeFileDescriptor
  <2>1. HeldSlotsAreServed'
    BY <1>0 DEF HeldSlotsAreServed, DirectoriesInUse, FirstCached, CachedAt
  <2>2. SlotOwnership'
    BY <1>0 DEF SlotOwnership
  <2>3. DirectoriesInUse'
    BY <1>0 DEF DirectoriesInUse
  <2> QED BY <2>1, <2>2, <2>3 DEF RegisteredIsValid
<1>4. ASSUME NEW p \in Paths, NEW m \in Modes, NEW s \in Slots, OpenFresh(p, m, s) PROVE OwnInv'
  <2> USE <1>4, ReusableIsFree DEF OwnInv, Bound, OpenFresh, FreeFileDescriptor
  <2>1. HeldSlotsAreServed'
    BY <1>0 DEF HeldSlotsAreServed, DirectoriesInUse
  <2>2. SlotOwnership'
    BY <1>0 DEF SlotOwnership
  <2>3. DirectoriesInUse'
    BY <1>0 DEF DirectoriesInUse
  <2>4. RegisteredIsValid'
    BY <1>0 DEF DirectoriesInUse, RegisteredIsValid
  <2> QED BY <2>1, <2>2, <2>3, <2>4
<1>5. ASSUME NEW s \in Slots, CloseProxy(s) PROVE OwnInv'
  <2> USE <1>5 DEF OwnInv, Bound, CloseProxy, IsFileDescriptorValid
  <2>1. HeldSlotsAreServed'
    BY <1>0 DEF HeldSlotsAreServed
  <2>2. SlotOwnership'
    BY <1>0 DEF SlotOwnership
  <2>3. DirectoriesInUse'
    BY <1>0 DEF DirectoriesInUse
  <2> QED BY <2>1, <2>2, <2>3 DEF RegisteredIsValid
<1>6. ASSUME NEW s \in Slots, CloseProxyFails(s) PROVE OwnInv'
  BY <1>6, OwnFrame DEF CloseProxyFails, ownVars
<1>7. ASSUME NEW s \in Slots, IOFails(s) PROVE OwnInv'
  BY <1>7, OwnFrame DEF IOFails, ownVars
<1>8. ASSUME NEW s \in Slots, ReadOrSeek(s) PROVE OwnInv'
  BY <1>8, OwnFrame DEF ReadOrSeek, ownVars
<1>9. ASSUME NEW s \in Slots, NEW x \in Texts, ReqWrite(s, x) PROVE OwnInv'
  BY <1>9, OwnFrame DEF ReqWrite, ownVars
<1>10. ASSUME NEW d \in Direct, DirectHandleOpen(d) PROVE OwnInv'
  <2> USE <1>10 DEF OwnInv, Bound, DirectHandleOpen
  <2>1. HeldSlotsAreServed' /\ DirectoriesInUse' /\ RegisteredIsValid'
    BY DEF HeldSlotsAreServed, DirectoriesInUse, RegisteredIsValid
  <2>2. SlotOwnership'
    BY <1>0 DEF SlotOwnership
  <2> QED BY <2>1, <2>2
<1>11. ASSUME NEW d \in Direct, NEW s \in Slots, DirectDirOpen(d, s) PROVE OwnInv'
  <2> USE <1>11, ReusableIsFree DEF OwnInv, Bound, DirectDirOpen, LeaveUnbound
  <2>1. HeldSlotsAreServed'
    BY <1>0 DEF HeldSlotsAreServed
  <2>2. SlotOwnership'
    BY <1>0 DEF SlotOwnership
  <2>3. DirectoriesInUse'
    BY <1>0 DEF DirectoriesInUse
  <2> QED BY <2>1, <2>2, <2>3 DEF RegisteredIsValid
<1>12. ASSUME NEW d \in Direct, DirectClose(d) PROVE OwnInv'
  <2> USE <1>12 DEF OwnInv, Bound, DirectClose, LeaveSlot, IsFileDescriptorValid
  <2>1. HeldSlotsAreServed'
    BY <1>0 DEF HeldSlotsAreServed, SlotOwnership
  <2>2. SlotOwnership'
    BY <1>0 DEF SlotOwnership
  <2>3. DirectoriesInUse'
    BY <1>0 DEF DirectoriesInUse
  <2> QED BY <2>1, <2>2, <2>3 DEF RegisteredIsValid
<1>13. ASSUME NEW d \in Direct, NEW p \in Paths, NEW m \in Modes, NEW s \in Slots, DirectOpen(d, p, m, s)
       PROVE  OwnInv'
  <2>0. /\ ~inUse[s] /\ dInUse[d] /\ dFd[d] = NotFound
        /\ UNCHANGED <<dInUse, held, leaked>>
        /\ \/ inUse' = [inUse EXCEPT ![s] = TRUE] /\ dFd' = [dFd EXCEPT ![d] = s]
           \/ UNCHANGED <<inUse, dFd>>
    BY <1>13, ReusableIsFree DEF DirectOpen, LeaveUnbound
  <2>1. HeldSlotsAreServed'
    BY <1>0, <1>13, <2>0 DEF OwnInv, HeldSlotsAreServed, DirectOpen
  <2>2. SlotOwnership'
    BY <1>0, <2>0 DEF OwnInv, SlotOwnership, Bound
  <2>3. DirectoriesInUse'
    BY <1>0, <1>13, <2>0 DEF OwnInv, DirectoriesInUse, DirectOpen
  <2> QED BY <1>13, <2>1, <2>2, <2>3 DEF OwnInv, RegisteredIsValid, DirectOpen
<1>14. CASE MgrOpen
  BY <1>14, OwnFrame DEF MgrOpen, ownVars
<1>15. ASSUME NEW h \in Mgr, MgrClose(h) PROVE OwnInv'
  BY <1>15, OwnFrame DEF MgrClose, ownVars
<1>16. ASSUME NEW p \in Paths, NEW f \in Files, CreateFile(p, f) PROVE OwnInv'
  <2> USE <1>16, ReusableIsFree DEF OwnInv, Bound, CreateFile
  <2>1. HeldSlotsAreServed'
    BY <1>0 DEF HeldSlotsAreServed
  <2>2. SlotOwnership'
    BY <1>0 DEF SlotOwnership
  <2>3. DirectoriesInUse'
    BY <1>0 DEF DirectoriesInUse
  <2> QED BY <2>1, <2>2, <2>3 DEF RegisteredIsValid
<1>17. ASSUME NEW p \in Paths, Delete(p) PROVE OwnInv'
  <2> USE <1>17 DEF OwnInv, Bound, Delete, TryCloses
  <2>1. HeldSlotsAreServed'
    BY <1>0 DEF HeldSlotsAreServed
  <2>2. SlotOwnership'
    BY <1>0 DEF SlotOwnership
  <2>3. DirectoriesInUse'
    BY <1>0 DEF DirectoriesInUse
  <2> QED BY <2>1, <2>2, <2>3 DEF RegisteredIsValid
<1>18. ASSUME NEW p \in Paths, NEW s \in Slots, RenameToCachedFails(p, s) PROVE OwnInv'
  BY <1>18, OwnFrame DEF RenameToCachedFails, ownVars
<1>19. ASSUME NEW p \in Paths, NEW q \in Paths, RenameOnCard(p, q) PROVE OwnInv'
  BY <1>19, OwnFrame DEF RenameOnCard, ownVars
<1>20. ASSUME NEW n \in NandPaths, NEW p \in Paths, NEW f \in Files, RenameToClosed(n, p, f) PROVE OwnInv'
  BY <1>20, OwnFrame DEF RenameToClosed, FinishRename, ownVars
<1>21. ASSUME NEW n \in NandPaths, NEW p \in Paths, NEW s \in Slots, RenameToCached(n, p, s) PROVE OwnInv'
  BY <1>21, OwnFrame DEF RenameToCached, FinishRename, ownVars
<1>22. ASSUME NEW n \in NandPaths, NandChange(n) PROVE OwnInv'
  BY <1>22, OwnFrame DEF NandChange, ownVars
<1>23. CASE CardRemoved
  BY <1>23, OwnFrame DEF CardRemoved, ownVars
<1>24. CASE CardInserted
  BY <1>24, OwnFrame DEF CardInserted, ownVars
<1>25. CASE UNCHANGED vars
  BY <1>25, OwnFrame DEF vars, ownVars
<1> QED
  BY <1>1, <1>2, <1>3, <1>4, <1>5, <1>6, <1>7, <1>8, <1>9, <1>10, <1>11, <1>12, <1>13,
     <1>14, <1>15, <1>16, <1>17, <1>18, <1>19, <1>20, <1>21, <1>22, <1>23, <1>24, <1>25
  DEF Next, Request, ProxyRequest, FileRequest, DirectRequest, ManagerRequest

-----------------------------------------------------------------------------
\* RegisterFileDescriptor sets both, and nothing resets ipcFile.
NamedSlotsAreIpc == \A s \in Slots : path[s] # NoPath => ipcFile[s]

\* Only a mounted card has valid objects.
GoodMeansMounted == \A s \in Slots : filState[s] = "good" => mounted

\* Which file an open slot refers to: the inductive invariant behind CacheCoherent,
\* OneSlotPerPath and both action properties.
CohInv ==
  /\ NamedSlotsAreIpc
  /\ GoodMeansMounted
  /\ CacheCoherent
  /\ OneSlotPerPath

\* The variables CohInv is about, but for the state of the FIL objects.
nameVars == <<filOpened, ipcFile, path, filFile, names, astray>>

\* No slot is open at first.
LEMMA CohInit == Init => CohInv
BY DEF Init, CohInv, NamedSlotsAreIpc, GoodMeansMounted, CacheCoherent, OneSlotPerPath

\* A step that leaves names, paths and FIL files alone keeps CohInv.
LEMMA CohFrame ==
  CohInv /\ UNCHANGED nameVars /\ GoodMeansMounted' => CohInv'
BY DEF CohInv, NamedSlotsAreIpc, CacheCoherent, OneSlotPerPath, nameVars

\* Every request keeps open slots and the card's names together, or puts the slot
\* into astray: Delete and the rename from the NAND look the path up first.
LEMMA CohStep == TypeOK /\ CohInv /\ [Next]_vars => CohInv'
<1> SUFFICES ASSUME TypeOK, CohInv, [Next]_vars PROVE CohInv'
  OBVIOUS
<1> USE DEF slotVars, directVars, cardVars, filVars
<1>0. /\ NoPath \notin Paths /\ NoFile \notin Files
      /\ filOpened \in [Slots -> BOOLEAN] /\ ipcFile \in [Slots -> BOOLEAN]
      /\ path \in [Slots -> Paths \cup {NoPath}]
      /\ filFile \in [Slots -> Files \cup {NoFile}]
      /\ filState \in [Slots -> {"good", "err", "dead"}]
      /\ mounted \in BOOLEAN
      /\ names \in [Paths -> Files \cup {NoFile}]
      /\ astray \in SUBSET Slots
  BY NamesAssumption DEF TypeOK
<1>1. ASSUME NEW p \in Paths, OpenLocked(p) PROVE CohInv'
  <2>1. GoodMeansMounted'
    BY <1>0, <1>1 DEF CohInv, GoodMeansMounted, OpenLocked
  <2> QED BY <1>1, <2>1, CohFrame DEF OpenLocked, nameVars
<1>2. ASSUME NEW p \in Paths, OpenMaxOpen(p) PROVE CohInv'
  <2>1. GoodMeansMounted'
    BY <1>0, <1>2 DEF CohInv, GoodMeansMounted, OpenMaxOpen
  <2> QED BY <1>2, <2>1, CohFrame DEF OpenMaxOpen, nameVars
<1>3. ASSUME NEW p \in Paths, NEW m \in Modes, NEW s \in Slots, OpenReuse(p, m, s) PROVE CohInv'
  <2>1. GoodMeansMounted'
    BY <1>0, <1>3 DEF CohInv, GoodMeansMounted, OpenReuse, SeekWorks
  <2> QED BY <1>3, <2>1, CohFrame DEF OpenReuse, nameVars
<1>4. ASSUME NEW p \in Paths, NEW m \in Modes, NEW s \in Slots, OpenFresh(p, m, s) PROVE CohInv'
  <2> USE <1>4 DEF CohInv, OpenFresh, OpenFil, CloseFil, SetFil
  <2>1. NamedSlotsAreIpc'
    BY <1>0 DEF NamedSlotsAreIpc
  <2>2. GoodMeansMounted'
    BY <1>0 DEF GoodMeansMounted
  <2>3. CacheCoherent'
    BY <1>0 DEF CacheCoherent, NotCached, CachedAt
  <2>4. OneSlotPerPath'
    BY <1>0 DEF OneSlotPerPath, NotCached, CachedAt, CacheCoherent, NamedSlotsAreIpc
  <2> QED BY <2>1, <2>2, <2>3, <2>4
<1>5. ASSUME NEW s \in Slots, CloseProxy(s) PROVE CohInv'
  <2>1. GoodMeansMounted'
    BY <1>0, <1>5 DEF CohInv, GoodMeansMounted, CloseProxy
  <2> QED BY <1>5, <2>1, CohFrame DEF CloseProxy, nameVars
<1>6. ASSUME NEW s \in Slots, CloseProxyFails(s) PROVE CohInv'
  <2>1. GoodMeansMounted'
    BY <1>0, <1>6 DEF CohInv, GoodMeansMounted, CloseProxyFails
  <2> QED BY <1>6, <2>1, CohFrame DEF CloseProxyFails, nameVars
<1>7. ASSUME NEW s \in Slots, IOFails(s) PROVE CohInv'
  <2>1. GoodMeansMounted'
    BY <1>0, <1>7 DEF CohInv, GoodMeansMounted, IOFails
  <2> QED BY <1>7, <2>1, CohFrame DEF IOFails, nameVars
<1>8. ASSUME NEW s \in Slots, ReadOrSeek(s) PROVE CohInv'
  <2>1. GoodMeansMounted'
    BY <1>0, <1>8 DEF CohInv, GoodMeansMounted, ReadOrSeek
  <2> QED BY <1>8, <2>1, CohFrame DEF ReadOrSeek, nameVars
<1>9. ASSUME NEW s \in Slots, NEW x \in Texts, ReqWrite(s, x) PROVE CohInv'
  <2>1. GoodMeansMounted'
    BY <1>0, <1>9 DEF CohInv, GoodMeansMounted, ReqWrite
  <2> QED BY <1>9, <2>1, CohFrame DEF ReqWrite, nameVars
<1>10. ASSUME NEW d \in Direct, DirectHandleOpen(d) PROVE CohInv'
  <2>1. GoodMeansMounted'
    BY <1>0, <1>10 DEF CohInv, GoodMeansMounted, DirectHandleOpen
  <2> QED BY <1>10, <2>1, CohFrame DEF DirectHandleOpen, nameVars
<1>11. ASSUME NEW d \in Direct, NEW s \in Slots, DirectDirOpen(d, s) PROVE CohInv'
  <2> USE <1>11 DEF CohInv, DirectDirOpen, OpenFil, CloseFil, SetFil
  <2>1. NamedSlotsAreIpc'
    BY <1>0 DEF NamedSlotsAreIpc
  <2>2. GoodMeansMounted'
    BY <1>0 DEF GoodMeansMounted
  <2>3. CacheCoherent'
    BY <1>0 DEF CacheCoherent
  <2>4. OneSlotPerPath'
    BY <1>0 DEF OneSlotPerPath, CacheCoherent, NamedSlotsAreIpc
  <2> QED BY <2>1, <2>2, <2>3, <2>4
<1>12. ASSUME NEW d \in Direct, DirectClose(d) PROVE CohInv'
  <2> USE <1>12 DEF CohInv, DirectClose, LeaveSlot, CloseFil, SetFil
  <2>1. NamedSlotsAreIpc'
    BY <1>0 DEF NamedSlotsAreIpc
  <2>2. GoodMeansMounted'
    BY <1>0 DEF GoodMeansMounted
  <2>3. CacheCoherent'
    BY <1>0 DEF CacheCoherent
  <2>4. OneSlotPerPath'
    BY <1>0 DEF OneSlotPerPath, CacheCoherent, NamedSlotsAreIpc
  <2> QED BY <2>1, <2>2, <2>3, <2>4
<1>13. ASSUME NEW d \in Direct, NEW p \in Paths, NEW m \in Modes, NEW s \in Slots, DirectOpen(d, p, m, s)
       PROVE  CohInv'
  <2> USE <1>13 DEF CohInv, DirectOpen, OpenFil, CloseFil, SetFil
  <2>1. NamedSlotsAreIpc'
    BY <1>0 DEF NamedSlotsAreIpc
  <2>2. GoodMeansMounted'
    BY <1>0 DEF GoodMeansMounted
  <2>3. CacheCoherent'
    BY <1>0 DEF CacheCoherent
  <2>4. OneSlotPerPath'
    BY <1>0 DEF OneSlotPerPath, CacheCoherent, NamedSlotsAreIpc
  <2> QED BY <2>1, <2>2, <2>3, <2>4
<1>14. CASE MgrOpen
  <2>1. GoodMeansMounted'
    BY <1>0, <1>14 DEF CohInv, GoodMeansMounted, MgrOpen
  <2> QED BY <1>14, <2>1, CohFrame DEF MgrOpen, nameVars
<1>15. ASSUME NEW h \in Mgr, MgrClose(h) PROVE CohInv'
  <2>1. GoodMeansMounted'
    BY <1>0, <1>15 DEF CohInv, GoodMeansMounted, MgrClose
  <2> QED BY <1>15, <2>1, CohFrame DEF MgrClose, nameVars
<1>16. ASSUME NEW p \in Paths, NEW f \in Files, CreateFile(p, f) PROVE CohInv'
  <2> USE <1>16 DEF CohInv, CreateFile, OpenFil, SetFil
  <2>1. NamedSlotsAreIpc'
    BY <1>0 DEF NamedSlotsAreIpc
  <2>2. GoodMeansMounted'
    BY <1>0 DEF GoodMeansMounted
  <2>3. CacheCoherent'
    BY <1>0 DEF CacheCoherent
  <2>4. OneSlotPerPath'
    BY <1>0 DEF OneSlotPerPath, CacheCoherent, NamedSlotsAreIpc
  <2> QED BY <2>1, <2>2, <2>3, <2>4
<1>17. ASSUME NEW p \in Paths, Delete(p) PROVE CohInv'
  <2> USE <1>17 DEF CohInv, Delete, CloseFil, SetFil
  <2>1. NamedSlotsAreIpc'
    BY <1>0 DEF NamedSlotsAreIpc
  <2>2. GoodMeansMounted'
    BY <1>0 DEF GoodMeansMounted
  <2>3. CacheCoherent'
    BY <1>0 DEF CacheCoherent, OneSlotPerPath, NotOpen, FirstOpen, OpenAt
  <2>4. OneSlotPerPath'
    <3>1. \A t \in Slots : filOpened'[t] /\ t \notin astray' => filOpened[t] /\ t \notin astray
      BY <1>0
    <3>2. path' = path
      OBVIOUS
    <3> QED BY <1>0, <3>1, <3>2 DEF OneSlotPerPath
  <2> QED BY <2>1, <2>2, <2>3, <2>4
<1>18. ASSUME NEW p \in Paths, NEW s \in Slots, RenameToCachedFails(p, s) PROVE CohInv'
  <2>1. GoodMeansMounted'
    BY <1>0, <1>18 DEF CohInv, GoodMeansMounted, RenameToCachedFails
  <2> QED BY <1>18, <2>1, CohFrame DEF RenameToCachedFails, nameVars
<1>19. ASSUME NEW p \in Paths, NEW q \in Paths, RenameOnCard(p, q) PROVE CohInv'
  <2> USE <1>19 DEF CohInv, RenameOnCard
  <2>1. NamedSlotsAreIpc'
    BY <1>0 DEF NamedSlotsAreIpc
  <2>2. GoodMeansMounted'
    BY <1>0 DEF GoodMeansMounted
  <2>3. CacheCoherent'
    BY <1>0 DEF CacheCoherent, OpenAt
  <2>4. OneSlotPerPath'
    BY <1>0 DEF OneSlotPerPath, OpenAt, CacheCoherent, NamedSlotsAreIpc
  <2> QED BY <2>1, <2>2, <2>3, <2>4
<1>20. ASSUME NEW n \in NandPaths, NEW p \in Paths, NEW f \in Files, RenameToClosed(n, p, f)
       PROVE  CohInv'
  <2> USE <1>20 DEF CohInv, RenameToClosed
  <2>1. NamedSlotsAreIpc'
    BY <1>0 DEF NamedSlotsAreIpc
  <2>2. GoodMeansMounted'
    BY <1>0 DEF GoodMeansMounted
  <2>3. CacheCoherent'
    BY <1>0 DEF CacheCoherent, NotOpen, OpenAt
  <2>4. OneSlotPerPath'
    BY <1>0 DEF OneSlotPerPath, NotOpen, OpenAt, CacheCoherent, NamedSlotsAreIpc
  <2> QED BY <2>1, <2>2, <2>3, <2>4
<1>21. ASSUME NEW n \in NandPaths, NEW p \in Paths, NEW s \in Slots, RenameToCached(n, p, s)
       PROVE  CohInv'
  <2>1. GoodMeansMounted'
    BY <1>0, <1>21 DEF CohInv, GoodMeansMounted, RenameToCached
  <2> QED BY <1>21, <2>1, CohFrame DEF RenameToCached, nameVars
<1>22. ASSUME NEW n \in NandPaths, NandChange(n) PROVE CohInv'
  <2>1. GoodMeansMounted'
    BY <1>0, <1>22 DEF CohInv, GoodMeansMounted, NandChange
  <2> QED BY <1>22, <2>1, CohFrame DEF NandChange, nameVars
<1>23. CASE CardRemoved
  <2>1. GoodMeansMounted'
    BY <1>0, <1>23 DEF CohInv, GoodMeansMounted, CardRemoved
  <2> QED BY <1>23, <2>1, CohFrame DEF CardRemoved, nameVars
<1>24. CASE CardInserted
  <2> USE <1>24 DEF CohInv, CardInserted
  <2>1. GoodMeansMounted'
    BY <1>0 DEF GoodMeansMounted
  <2>2. CASE UNCHANGED <<names, data, astray>>
    BY <2>1, <2>2, CohFrame DEF nameVars
  <2>3. CASE astray' = astray \cup {s \in Slots : filOpened[s] /\ path[s] # NoPath}
    <3>1. NamedSlotsAreIpc'
      BY DEF NamedSlotsAreIpc
    <3>2. CacheCoherent' /\ OneSlotPerPath'
      BY <2>3 DEF CacheCoherent, OneSlotPerPath
    <3> QED BY <2>1, <3>1, <3>2
  <2> QED BY <2>2, <2>3
<1>25. CASE UNCHANGED vars
  <2>1. GoodMeansMounted'
    BY <1>0, <1>25 DEF CohInv, GoodMeansMounted, vars
  <2> QED BY <1>25, <2>1, CohFrame DEF vars, nameVars
<1> QED
  BY <1>1, <1>2, <1>3, <1>4, <1>5, <1>6, <1>7, <1>8, <1>9, <1>10, <1>11, <1>12, <1>13,
     <1>14, <1>15, <1>16, <1>17, <1>18, <1>19, <1>20, <1>21, <1>22, <1>23, <1>24, <1>25
  DEF Next, Request, ProxyRequest, FileRequest, DirectRequest, ManagerRequest

-----------------------------------------------------------------------------
\* Every variable of the filesystem stays in its range.
THEOREM TypeCorrect == Spec => []TypeOK
BY TypeInit, TypeStep, PTL DEF Spec

\* The three parts of the inductive invariant hold in every reachable state.
LEMMA Invariants == Spec => [](TypeOK /\ OwnInv /\ CohInv)
<1>1. Init => TypeOK /\ OwnInv /\ CohInv
  BY TypeInit, OwnInit, CohInit
<1>2. TypeOK /\ OwnInv /\ CohInv /\ [Next]_vars => (TypeOK /\ OwnInv /\ CohInv)'
  BY TypeStep, OwnStep, CohStep
<1> QED BY <1>1, <1>2, PTL DEF Spec

\* The slot a proxy client holds stays in use, open and registered for its path.
THEOREM HandlesAreServed == Spec => []HeldSlotsAreServed
BY Invariants, PTL DEF OwnInv

\* A slot in use has exactly one owner, or ReqClose left it behind.
THEOREM SlotsAreOwned == Spec => []SlotOwnership
BY Invariants, PTL DEF OwnInv

\* The assertion of ReqProxyOpen on the descriptor it registered never fails.
THEOREM RegisteredDescriptorIsValid == Spec => []RegisteredIsValid
BY Invariants, PTL DEF OwnInv

\* An open slot refers to the file its path leads to, unless ISFS_CreateFile or
\* ISFS_Rename cut it from its path or another card replaced the one it was opened on.
THEOREM OpenSlotsAreCoherent == Spec => []CacheCoherent
BY Invariants, PTL DEF CohInv

\* Two slots are never open for one path, with the same exceptions.
THEOREM PathsHaveOneSlot == Spec => []OneSlotPerPath
BY Invariants, PTL DEF CohInv

-----------------------------------------------------------------------------
\* The step OpenRewinds demands.
RewindsStep ==
  \A s \in Slots : held[s] = NoPath /\ held'[s] # NoPath =>
    filPos'[s] = 0 /\ filState'[s] = "good" /\ mounted'

\* Only a successful open gives a proxy client a handle.
LEMMA HeldOnlyByOpen ==
  ASSUME TypeOK, [Next]_vars, NEW t \in Slots, held[t] = NoPath, held'[t] # NoPath
  PROVE  \E p \in Paths, m \in Modes, s \in Slots : OpenReuse(p, m, s) \/ OpenFresh(p, m, s)
BY DEF TypeOK, Next, Request, ProxyRequest, FileRequest, DirectRequest, ManagerRequest, vars,
       OpenLocked, OpenMaxOpen, CloseProxy, CloseProxyFails, IOFails, ReadOrSeek, ReqWrite,
       DirectHandleOpen, DirectDirOpen, DirectClose, DirectOpen, MgrOpen, MgrClose, CreateFile,
       Delete, RenameToCachedFails, RenameOnCard, RenameToClosed, RenameToCached, NandChange,
       CardRemoved, CardInserted

\* Both kinds of open give a handle at the start of a working FIL.
LEMMA RewindsOnOpen == TypeOK /\ GoodMeansMounted /\ [Next]_vars => RewindsStep
<1> SUFFICES ASSUME TypeOK, GoodMeansMounted, [Next]_vars,
                    NEW t \in Slots, held[t] = NoPath, held'[t] # NoPath
             PROVE  filPos'[t] = 0 /\ filState'[t] = "good" /\ mounted'
  BY DEF RewindsStep
<1>1. PICK p \in Paths, m \in Modes, s \in Slots : OpenReuse(p, m, s) \/ OpenFresh(p, m, s)
  BY HeldOnlyByOpen
<1>2. CASE OpenReuse(p, m, s)
  BY <1>2 DEF OpenReuse, SeekWorks, Rewind, GoodMeansMounted, TypeOK, cardVars
<1>3. CASE OpenFresh(p, m, s)
  BY <1>3 DEF OpenFresh, OpenFil, SetFil, TypeOK, cardVars
<1> QED BY <1>1, <1>2, <1>3

\* A handle a proxy client is given works, from the start of the file.
THEOREM OpensRewind == Spec => OpenRewinds
<1>1. TypeOK /\ GoodMeansMounted /\ [Next]_vars => [RewindsStep]_vars
  BY RewindsOnOpen
<1>2. [][RewindsStep]_vars => OpenRewinds
  BY PTL DEF OpenRewinds, RewindsStep
<1> QED BY <1>1, <1>2, Invariants, PTL DEF Spec, CohInv

-----------------------------------------------------------------------------
\* The step SourceOutlivesCopy demands of a rename from n to p.
SourceStep(n, p) ==
  RenameFromNand(n, p) /\ nand'[n] # nand[n] =>
    \/ names'[p] # NoFile /\ data'[names'[p]] = nand[n]
    \/ \E s \in astray : OpenAt(s, p) /\ filState[s] # "dead"

\* Either way of opening the destination, the source goes only when the file the
\* destination's name leads to holds all of it.
LEMMA SourceOutlives ==
  ASSUME TypeOK, CacheCoherent, NEW n \in NandPaths, NEW p \in Paths
  PROVE  SourceStep(n, p)
<1> SUFFICES ASSUME RenameFromNand(n, p), nand'[n] # nand[n],
                    ~ \E s \in astray : OpenAt(s, p) /\ filState[s] # "dead"
             PROVE  names'[p] # NoFile /\ data'[names'[p]] = nand[n]
  BY DEF SourceStep
<1>0. NoPath \notin Paths /\ NoFile \notin Files
  BY NamesAssumption
<1>1. ASSUME NEW f \in Files, RenameToClosed(n, p, f)
      PROVE  names'[p] # NoFile /\ data'[names'[p]] = nand[n]
  <2>1. PICK outcome \in CopyOutcomes(n) :
          /\ \E x \in CopiedData(n, outcome) : data' = [data EXCEPT ![f] = x]
          /\ \E flushed \in FlushOutcomes(outcome) : FinishRename(n, outcome, flushed)
    BY <1>1 DEF RenameToClosed
  <2>2. outcome = "complete"
    BY <2>1 DEF FinishRename
  <2>3. data' = [data EXCEPT ![f] = nand[n]]
    BY <2>1, <2>2 DEF CopiedData
  <2>4. names' = [names EXCEPT ![p] = f]
    BY <1>1 DEF RenameToClosed
  <2> QED BY <1>0, <2>3, <2>4 DEF TypeOK
<1>2. ASSUME NEW s \in Slots, RenameToCached(n, p, s)
      PROVE  names'[p] # NoFile /\ data'[names'[p]] = nand[n]
  <2>1. PICK outcome \in CopyOutcomes(n) :
          /\ \E x \in CopiedData(n, outcome) : data' = [data EXCEPT ![filFile[s]] = x]
          /\ \E flushed \in FlushOutcomes(outcome) : FinishRename(n, outcome, flushed)
    BY <1>2 DEF RenameToCached
  <2>2. outcome = "complete"
    BY <2>1 DEF FinishRename
  <2>3. data' = [data EXCEPT ![filFile[s]] = nand[n]]
    BY <2>1, <2>2 DEF CopiedData
  <2>4. filFile[s] # NoFile /\ names[p] = filFile[s]
    BY <1>0, <1>2 DEF RenameToCached, FirstOpen, OpenAt, CacheCoherent
  <2>5. names' = names
    BY <1>2 DEF RenameToCached
  <2> QED BY <2>3, <2>4, <2>5 DEF TypeOK
<1> QED BY <1>1, <1>2 DEF RenameFromNand

\* A rename from the NAND never loses its source to a partial copy.
THEOREM SourceIsKept == Spec => SourceOutlivesCopy
<1>1. TypeOK /\ CacheCoherent /\ [Next]_vars => [\A n \in NandPaths, p \in Paths : SourceStep(n, p)]_vars
  BY SourceOutlives
<1>2. [][\A n \in NandPaths, p \in Paths : SourceStep(n, p)]_vars => SourceOutlivesCopy
  BY PTL DEF SourceOutlivesCopy, SourceStep
<1> QED BY <1>1, <1>2, Invariants, PTL DEF Spec, CohInv

-----------------------------------------------------------------------------
\* When the scan finds no descriptor and no slot is a directory's, all are in use.
LEMMA NoneReusableMeansFull ==
  ASSUME TypeOK, NoneReusable,
         \A s \in Slots : inUse[s] /\ ~filOpened[s] => isDir[s],
         \A s \in Slots : ~isDir[s]
  PROVE  \A s \in Slots : inUse[s]
<1> SUFFICES ASSUME NEW s \in Slots, ~inUse[s] PROVE FALSE
  OBVIOUS
<1>0. /\ Slots \subseteq Nat
      /\ DOMAIN inUse = Slots
      /\ inUse \in [Slots -> BOOLEAN] /\ filOpened \in [Slots -> BOOLEAN]
  BY NumSlotsAssumption DEF Slots, TypeOK
<1>1. ASSUME NEW v \in Slots, Vacant(inUse, filOpened, v) PROVE FALSE
  <2>1. PICK x \in {t \in Slots : Vacant(inUse, filOpened, t)} :
          \A y \in {t \in Slots : Vacant(inUse, filOpened, t)} : ~(y < x)
    BY <1>0, <1>1, LeastElement
  <2>2. Reusable(x)
    BY <1>0, <2>1 DEF Reusable, ScanPicks
  <2> QED BY <2>1, <2>2 DEF NoneReusable
<1>2. \A t \in Slots : ~InUseNotOpen(inUse, filOpened, t)
  BY DEF InUseNotOpen
<1>3. Cached(inUse, filOpened, s)
  BY <1>0, <1>1 DEF Vacant, Cached
<1>4. PICK x \in {t \in Slots : Cached(inUse, filOpened, t)} :
        \A y \in {t \in Slots : Cached(inUse, filOpened, t)} : ~(y < x)
  BY <1>0, <1>3, LeastElement
<1>5. Reusable(x)
  BY <1>0, <1>1, <1>2, <1>4 DEF Reusable, ScanPicks
<1> QED BY <1>4, <1>5 DEF NoneReusable

\* When OpenReplaced finds no resource, all of them have an open /dev/fs.
LEMMA NoMgrHandleMeansFull ==
  ASSUME TypeOK, \A h \in Mgr : ~FreeMgrHandle(h)
  PROVE  realFS = Mgr
<1> SUFFICES ASSUME NEW h \in Mgr \ realFS PROVE FALSE
  BY DEF TypeOK
<1>1. Mgr \subseteq Nat
  BY SizesAssumption DEF Mgr
<1>2. PICK x \in Mgr \ realFS : \A y \in Mgr \ realFS : ~(y < x)
  BY <1>1, LeastElement
<1>3. FreeMgrHandle(x)
  BY <1>1, <1>2 DEF FreeMgrHandle
<1> QED BY <1>2, <1>3

-----------------------------------------------------------------------------
\* A slot in use whose file is not open is a directory's.
InUseNotOpenIsDir == \A s \in Slots : inUse[s] /\ ~filOpened[s] => isDir[s]

\* No slot is in use at first.
LEMMA InUseNotOpenInit == Init => InUseNotOpenIsDir
BY DEF Init, InUseNotOpenIsDir

\* Files are open as long as their slot is in use: Delete closes free slots only.
LEMMA InUseNotOpenStep == TypeOK /\ OwnInv /\ InUseNotOpenIsDir /\ [Next]_vars => InUseNotOpenIsDir'
<1> SUFFICES ASSUME TypeOK, OwnInv, InUseNotOpenIsDir, [Next]_vars PROVE InUseNotOpenIsDir'
  OBVIOUS
<1>0. /\ inUse \in [Slots -> BOOLEAN] /\ filOpened \in [Slots -> BOOLEAN] /\ isDir \in [Slots -> BOOLEAN]
      /\ HeldSlotsAreServed /\ NoPath \notin Paths
  BY NamesAssumption DEF TypeOK, OwnInv
<1> USE <1>0 DEF InUseNotOpenIsDir, slotVars, directVars
<1>1. CASE UNCHANGED <<inUse, filOpened, isDir>>
  BY <1>1
<1>2. ASSUME NEW p \in Paths, NEW m \in Modes, NEW s \in Slots, OpenReuse(p, m, s) \/ OpenFresh(p, m, s)
      PROVE  InUseNotOpenIsDir'
  <2>1. CASE OpenReuse(p, m, s)
    BY <2>1 DEF OpenReuse, FreeFileDescriptor, FirstCached, CachedAt
  <2>2. CASE OpenFresh(p, m, s)
    BY <2>2 DEF OpenFresh, FreeFileDescriptor
  <2> QED BY <1>2, <2>1, <2>2
<1>3. ASSUME NEW s \in Slots, CloseProxy(s) PROVE InUseNotOpenIsDir'
  BY <1>3 DEF CloseProxy
<1>4. ASSUME NEW d \in Direct, NEW s \in Slots, DirectDirOpen(d, s) PROVE InUseNotOpenIsDir'
  BY <1>4, ReusableIsFree DEF DirectDirOpen
<1>5. ASSUME NEW d \in Direct, DirectClose(d) PROVE InUseNotOpenIsDir'
  BY <1>5 DEF DirectClose, LeaveSlot
<1>6. ASSUME NEW d \in Direct, NEW p \in Paths, NEW m \in Modes, NEW s \in Slots, DirectOpen(d, p, m, s)
      PROVE  InUseNotOpenIsDir'
  BY <1>6, ReusableIsFree DEF DirectOpen
<1>7. ASSUME NEW p \in Paths, NEW f \in Files, CreateFile(p, f) PROVE InUseNotOpenIsDir'
  BY <1>7 DEF CreateFile
<1>8. ASSUME NEW p \in Paths, Delete(p) PROVE InUseNotOpenIsDir'
  BY <1>8 DEF Delete, TryCloses
<1> QED
  BY <1>1, <1>2, <1>3, <1>4, <1>5, <1>6, <1>7, <1>8
  DEF Next, Request, ProxyRequest, FileRequest, DirectRequest, ManagerRequest, vars, OpenLocked,
      OpenMaxOpen, CloseProxyFails, IOFails, ReadOrSeek, ReqWrite, DirectHandleOpen, MgrOpen,
      MgrClose, RenameToCachedFails, RenameOnCard, RenameToClosed, RenameToCached, NandChange,
      CardRemoved, CardInserted

\* Only an open that found no descriptor replies MaxOpen.
LEMMA MaxOpenStep ==
  TypeOK /\ InUseNotOpenIsDir /\ MaxOpenMeansFull /\ [Next]_vars => MaxOpenMeansFull'
<1> SUFFICES ASSUME TypeOK, InUseNotOpenIsDir, MaxOpenMeansFull, [Next]_vars, openReply' = MaxOpen
             PROVE  (\A s \in Slots : inUse'[s]) \/ (\E s \in Slots : isDir'[s])
  BY DEF MaxOpenMeansFull
<1>1. ASSUME NEW p \in Paths, OpenMaxOpen(p)
      PROVE  (\A s \in Slots : inUse'[s]) \/ (\E s \in Slots : isDir'[s])
  <2>1. (\A s \in Slots : inUse[s]) \/ (\E s \in Slots : isDir[s])
    BY <1>1, NoneReusableMeansFull DEF OpenMaxOpen, InUseNotOpenIsDir
  <2> QED BY <1>1, <2>1 DEF OpenMaxOpen, slotVars
<1>2. CASE UNCHANGED vars
  BY <1>2 DEF MaxOpenMeansFull, vars, slotVars
<1> QED
  BY <1>1, <1>2
  DEF Next, Request, ProxyRequest, FileRequest, DirectRequest, ManagerRequest, NoReply, MaxOpen,
      OpenLocked, OpenReuse, OpenFresh, CloseProxy, CloseProxyFails, IOFails, ReadOrSeek, ReqWrite,
      DirectHandleOpen, DirectDirOpen, DirectClose, DirectOpen, MgrOpen, MgrClose, CreateFile,
      Delete, RenameToCachedFails, RenameOnCard, RenameToClosed, RenameToCached, NandChange,
      CardRemoved, CardInserted

\* MaxOpen is replied only when all slots are in use or a directory hides the rest.
THEOREM MaxOpenIsRight == Spec => []MaxOpenMeansFull
<1>1. Init => InUseNotOpenIsDir /\ MaxOpenMeansFull
  BY InUseNotOpenInit DEF Init, NoReply, MaxOpen, MaxOpenMeansFull
<1> QED BY <1>1, Invariants, InUseNotOpenStep, MaxOpenStep, PTL DEF Spec

-----------------------------------------------------------------------------
\* The real FS grants at most RealLimit handles, and the resources are that many.
MgrInv ==
  /\ Cardinality(realFS) <= RealLimit
  /\ ManagerHasHandle

\* Opens and closes of /dev/fs keep the count of its handles.
LEMMA MgrStep == TypeOK /\ MgrInv /\ [Next]_vars => MgrInv'
<1> SUFFICES ASSUME TypeOK, MgrInv, [Next]_vars PROVE MgrInv'
  OBVIOUS
<1>0. /\ IsFiniteSet(Mgr) /\ Cardinality(Mgr) = NumMgr
      /\ IsFiniteSet(realFS) /\ Cardinality(realFS) \in Nat
      /\ RealLimit \in Nat /\ NumMgr \in Nat
  <2>1. IsFiniteSet(Mgr) /\ Cardinality(Mgr) = NumMgr
    BY SizesAssumption, FS_Interval DEF Mgr
  <2>2. IsFiniteSet(realFS) /\ Cardinality(realFS) \in Nat
    BY <2>1, FS_Subset, FS_CardinalityType DEF TypeOK
  <2> QED BY <2>1, <2>2, SizesAssumption
<1>1. CASE MgrOpen
  <2>1. CASE \E h \in Mgr : FreeMgrHandle(h) /\ UNCHANGED fault
                 /\ \/ Cardinality(realFS) < RealLimit /\ realFS' = realFS \cup {h}
                    \/ UNCHANGED realFS
    <3>1. PICK h \in Mgr : \/ Cardinality(realFS) < RealLimit /\ realFS' = realFS \cup {h}
                        \/ UNCHANGED realFS
      BY <2>1
    <3>2. Cardinality(realFS') <= RealLimit
      BY <1>0, <3>1, FS_AddElement DEF MgrInv
    <3> QED BY <2>1, <3>2 DEF MgrInv, ManagerHasHandle
  <2>2. CASE (\A h \in Mgr : ~FreeMgrHandle(h)) /\ UNCHANGED realFS
    <3>1. NumMgr <= RealLimit
      BY <1>0, <2>2, NoMgrHandleMeansFull DEF MgrInv
    <3> QED BY <1>0, <2>2, <3>1 DEF MgrInv, ManagerHasHandle
  <2> QED BY <1>1, <2>1, <2>2 DEF MgrOpen
<1>2. ASSUME NEW h \in Mgr, MgrClose(h) PROVE MgrInv'
  <2>1. Cardinality(realFS \ {h}) \in Nat /\ Cardinality(realFS \ {h}) <= Cardinality(realFS)
    BY <1>0, FS_Subset, FS_CardinalityType
  <2>2. Cardinality(realFS \ {h}) <= RealLimit
    BY <1>0, <2>1 DEF MgrInv
  <2> QED BY <1>2, <2>2 DEF MgrClose, MgrInv, ManagerHasHandle
<1>3. CASE realFS' = realFS /\ (fault' = fault \/ fault' # "openHandle")
  BY <1>3 DEF MgrInv, ManagerHasHandle
<1> QED
  BY <1>1, <1>2, <1>3
  DEF Next, Request, ProxyRequest, FileRequest, DirectRequest, ManagerRequest, vars, FinishRename,
      OpenLocked, OpenMaxOpen, OpenReuse, OpenFresh, CloseProxy, CloseProxyFails, IOFails,
      ReadOrSeek, ReqWrite, DirectHandleOpen, DirectDirOpen, DirectClose, DirectOpen, CreateFile,
      Delete, RenameToCachedFails, RenameOnCard, RenameToClosed, RenameToCached, NandChange,
      CardRemoved, CardInserted

\* The assertion of OpenReplaced never fails when the real FS grants fewer handles
\* than there are resources.
THEOREM ManagerHandleIsFree == Spec => []ManagerHasHandle
<1>1. Init => MgrInv
  BY SizesAssumption, FS_EmptySet DEF Init, MgrInv, ManagerHasHandle
<1> QED BY <1>1, Invariants, MgrStep, PTL DEF Spec, MgrInv

\* No request of a client stops the thread at either assertion.
THEOREM AssertionsAreMet == Spec => []AssertionsHold
BY RegisteredDescriptorIsValid, ManagerHandleIsFree, PTL DEF AssertionsHold

-----------------------------------------------------------------------------
(* The scan for a descriptor, as it is written. *)

\* The slot EmuFS takes in the model is the one the loop of RegisterFileDescriptor and
\* FindAvailableFileDescriptor (EmuFS.cpp) takes, on every table that EmuFS can have.
THEOREM ScansAgree == Spec => []LoopMatchesScan
<1>1. TypeOK => LoopMatchesScan
  BY LoopEndsAtThePick DEF TypeOK, LoopMatchesScan
<1> QED BY <1>1, TypeCorrect, PTL

=============================================================================
