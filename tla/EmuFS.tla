------------------------------- MODULE EmuFS -------------------------------
(***************************************************************************)
(* The emulated ISFS resource manager of the IOS module                    *)
(* (src/ios/IOS/EmuFS.cpp).                                                *)
(*                                                                         *)
(* One IOS thread takes requests from a queue and answers each of them     *)
(* before it takes the next, so an action below is the processing of one   *)
(* request.  The requests come from several clients in any order.  A       *)
(* client of a replaced file holds a slot of sFileArray as its descriptor; *)
(* a client of /dev/saoirse/file holds an entry of sDirectFileArray, which *)
(* Direct_Open or Direct_DirOpen binds to a slot.  A slot that is closed   *)
(* by a proxy client stays open in FatFS ("cached") so that the next open  *)
(* of the same path can reuse it.                                          *)
(*                                                                         *)
(* The fields of ProxyFile and DirectFile are variables of their own: a    *)
(* field is a function from the table's index.  FatFS is external and      *)
(* abstracted to the files its names lead to, what the files hold, and the *)
(* state of the FIL objects.  The variables held, leaked, astray and       *)
(* openReply are history: the program does not have them.                  *)
(*                                                                         *)
(* An operator named M_... is a variant of the definition it precedes with *)
(* a plausible mistake in it.  No action uses it; it serves to show that   *)
(* the properties fail when the code is wrong (README.md).                 *)
(***************************************************************************)
EXTENDS Integers, FiniteSets, SlotScan

CONSTANTS
  NumDirect,   \* DIRECT_HANDLE_MAX, the size of sDirectFileArray
  NumMgr,      \* MGR_HANDLE_MAX, the size of realFS
  RealLimit,   \* how many /dev/fs handles the real FS grants (external)
  Paths,       \* ISFS paths the frontend redirects to the card
  TmpPaths,    \* ISFS paths under /tmp that stay on the NAND
  OtherNand,   \* other ISFS paths that stay on the NAND
  Modes,       \* open modes the clients use, out of ReadMode and ReadWriteMode
  Files,       \* identities of files on the card: bounds how many exist at once
  Texts,       \* contents a client can write
  Faults,      \* what may go wrong on the card: a subset of {"io", "card"}
  NoPath, NoFile, NotFound, Empty, Torn

Direct == 0 .. NumDirect - 1
Mgr == 0 .. NumMgr - 1
NandPaths == TmpPaths \cup OtherNand
Contents == Texts \cup {Empty, Torn}
ReadMode == "r"
ReadWriteMode == "rw"

ASSUME SizesAssumption ==
  /\ NumDirect \in Nat \ {0}
  /\ NumMgr \in Nat \ {0}
  /\ RealLimit \in Nat

ASSUME NamesAssumption ==
  /\ NoPath \notin Paths
  /\ NoFile \notin Files \cup Texts
  /\ NotFound \notin Slots
  /\ NoFile # Empty /\ NoFile # Torn
  /\ Modes \subseteq {ReadMode, ReadWriteMode}

VARIABLES
  inUse, filOpened, ipcFile, isDir, path, mode,   \* ProxyFile, per slot
  filFile,     \* the file a slot's FIL refers to
  filState,    \* "good"; "err": a disk error sticks to it; "dead": not valid
  filPos,      \* 1 when a FIL that works is past the start of its file, else 0
  dInUse, dFd, \* DirectFile, per direct handle
  realFS,      \* the manager handles with an open /dev/fs behind them
  fault,       \* the assertion that stopped the thread, or "none"
  mounted,     \* the card's volume is mounted
  names,       \* names[p]: the file a redirected path leads to on the card
  data,        \* what each file holds
  nand,        \* what the NAND holds under each path that is not redirected
  held,        \* history: the path a proxy client opened the slot's handle for
  leaked,      \* history: slots Close answered for without freeing them
  astray,      \* history: open slots whose path was cut from their file
  openReply    \* history: "MaxOpen" when the last request was an open refused so

filVars == <<filFile, filState, filPos>>
slotVars == <<inUse, filOpened, ipcFile, isDir, path, mode, filVars>>
directVars == <<dInUse, dFd>>
cardVars == <<mounted, names, data>>
vars == <<slotVars, directVars, realFS, fault, cardVars, nand,
          held, leaked, astray, openReply>>

NoReply == "none"
MaxOpen == "MaxOpen"

-----------------------------------------------------------------------------
(* Descriptor table helpers.                                               *)

M_CachedAtInUse(s, p) == inUse[s] /\ filOpened[s] /\ ipcFile[s] /\ path[s] = p

\* The slot already serves path p for the proxy, in use or cached.
CachedAt(s, p) == filOpened[s] /\ ipcFile[s] /\ path[s] = p

\* The slot RegisterFileDescriptor stops at when p is already open.
FirstCached(s, p) ==
  /\ CachedAt(s, p)
  /\ \A t \in Slots : t < s => ~CachedAt(t, p)

NotCached(p) == \A s \in Slots : ~CachedAt(s, p)

\* FindOpenFileDescriptor: the first open slot with this path.
M_OpenAtInUse(s, p) == inUse[s] /\ filOpened[s] /\ path[s] = p
OpenAt(s, p) == filOpened[s] /\ path[s] = p
FirstOpen(s, p) ==
  /\ OpenAt(s, p)
  /\ \A t \in Slots : t < s => ~OpenAt(t, p)

NotOpen(p) == \A s \in Slots : ~OpenAt(s, p)

M_ReusableInUse(s) ==
  \/ ScanPicks(inUse, filOpened, s)
  \/ s = 0 /\ \A t \in Slots : ~ScanPicks(inUse, filOpened, t)
\* The slot the scan for a free descriptor takes.
Reusable(s) == ScanPicks(inUse, filOpened, s)

NoneReusable == \A s \in Slots : ~Reusable(s)

\* FreeFileDescriptor on a descriptor that was just registered.
FreeFileDescriptor(s) == inUse' = [inUse EXCEPT ![s] = FALSE]

\* f_lseek to the start of a cached file, as in ReopenFile.
M_SeekIgnored(s) == TRUE
SeekWorks(s) == filState[s] = "good"
Rewind(s) == filPos' = [filPos EXCEPT ![s] = 0]

\* TryCloseFileDescriptor on a slot closes it.
M_TryCloseInUse(s) == filState[s] # "dead"
TryCloses(s) == ~inUse[s] /\ filState[s] # "dead"

\* A FIL or DIR object as FatFS leaves it: opened (f is its file), or closed.
SetFil(s, f, state) ==
  /\ filFile' = [filFile EXCEPT ![s] = f]
  /\ filState' = [filState EXCEPT ![s] = state]
  /\ filPos' = [filPos EXCEPT ![s] = 0]
OpenFil(s, f) == SetFil(s, f, "good")
CloseFil(s) == SetFil(s, NoFile, "dead")

\* A file identity nothing on the card or in the table refers to.
FreshFile(f) ==
  /\ \A p \in Paths : names[p] # f
  /\ \A s \in Slots : filFile[s] # f

\* The redirected paths a card may have, each with a file of its own.
Directories ==
  {n \in [Paths -> Files \cup {NoFile}] :
     \A p, q \in Paths : p # q /\ n[p] # NoFile => n[p] # n[q]}

\* A call into FatFS may fail for the card's sake.
DiskFails == ~mounted \/ "io" \in Faults

\* The slot's descriptor belongs to some client: a proxy handle, or a direct
\* handle bound to it (IPCRequest translates the latter before the command).
Served(s) ==
  \/ held[s] # NoPath
  \/ \E d \in Direct : dInUse[d] /\ dFd[d] = s

IsFileDescriptorValid(s) == inUse[s] /\ ~isDir[s]

-----------------------------------------------------------------------------
Init ==
  /\ inUse = [s \in Slots |-> FALSE]
  /\ filOpened = [s \in Slots |-> FALSE]
  /\ ipcFile = [s \in Slots |-> FALSE]
  /\ isDir = [s \in Slots |-> FALSE]
  /\ path = [s \in Slots |-> NoPath]
  /\ mode = [s \in Slots |-> ReadMode]
  /\ filFile = [s \in Slots |-> NoFile]
  /\ filState = [s \in Slots |-> "dead"]
  /\ filPos = [s \in Slots |-> 0]
  \* The reset loop of ThreadEntry indexes past the end of sDirectFileArray:
  \* the table starts as the zeros it was loaded with.
  /\ dInUse = [d \in Direct |-> FALSE]
  /\ dFd = [d \in Direct |-> 0]
  /\ realFS = {}
  /\ fault = "none"
  /\ mounted = TRUE
  /\ names \in Directories
  /\ data = [f \in Files |-> Empty]
  /\ nand \in [NandPaths -> Texts \cup {NoFile}]
  /\ held = [s \in Slots |-> NoPath]
  /\ leaked = {}
  /\ astray = {}
  /\ openReply = NoReply

-----------------------------------------------------------------------------
(* IOS_Open of a redirected path: ReqProxyOpen with RegisterFileDescriptor.  *)

\* A descriptor for the path exists and is in use.
OpenLocked(p) ==
  /\ \E s \in Slots : FirstCached(s, p) /\ inUse[s]
  /\ openReply' = NoReply
  /\ UNCHANGED <<slotVars, directVars, realFS, fault, cardVars, nand, held, leaked, astray>>

\* A cached descriptor is taken and ReopenFile seeks it to the start.  When the
\* seek fails the descriptor is freed, still open.
OpenReuse(p, m, s) ==
  /\ FirstCached(s, p) /\ ~inUse[s]
  /\ mode' = [mode EXCEPT ![s] = m]
  /\ \/ /\ SeekWorks(s)
        /\ inUse' = [inUse EXCEPT ![s] = TRUE]
        /\ Rewind(s)
        /\ held' = [held EXCEPT ![s] = p]
        /\ UNCHANGED filState
     \/ /\ ~SeekWorks(s) \/ DiskFails
        /\ FreeFileDescriptor(s)
        /\ filState' = [filState EXCEPT ![s] = IF @ = "good" THEN "err" ELSE @]
        /\ Rewind(s)
        /\ UNCHANGED held
  /\ openReply' = NoReply
  /\ UNCHANGED <<filOpened, ipcFile, isDir, path, filFile, directVars, realFS,
                 fault, cardVars, nand, leaked, astray>>

OpenMaxOpen(p) ==
  /\ NotCached(p) /\ NoneReusable
  /\ openReply' = MaxOpen
  /\ UNCHANGED <<slotVars, directVars, realFS, fault, cardVars, nand, held, leaked, astray>>

\* A free descriptor is taken from whatever it cached and the file is opened;
\* when that fails the descriptor is freed and keeps the path.
OpenFresh(p, m, s) ==
  /\ NotCached(p) /\ Reusable(s)
  /\ ipcFile' = [ipcFile EXCEPT ![s] = TRUE]
  /\ path' = [path EXCEPT ![s] = p]
  /\ mode' = [mode EXCEPT ![s] = m]
  /\ astray' = astray \ {s}
  \* ASSERT(IsFileDescriptorValid(fd)) in ReqProxyOpen
  /\ fault' = IF isDir[s] THEN "validDescriptor" ELSE fault
  /\ \/ /\ mounted /\ names[p] # NoFile
        /\ inUse' = [inUse EXCEPT ![s] = TRUE]
        /\ filOpened' = [filOpened EXCEPT ![s] = TRUE]
        /\ OpenFil(s, names[p])
        /\ held' = [held EXCEPT ![s] = p]
     \/ /\ DiskFails \/ names[p] = NoFile
        /\ filOpened' = [filOpened EXCEPT ![s] = FALSE]
        /\ CloseFil(s)
        /\ FreeFileDescriptor(s)
        /\ UNCHANGED held
  /\ openReply' = NoReply
  /\ UNCHANGED <<isDir, directVars, realFS, cardVars, nand, leaked>>

\* IOS_Close of a proxy descriptor: the file is synced and stays cached.  When
\* the sync fails the descriptor stays in use and its client keeps it.
CloseProxy(s) ==
  /\ held[s] # NoPath /\ IsFileDescriptorValid(s)
  /\ filState[s] # "dead"
  /\ inUse' = [inUse EXCEPT ![s] = FALSE]
  /\ held' = [held EXCEPT ![s] = NoPath]
  /\ openReply' = NoReply
  /\ UNCHANGED <<filOpened, ipcFile, isDir, path, mode, filVars, directVars, realFS,
                 fault, cardVars, nand, leaked, astray>>

CloseProxyFails(s) ==
  /\ held[s] # NoPath /\ IsFileDescriptorValid(s)
  /\ filState[s] = "dead" \/ DiskFails
  /\ openReply' = NoReply
  /\ UNCHANGED <<slotVars, directVars, realFS, fault, cardVars, nand, held, leaked, astray>>

-----------------------------------------------------------------------------
(* Read, write and seek on the descriptor a client's handle stands for.      *)

FileIO(s) == Served(s) /\ IsFileDescriptorValid(s)

\* A disk error sticks to the FIL, as FatFS's abort does, and a write it cuts
\* short leaves the file torn.
IOFails(s) ==
  /\ FileIO(s)
  /\ filState[s] = "good" /\ DiskFails
  /\ filState' = [filState EXCEPT ![s] = "err"]
  /\ Rewind(s)
  /\ \/ UNCHANGED data
     \/ mode[s] = ReadWriteMode /\ data' = [data EXCEPT ![filFile[s]] = Torn]
  /\ openReply' = NoReply
  /\ UNCHANGED <<inUse, filOpened, ipcFile, isDir, path, mode, filFile, directVars,
                 realFS, fault, mounted, names, nand, held, leaked, astray>>

\* ReqRead and ReqSeek move the position.
ReadOrSeek(s) ==
  /\ FileIO(s)
  /\ filState[s] = "good"
  /\ \E pos \in {0, 1} : filPos' = [filPos EXCEPT ![s] = pos]
  /\ openReply' = NoReply
  /\ UNCHANGED <<inUse, filOpened, ipcFile, isDir, path, mode, filFile, filState, directVars,
                 realFS, fault, cardVars, nand, held, leaked, astray>>

ReqWrite(s, x) ==
  /\ FileIO(s)
  /\ mode[s] = ReadWriteMode
  /\ filState[s] = "good"
  /\ filPos' = [filPos EXCEPT ![s] = 1]
  /\ data' = [data EXCEPT ![filFile[s]] = x]
  /\ openReply' = NoReply
  /\ UNCHANGED <<inUse, filOpened, ipcFile, isDir, path, mode, filFile, filState, directVars,
                 realFS, fault, mounted, names, nand, held, leaked, astray>>

-----------------------------------------------------------------------------
(* Direct handles: /dev/saoirse/file.                                        *)

\* IOS_Open of /dev/saoirse/file takes the first free entry.
DirectHandleOpen(d) ==
  /\ ~dInUse[d]
  /\ \A e \in Direct : e < d => dInUse[e]
  /\ dInUse' = [dInUse EXCEPT ![d] = TRUE]
  /\ dFd' = [dFd EXCEPT ![d] = NotFound]
  /\ openReply' = NoReply
  /\ UNCHANGED <<slotVars, realFS, fault, cardVars, nand, held, leaked, astray>>

\* ReqDirectOpen or ReqDirectOpenDir failed: the handle is not bound.
M_BindError(d) == dFd' = [dFd EXCEPT ![d] = NoFile]
LeaveUnbound(d) == UNCHANGED dFd

\* Direct_Open on an unbound handle.  The slot is cleared before the file is
\* opened; what it cached is dropped without a close.
DirectOpen(d, p, m, s) ==
  /\ dInUse[d] /\ dFd[d] = NotFound
  /\ Reusable(s)
  /\ path' = [path EXCEPT ![s] = NoPath]
  /\ astray' = astray \ {s}
  /\ \/ /\ mounted /\ names[p] # NoFile
        /\ mode' = [mode EXCEPT ![s] = m]
        /\ inUse' = [inUse EXCEPT ![s] = TRUE]
        /\ isDir' = [isDir EXCEPT ![s] = FALSE]
        /\ filOpened' = [filOpened EXCEPT ![s] = TRUE]
        /\ OpenFil(s, names[p])
        /\ dFd' = [dFd EXCEPT ![d] = s]
     \/ /\ DiskFails \/ names[p] = NoFile
        /\ filOpened' = [filOpened EXCEPT ![s] = FALSE]
        /\ CloseFil(s)
        /\ LeaveUnbound(d)
        /\ UNCHANGED <<mode, inUse, isDir>>
  /\ openReply' = NoReply
  /\ UNCHANGED <<ipcFile, dInUse, realFS, fault, cardVars, nand, held, leaked>>

\* Direct_DirOpen on an unbound handle: as above, but the path and filOpened are
\* not those of the directory.
DirectDirOpen(d, s) ==
  /\ dInUse[d] /\ dFd[d] = NotFound
  /\ Reusable(s)
  /\ filOpened' = [filOpened EXCEPT ![s] = FALSE]
  /\ astray' = astray \ {s}
  /\ \/ /\ mounted
        /\ inUse' = [inUse EXCEPT ![s] = TRUE]
        /\ isDir' = [isDir EXCEPT ![s] = TRUE]
        /\ OpenFil(s, NoFile)
        /\ dFd' = [dFd EXCEPT ![d] = s]
     \/ \* no such directory, or the card fails
        /\ CloseFil(s)
        /\ LeaveUnbound(d)
        /\ UNCHANGED <<inUse, isDir>>
  /\ openReply' = NoReply
  /\ UNCHANGED <<ipcFile, path, mode, dInUse, realFS, fault, cardVars, nand, held, leaked>>

\* ReqClose of a direct handle returns without freeing the slot.
M_FreeSlotOnly(s) ==
  /\ inUse' = [inUse EXCEPT ![s] = FALSE]
  /\ UNCHANGED <<leaked, filOpened, filVars>>
LeaveSlot(s) ==
  /\ leaked' = IF inUse[s] THEN leaked \cup {s} ELSE leaked
  /\ UNCHANGED <<filOpened, inUse, filVars>>

\* IOS_Close of a direct handle.  An unbound handle reads isDir before the start
\* of sFileArray and replies either way; a directory's slot is left in use, and
\* so is the slot of a file that cannot be closed.
DirectClose(d) ==
  /\ dInUse[d]
  /\ dInUse' = [dInUse EXCEPT ![d] = FALSE]
  /\ dFd' = [dFd EXCEPT ![d] = NotFound]
  /\ \/ /\ dFd[d] = NotFound
        /\ UNCHANGED <<filOpened, inUse, filVars, leaked>>
     \/ \E s \in Slots :
          /\ dFd[d] = s
          /\ \/ /\ IsFileDescriptorValid(s)
                /\ filState[s] # "dead"
                /\ filOpened' = [filOpened EXCEPT ![s] = FALSE]
                /\ inUse' = [inUse EXCEPT ![s] = FALSE]
                /\ CloseFil(s)
                /\ UNCHANGED leaked
             \/ /\ isDir[s] \/ ~inUse[s] \/ filState[s] = "dead" \/ DiskFails
                /\ LeaveSlot(s)
  /\ openReply' = NoReply
  /\ UNCHANGED <<ipcFile, isDir, path, mode, realFS, fault, cardVars, nand, held, astray>>

-----------------------------------------------------------------------------
(* /dev/fs handles and the manager's ioctls.                                 *)

\* The first resource without an open /dev/fs.
FreeMgrHandle(h) ==
  /\ h \notin realFS
  /\ \A g \in Mgr : g < h => g \in realFS

\* OpenReplaced of /dev/fs: a free resource is opened on the real FS for the
\* caller, or the real FS refuses.  All resources busy stops the thread.
MgrOpen ==
  /\ \/ \E h \in Mgr :
          /\ FreeMgrHandle(h)
          /\ \/ Cardinality(realFS) < RealLimit /\ realFS' = realFS \cup {h}
             \/ UNCHANGED realFS
          /\ UNCHANGED fault
     \/ /\ \A h \in Mgr : ~FreeMgrHandle(h)
        /\ fault' = "openHandle"
        /\ UNCHANGED realFS
  /\ openReply' = NoReply
  /\ UNCHANGED <<slotVars, directVars, cardVars, nand, held, leaked, astray>>

MgrClose(h) ==
  /\ h \in realFS
  /\ realFS' = realFS \ {h}
  /\ openReply' = NoReply
  /\ UNCHANGED <<slotVars, directVars, fault, cardVars, nand, held, leaked, astray>>

\* ISFS_CreateFile of a redirected path.  The FIL it opened is copied into a
\* free slot, whose path, ipcFile and former FIL stay as they were.
CreateFile(p, f) ==
  /\ realFS # {}
  /\ mounted /\ names[p] = NoFile
  /\ FreshFile(f)
  /\ names' = [names EXCEPT ![p] = f]
  /\ data' = [data EXCEPT ![f] = Empty]
  /\ \/ NoneReusable /\ UNCHANGED <<filOpened, filVars, astray>>
     \/ \E s \in Slots :
          /\ Reusable(s)
          /\ filOpened' = [filOpened EXCEPT ![s] = TRUE]
          /\ OpenFil(s, f)
          /\ astray' = IF path[s] = p THEN astray \ {s} ELSE astray \cup {s}
  /\ openReply' = NoReply
  /\ UNCHANGED <<inUse, ipcFile, isDir, path, mode, directVars, realFS, fault, mounted,
                 nand, held, leaked>>

\* ISFS_Delete of a redirected path: TryCloseFileDescriptor on the first open
\* slot with that path, then f_unlink.  (When that slot was astray, another one
\* can be open for the path and stays open: it is astray from now on.)
Delete(p) ==
  /\ realFS # {}
  /\ \/ /\ NotOpen(p)
        /\ UNCHANGED <<filOpened, filVars, astray>>
     \/ \E s \in Slots :
          /\ FirstOpen(s, p) /\ TryCloses(s)
          /\ filOpened' = [filOpened EXCEPT ![s] = FALSE]
          /\ CloseFil(s)
          /\ astray' = IF s \in astray THEN {t \in Slots : t \in astray \/ OpenAt(t, p)} \ {s}
                                       ELSE astray
  /\ \/ /\ mounted /\ names[p] # NoFile
        /\ names' = [names EXCEPT ![p] = NoFile]
     \/ /\ DiskFails \/ names[p] = NoFile
        /\ UNCHANGED names
  /\ openReply' = NoReply
  /\ UNCHANGED <<inUse, ipcFile, isDir, path, mode, directVars, realFS, fault,
                 mounted, data, nand, held, leaked>>

-----------------------------------------------------------------------------
(* ISFS_Rename.                                                              *)

\* Between two redirected paths only f_rename is called: open slots keep their
\* path.  (Renaming a file to its own name leaves everything as it is.)
RenameOnCard(p, q) ==
  /\ realFS # {}
  /\ mounted /\ names[p] # NoFile /\ names[q] = NoFile
  /\ names' = [names EXCEPT ![p] = NoFile, ![q] = names[p]]
  /\ astray' = astray \cup {s \in Slots : OpenAt(s, p)}
  /\ openReply' = NoReply
  /\ UNCHANGED <<slotVars, directVars, realFS, fault, mounted, data, nand, held, leaked>>

\* The outcomes of CopyFromNandToEFS(n, fil): refused before a byte is copied,
\* stopped by a failed read or write, or complete.
CopyOutcomes(n) ==
  IF n \notin TmpPaths \/ nand[n] = NoFile THEN {"refused"}
  ELSE {"refused", "readFails", "complete"} \cup (IF "io" \in Faults THEN {"writeFails"} ELSE {})

CopiedData(n, outcome) ==
  CASE outcome = "complete" -> {nand[n]}
    [] outcome = "refused"  -> {Empty}
    [] OTHER                -> {Empty, Torn}

\* After the copy the destination is closed or synced, and that must succeed.  A
\* failed read has closed the file already.
FlushOutcomes(outcome) ==
  CASE outcome = "readFails" -> {FALSE}
    [] "io" \in Faults       -> {TRUE, FALSE}
    [] OTHER                 -> {TRUE}

\* The tail of the rename: the assertion on the flush, the early return when the
\* copy failed, and the real FS's delete of the source, which it may refuse.
M_FinishAlways(n, outcome, flushed) ==
  /\ fault' = IF flushed THEN fault ELSE "flush"
  /\ \/ flushed /\ nand' = [nand EXCEPT ![n] = NoFile]
     \/ UNCHANGED nand
FinishRename(n, outcome, flushed) ==
  /\ fault' = IF flushed THEN fault ELSE "flush"
  /\ \/ flushed /\ outcome = "complete" /\ nand' = [nand EXCEPT ![n] = NoFile]
     \/ UNCHANGED nand

\* The destination is not open: it is created or truncated by name.
RenameToClosed(n, p, f) ==
  /\ realFS # {} /\ mounted
  /\ NotOpen(p)
  /\ IF names[p] = NoFile THEN FreshFile(f) ELSE f = names[p]
  /\ names' = [names EXCEPT ![p] = f]
  /\ \E outcome \in CopyOutcomes(n) :
       /\ \E x \in CopiedData(n, outcome) : data' = [data EXCEPT ![f] = x]
       /\ \E flushed \in FlushOutcomes(outcome) : FinishRename(n, outcome, flushed)
  /\ openReply' = NoReply
  /\ UNCHANGED <<slotVars, directVars, realFS, mounted, held, leaked, astray>>

\* The destination is cached: its FIL is rewound, truncated and written.
RenameToCached(n, p, s) ==
  /\ realFS # {}
  /\ FirstOpen(s, p) /\ ~inUse[s]
  /\ filState[s] = "good" /\ mounted
  /\ \E outcome \in CopyOutcomes(n) :
       /\ \E x \in CopiedData(n, outcome) : data' = [data EXCEPT ![filFile[s]] = x]
       /\ \E flushed \in FlushOutcomes(outcome) : FinishRename(n, outcome, flushed)
       /\ filPos' = [filPos EXCEPT ![s] = IF outcome = "complete" THEN 1 ELSE 0]
       /\ filState' = [filState EXCEPT ![s] = CASE outcome = "readFails"  -> "dead"
                                                [] outcome = "writeFails" -> "err"
                                                [] OTHER                  -> @]
  /\ openReply' = NoReply
  /\ UNCHANGED <<inUse, filOpened, ipcFile, isDir, path, mode, filFile, directVars, realFS,
                 mounted, names, held, leaked, astray>>

\* The rewind or the truncation of the cached FIL fails.
RenameToCachedFails(p, s) ==
  /\ realFS # {}
  /\ FirstOpen(s, p) /\ ~inUse[s]
  /\ filState[s] = "good" /\ DiskFails
  /\ filState' = [filState EXCEPT ![s] = "err"]
  /\ Rewind(s)
  /\ \/ UNCHANGED data
     \/ data' = [data EXCEPT ![filFile[s]] = Torn]
  /\ openReply' = NoReply
  /\ UNCHANGED <<inUse, filOpened, ipcFile, isDir, path, mode, filFile, directVars,
                 realFS, fault, mounted, names, nand, held, leaked, astray>>

\* Requests on paths that are not redirected go to the real FS: a client writes
\* a file under such a path, or deletes it.
NandChange(n) ==
  /\ \E x \in Texts \cup {NoFile} : x # nand[n] /\ nand' = [nand EXCEPT ![n] = x]
  /\ openReply' = NoReply
  /\ UNCHANGED <<slotVars, directVars, realFS, fault, cardVars, held, leaked, astray>>

-----------------------------------------------------------------------------
(* DeviceMgr unmounts the volume when the card is removed, and mounts the one *)
(* in the slot later: the same card or another.  Objects opened before stay   *)
(* invalid.                                                                   *)

CardRemoved ==
  /\ "card" \in Faults /\ mounted
  /\ mounted' = FALSE
  /\ openReply' = NoReply
  /\ filState' = [s \in Slots |-> "dead"]
  /\ filPos' = [s \in Slots |-> 0]
  /\ UNCHANGED <<inUse, filOpened, ipcFile, isDir, path, mode, filFile, directVars,
                 realFS, fault, names, data, nand, held, leaked, astray>>

\* The paths of the slots that are still open say nothing of another card's files.
CardInserted ==
  /\ "card" \in Faults /\ ~mounted
  /\ mounted' = TRUE
  /\ \/ UNCHANGED <<names, data, astray>>
     \/ /\ names' \in Directories
        /\ data' = [f \in Files |-> Empty]
        /\ astray' = astray \cup {s \in Slots : filOpened[s] /\ path[s] # NoPath}
  /\ openReply' = NoReply
  /\ UNCHANGED <<slotVars, directVars, realFS, fault, nand, held, leaked>>

-----------------------------------------------------------------------------
ProxyRequest ==
  \/ \E p \in Paths : OpenLocked(p) \/ OpenMaxOpen(p)
  \/ \E p \in Paths, m \in Modes, s \in Slots : OpenReuse(p, m, s) \/ OpenFresh(p, m, s)
  \/ \E s \in Slots : CloseProxy(s) \/ CloseProxyFails(s)

FileRequest ==
  \/ \E s \in Slots : IOFails(s) \/ ReadOrSeek(s)
  \/ \E s \in Slots, x \in Texts : ReqWrite(s, x)

DirectRequest ==
  \/ \E d \in Direct : DirectHandleOpen(d) \/ DirectClose(d)
  \/ \E d \in Direct, s \in Slots : DirectDirOpen(d, s)
  \/ \E d \in Direct, p \in Paths, m \in Modes, s \in Slots : DirectOpen(d, p, m, s)

ManagerRequest ==
  \/ MgrOpen
  \/ \E h \in Mgr : MgrClose(h)
  \/ \E p \in Paths : Delete(p)
  \/ \E p \in Paths, f \in Files : CreateFile(p, f)
  \/ \E p, q \in Paths : RenameOnCard(p, q)
  \/ \E n \in NandPaths, p \in Paths, f \in Files : RenameToClosed(n, p, f)
  \/ \E n \in NandPaths, p \in Paths, s \in Slots : RenameToCached(n, p, s)
  \/ \E p \in Paths, s \in Slots : RenameToCachedFails(p, s)
  \/ \E n \in NandPaths : NandChange(n)

\* A failed assertion cancels the thread: no request is answered any more.
Request == fault = "none" /\ (ProxyRequest \/ FileRequest \/ DirectRequest \/ ManagerRequest)

Next == Request \/ CardRemoved \/ CardInserted

Spec == Init /\ [][Next]_vars

-----------------------------------------------------------------------------
(* Properties.                                                               *)

\* The slot taken for a descriptor is the one the scan's loop ends at, on whatever
\* table the requests have led to, and none is taken exactly when the loop ends at
\* a slot in use.  (What the model takes is ScanPicks; the loop is the code's.)
LoopMatchesScan ==
  LET m == Match(inUse, filOpened)
  IN  \A s \in Slots : ScanPicks(inUse, filOpened, s) <=> s = m /\ ~inUse[m]

\* Every variable stays in its range.
TypeOK ==
  /\ inUse \in [Slots -> BOOLEAN]
  /\ filOpened \in [Slots -> BOOLEAN]
  /\ ipcFile \in [Slots -> BOOLEAN]
  /\ isDir \in [Slots -> BOOLEAN]
  /\ path \in [Slots -> Paths \cup {NoPath}]
  /\ mode \in [Slots -> {ReadMode, ReadWriteMode}]
  /\ filFile \in [Slots -> Files \cup {NoFile}]
  /\ filState \in [Slots -> {"good", "err", "dead"}]
  /\ filPos \in [Slots -> {0, 1}]
  /\ dInUse \in [Direct -> BOOLEAN]
  /\ dFd \in [Direct -> Slots \cup {NotFound}]
  /\ realFS \in SUBSET Mgr
  /\ fault \in {"none", "validDescriptor", "openHandle", "flush"}
  /\ mounted \in BOOLEAN
  /\ names \in [Paths -> Files \cup {NoFile}]
  /\ data \in [Files -> Contents]
  /\ nand \in [NandPaths -> Texts \cup {NoFile}]
  /\ held \in [Slots -> Paths \cup {NoPath}]
  /\ leaked \in SUBSET Slots
  /\ astray \in SUBSET Slots
  /\ openReply \in {NoReply, MaxOpen}

\* Slot s is the one a live direct handle d is bound to.
Bound(d, s) == dInUse[d] /\ dFd[d] = s

\* A proxy client's handle stands for a slot that is in use, open and still the
\* one its path was registered for, whatever opens, closes, failures and
\* evictions other clients caused meanwhile.
HeldSlotsAreServed ==
  \A s \in Slots : held[s] # NoPath =>
    /\ inUse[s] /\ filOpened[s] /\ ipcFile[s] /\ ~isDir[s]
    /\ path[s] = held[s]

\* Every slot in use has exactly one owner, a proxy client or one direct handle,
\* unless ReqClose left it behind; and no handle is bound to a free slot.
SlotOwnership ==
  \A s \in Slots :
    /\ inUse[s] <=> (held[s] # NoPath \/ s \in leaked \/ \E d \in Direct : Bound(d, s))
    /\ ~(held[s] # NoPath /\ s \in leaked)
    /\ \A d \in Direct : Bound(d, s) => held[s] = NoPath /\ s \notin leaked
    /\ \A d, e \in Direct : Bound(d, s) /\ Bound(e, s) => d = e

\* A slot that is open for a path, in use or cached, refers to the file that
\* path leads to now, unless ISFS_CreateFile or ISFS_Rename cut the two apart or
\* the slot was opened on a card that another has replaced.
\* In particular neither ISFS_Delete nor a rename from the NAND removes or
\* replaces a file under a descriptor.
CacheCoherent ==
  \A s \in Slots : filOpened[s] /\ path[s] # NoPath /\ s \notin astray =>
    filFile[s] # NoFile /\ names[path[s]] = filFile[s]

\* Two slots are never open for the same path, with the same exceptions: so two
\* clients never hold one path at a time.
OneSlotPerPath ==
  \A s, t \in Slots :
    /\ filOpened[s] /\ path[s] # NoPath /\ s \notin astray
    /\ filOpened[t] /\ path[t] = path[s] /\ t \notin astray
    => s = t

\* An open is refused with MaxOpen only when every slot is in use, or when a
\* directory's slot hides the cached ones from the scan.
MaxOpenMeansFull ==
  openReply = MaxOpen =>
    (\A s \in Slots : inUse[s]) \/ (\E s \in Slots : isDir[s])

\* A handle a proxy client is given reads and writes from the start of a file
\* through a FIL that works, also when the slot was cached with the position a
\* former client left, a disk error or an unmount.
OpenRewinds ==
  [][\A s \in Slots : held[s] = NoPath /\ held'[s] # NoPath =>
       filPos'[s] = 0 /\ filState'[s] = "good" /\ mounted']_vars

\* A rename from NAND path n to path p of the card.
RenameFromNand(n, p) ==
  \/ \E f \in Files : RenameToClosed(n, p, f)
  \/ \E s \in Slots : RenameToCached(n, p, s)

\* A rename from the NAND onto the card deletes its source only when the file
\* it wrote holds all of it and, no matter which way it was opened, the
\* destination's name leads to that file (but for working slots cut from their
\* path).
SourceOutlivesCopy ==
  [][\A n \in NandPaths, p \in Paths :
       RenameFromNand(n, p) /\ nand'[n] # nand[n] =>
         \/ names'[p] # NoFile /\ data'[names'[p]] = nand[n]
         \/ \E s \in astray : OpenAt(s, p) /\ filState[s] # "dead"]_vars

\* ASSERT(IsFileDescriptorValid(fd)) of ReqProxyOpen holds: the descriptor that
\* was registered is never one that last served a directory.
RegisteredIsValid == fault # "validDescriptor"

\* assert(i != MGR_HANDLE_MAX) of OpenReplaced holds while the real FS grants
\* fewer handles than there are resources (it is asked after the assertion).
ManagerHasHandle == RealLimit < NumMgr => fault # "openHandle"

\* No request of a client meets either assertion.
AssertionsHold == RegisteredIsValid /\ ManagerHasHandle

-----------------------------------------------------------------------------
(* What the code's comments and assertions say, and the code does not keep.  *)

\* "If the file was already opened, reuse the descriptor": the descriptor a
\* client gets for a path is of the file that path leads to.
OpenYieldsNamedFile ==
  [][\A s \in Slots : held[s] = NoPath /\ held'[s] # NoPath =>
       filFile'[s] = names'[held'[s]]]_vars

=============================================================================
