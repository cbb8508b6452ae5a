# Saoirse in TLA+

Saoirse is a homebrew program for the Wii that starts a disc game with files
replaced by those of an SD card or a USB drive. It has two halves: a *channel*
on the PowerPC (`src/channel`) with a user interface and an apploader, and a
*module* (`src/ios`) that the channel loads into IOS, the operating system of
the console's other processor. The module puts itself in front of three of the
system's resource managers, the file system, the disc drive and ES, and mounts
the drives the replacements come from. This directory models the parts of the
two halves in which threads, requests, faults and reused state meet. What is
model-checked is checked by TLC, what is proved by TLAPS.

Contents: [inventory](#inventory), [how the parts interact](#how-the-parts-interact),
[modules](#modules), [the models and the code](#the-models-and-the-code),
[runs](#runs), [bounds](#bounds), [fairness](#fairness), [findings](#findings),
[mutants](#mutants), [proofs](#proofs), [not modelled](#what-is-not-modelled-and-why),
[plan](#plan).

## Inventory

The state of each component, what it does, what is hard about it, and what makes
it correct. `PROJECT.json` repeats the list with the source files.

### EmuFS, the file system proxy (`src/ios/IOS/EmuFS.cpp`)

* *State.* `sFileArray`, 15 slots (`ProxyFile`: in use, path, kind, mode, a
  FatFS `FIL` or `DIR` and whether it is open); `sDirectFileArray`, 15 handles of
  `/dev/saoirse/file`, each bound to a slot or to none; `realFS`, 32 handles of
  `/dev/fs`, each with the real one behind it.
* *Operations.* Opens of replaced paths, direct opens of files and directories,
  opens of `/dev/fs`; close, read, write, seek; and the manager's ioctls:
  create, delete, rename (within the card, and from the NAND onto the card by
  copy and delete), attributes, directory lists, usage, versions.
* *Hard.* A slot a client closes stays open in FatFS and is handed out again for
  its path, or evicted for another path by a scan with two overlapping criteria.
  Everything that changes the card's names in between must have dropped it.
  Half-done opens, closes and copies when a disk call fails; the card removed
  under open files; slots shared by two kinds of clients with fields each leaves
  behind.
* *Correct when* a client's handle keeps standing for its own slot and file; a
  slot has one owner; a cached slot is of the file its path names; `MaxOpen` is
  true; a reused handle starts at the beginning; a rename never loses the only
  copy; the assertions hold.

### Storage device manager (`src/ios/Disk/DeviceMgr.cpp`)

* *State.* Nine device ids (0: the card; 1 to 8: USB drives), each enabled,
  inserted, mounted, in error, with a disk behind it; 32 handles of USB devices,
  each with its id on the bus and the device id it was given; the log file.
* *Operations.* A thread woken by a 64 ms timer or by `/dev/usb/ven`: it works
  the list of devices into its handles (`USBChange`) and mounts and unmounts
  volumes (`UpdateHandle`). Other threads mark a device with an error when a
  disk call fails (`DeviceMgr_DRead`, `DRWrite`).
* *Hard.* Errors arrive from other threads between any two steps, also for an id
  that belongs to another drive by then; ids and handles are reused; drives are
  exchanged between two answers of the bus; the log is a file on a device that
  may be pulled out.
* *Correct when* the channel's view of an id is what is mounted there; handles
  are the list's; an id is one drive's; a served drive has the handle by which
  its removal is noticed; nothing is written to a log file that is not on the
  mounted card; errors are not forgotten; what is there gets mounted, and what
  is not unmounted.

### Control link (`src/ios/IOS/IPCLog.cpp`, `src/common/Debug/Log.cpp`, `src/channel/Main/IOSBoot.cpp`)

* *State.* In IOS: queues of one for the channel's print hook and start request,
  the log's mutex and enable flag, the threads of the module. In the channel:
  the log buffer, the count of ready services and the count waited for, a queue
  of 8 events for the handler thread, the mutex that holds the handlers back.
* *Operations.* Hook registration, start request and Close; a log line, a
  service's notice, a device event; the channel's log thread and handler thread.
* *Hard.* Four kinds of threads compete for one hook; the log mutex is held while
  waiting for the channel, whose log thread may wait for a handler, which may
  wait for a service of the module, which may wait for the log.
* *Correct when* there is one hook; events reach the handlers once and in order;
  the game starts after all services; nobody waits for ever; the object is freed
  after its last user has left.

### Emulated disc drive (`src/ios/EmuDI/`) and emulated ES (`src/ios/IOS/EmuES.cpp`)

* *State.* A disc image in two files with its open partition and one decrypted
  block; the table of patches; in ES the running title and its ticket.
* *Operations.* Reads that are split between disc and patches, decrypted reads of
  an image, the opening of a partition with the hand-over of its title to ES, and
  ES's commands, refused, forwarded or answered for the disc.
* *Hard.* Boundaries between disc and patch, between the files of the image and
  between blocks; a block cache whose key is set before its content; a table that
  is replaced under a running search; two threads that share the running title.
* *Correct when* a read answered OK gives the words of the partition with the patches
  laid over it, but for the kinds of words the code is known to miss (findings
  [3 and 4](#findings), and those listed with [the model](#iso-emues-emudi-and-virtualdisc));
  the search finds the patch there is; and ES speaks of the title whose partition is
  open, never of half of it.

### SD card driver (`src/ios/Disk/SDCard.cpp`)

* *State.* The handle of `/dev/sdio/slot0`, the card's address, whether the card
  counts sectors or bytes.
* *Operations.* A start-up of up to a dozen requests, with a path of its own for cards
  IOS does not accept; reads and writes in chunks; a poll of the slot.
* *Hard.* A card may leave, and another come, between any two requests; the poll uses
  the handle that the start-up closes and opens; flags are left over from the card before.
* *Correct when* a volume is served only by the card it was started up from, counted as
  that card counts, and replies say what the card holds.

### USB driver (`src/ios/Disk/USBStorage.cpp`, `USB.cpp`)

* *State.* The tag of commands, the logical unit, the bounce buffer.
* *Operations.* A search for a unit with a disk, reads, writes and a flush, over
  commands of three phases (command, data, status).
* *Hard.* A command given up in its middle leaves its data or status in the drive; tries
  are counted against unit attentions.
* *Correct when* the driver gets back in step with the drive or fails for good, and replies
  say what the disk holds.

### The others

| component | state | what it does | what is hard |
|---|---|---|---|
| FatFS glue (`FatFS.cpp`) | a mutex per volume | locks, disk calls, clock for FatFS | a disk error logged by the thread that holds the log's mutex |
| Handlers, Riivolution | list of XML files, per drive | search a drive's `riivolution` folder when it comes, forget when it goes | removal while listing; the leak of direct handles |
| Boot of the module (`System.cpp`, `Patch.cpp`) | heap, clock | starts services, patches IOS | wrap of a 32-bit timer |
| Loader | none | loads the module's ELF | overflow of address checks |
| Apploader, tasks, `LaunchState` | read position, result | reads the game in on a thread | hand-over of the result by unsynchronised flags |
| Channel main, UI | selection | boot, menu, launch | order of closing the link and starting the game |
| Archive, patches, globals | none | writes to memory | none between threads |
| OS wrappers | none | queues, mutexes, ioctls | none of their own |
| Boot loader, vendored code | - | LZMA, FatFS | third-party |

## How the parts interact

```
 channel (PowerPC)                     module (IOS)
 -----------------                     ------------
 main ---- start, Close -------------> IPCLog::Run <---- log lines, under logMutex:
 log thread -- print hook -----------> |                 every thread
   ^  '-- reply: line, notice, event --'           <---- ready notices: EmuFS, EmuDI, EmuES
   v (queue of 8)                                  <---- device events: DeviceMgr
 handler thread -> Riivolution                               | mounts, unmounts
   '----- direct handles ------------> EmuFS --- FatFS --> DeviceMgr's disks
 game ------- ISFS requests ---------> EmuFS (else the real /dev/fs)
 game ------- disc reads ------------> EmuDI --- FatFS --> DeviceMgr's disks
                                       |  '- running title -> EmuES <--- the game's ES requests
                                       DeviceMgr's disks: SDCard, USBStorage
```

One call crosses several of these at once: a drive is plugged in, DeviceMgr
mounts it and replies to the print hook, the channel's log thread queues the
event, the handler thread opens the drive's folder through EmuFS, and EmuFS logs
that request through the hook it needs the log thread to register again. `IPCLog`
follows this circle as a whole.

## Modules

| module | what it is | lines |
|---|---|---|
| `SlotScan` | which slot EmuFS's scan for a free one picks: a predicate, and the loop of the code | 52 |
| `SlotScanProofs` | that the loop ends where the predicate says | 242 |
| `EmuFS` | EmuFS as a state machine; FatFS and the NAND external | 716 |
| `EmuFSProofs` | theorems about `EmuFS` | 853 |
| `DeviceMgr` | the device manager; card slot, bus and FatFS's volumes external | 427 |
| `DeviceMgrProofs` | theorems about `DeviceMgr` | 754 |
| `EventChannel` | what the link promises of device events (abstract) | 29 |
| `IPCLog` | the link, both ends | 430 |
| `IPCLogProofs` | theorems about `IPCLog`, among them that it implements `EventChannel` | 856 |
| `VirtualDisc` | what the emulated disc promises the game (abstract) | 70 |
| `ISO` | the disc image: two files, blocks, cache; FatFS's `FIL` external | 206 |
| `EmuES` | the ES proxy; the real ES external | 131 |
| `EmuDI` | the disc drive on `ISO` and `EmuES`; patches | 463 |
| `EmuDIProofs` | theorems about `ISO` and `EmuDI`, among them that it implements `VirtualDisc` | 1818 |
| `BlockStore` | what a drive promises FatFS (abstract) | 54 |
| `USBStorage` | the USB driver with transport and drive | 414 |
| `USBStorageProofs` | that `USBStorage` stays in step, implements `BlockStore` and finds the disk of its drive | 4039 |
| `SDCard` | the card's driver with the slot and the cards | 406 |
| `SDCardProofs` | which card serves a volume, that `SDCard` implements `BlockStore`, and what can make a call fail | 1776 |
| `Numbers` | lemmas on natural numbers: least elements, the course of a loop, the end of a search | 150 |
| `MC...` | the instances of `EmuFS`, `DeviceMgr`, `IPCLog`, `EmuDI`, `USBStorage`, `SDCard` for TLC | 112 |

Two modules compose others. `EmuDI` extends `ISO` and `EmuES`, whose operators its two
threads are made of. `IPCLog` holds both ends of the link: main, log and handler threads
of the channel, the server, the services and DeviceMgr's thread of the module, each of
them reduced to what it does to the link. Three abstract modules are implemented:
`EventChannel` by `IPCLog`, `VirtualDisc` by `EmuDI`, `BlockStore` by both drivers. No
module a theorem is about uses a RECURSIVE operator.

## The models and the code

Names follow the source. A comment before an action names the code it stands for
where the name does not; `PROJECT.json` maps every definition to its lines.

### EmuFS

EmuFS is one thread with one queue: a request is processed whole before the next,
so **one request is one action**, with all the FatFS calls it makes and their
failures as disjuncts of the action. What interleaves are the requests of the
clients.

| state | code |
|---|---|
| `inUse`, `filOpened`, `ipcFile`, `isDir`, `path`, `mode` | fields of `sFileArray[s]` |
| `filFile`, `filState`, `filPos` | its `FIL`: file, health, "past the start" (of a `FIL` that works) |
| `dInUse`, `dFd` | fields of `sDirectFileArray[d]` |
| `realFS` | the indices of `realFS` with a handle |
| `fault` | the assertion that stopped the thread |
| `mounted`, `names`, `data`, `nand` | card and NAND (external) |
| `held`, `leaked`, `astray`, `openReply` | history, see below |

* *Proxy opens* (`OpenLocked`, `OpenReuse`, `OpenMaxOpen`, `OpenFresh` and their
  failures) follow `ReqProxyOpen` with `RegisterFileDescriptor` and `ReopenFile`.
  `CloseProxy` and `CloseProxyFails` are `ReqClose`: the slot is freed and stays
  open.
* *Direct handles*: `DirectHandleOpen`, `DirectOpen`, `DirectDirOpen`,
  `DirectClose`. A close of a handle that was never bound reads
  `sFileArray[-106].isDir` (`EmuFS.cpp:591`); the model takes either outcome.
  `ThreadEntry`'s loop that should reset the table starts at 300 and writes
  behind it (1676-1679), so `Init` leaves the table as the loader left it.
* *Manager*: `MgrOpen`, `MgrClose`, `CreateFile`, `Delete`, `RenameOnCard`, and the
  three actions of the rename from the NAND, with `CopyFromNandToEFS`'s outcomes
  (it closes its destination on a failed read, 415, after which the flush that is
  asserted at 1024 and 1044 fails: the fault `flush`).
* *FatFS*, external: it is built without file locks (`FF_FS_LOCK` 0), so a file may
  be deleted or opened under a `FIL`; a disk error sticks to the `FIL`; an unmount
  makes every `FIL` invalid (`dead`). A card that goes may come back, or another one
  with any names and files may come: DeviceMgr mounts what is in the slot.
* *History*: `held[s]` is the path a client opened the handle for; `leaked` the slots
  a Close answered for without freeing; `astray` the open slots whose path leads to
  another file: those `ISFS_CreateFile` or `ISFS_Rename` cut from it, and those that were
  open when another card came; `openReply` whether the last request was an open answered
  `MaxOpen` (no property tells other answers apart). The guard `Served`
  uses `held` and `dFd` to say that a client uses only handles it was given.
* *Abstracted*: a path is a model value, a file an identity with content `Empty`, `Torn`
  or a text, a position "start" or "elsewhere". Requests that only answer are not
  actions, because they change nothing modelled.

`SlotScan` holds the predicate `ScanPicks`, which `EmuFS` uses where the code runs
its scan, and that loop itself (`Turn`, `Match`); `LoopMatchesScan` compares the two on
every table the requests lead to.

### DeviceMgr

The manager's thread is a program counter (`wait`, `scan`, `attach`, `update`,
`mount`, `stopped`) with a loop counter `turn`; **a step is what the thread does
between two points where it may block** or where another thread's disk call may
matter. `Mount` and `MountDone` are apart because the volume is usable from
`f_mount` (458) on, before `error` is cleared (470). The scan of the handles is one
step: its turns are about different handles and devices, so they commute with
the only thing other threads do, marking a device.

| state | code |
|---|---|
| `enabled`, `inserted`, `error`, `mounted`, `disk` | fields of `m_devices[k]` |
| `hInUse`, `hId`, `hDev` | `m_usbDevices[h]`: in use, id, `intId` |
| `list`, `found` | the list `USBChange` gets (`devices`, `count`), `foundMap` |
| `logEnabled`, `logDevice`, `logOpen` | the log's members and its `FIL` |
| `volume`, `stale` | FatFS's volume table, calls still inside it (external) |
| `told` | what the channel was told last of each id |
| `logSet` | history: `m_logEnabled` is not a leftover of the heap, see below |
| `cardIn`, `bus` | the card slot and the bus (external) |

`f_mount` with option 0 and `f_unmount` cannot fail here: the drive numbers are
below `FF_VOLUMES` and the sync functions of `FatFS.cpp` always succeed (137-164).
Faults are `io` (a disk call fails), `late` (a call is inside FatFS when its volume
is unmounted, and may fail later, when the id is another drive's), `usb`
(`/dev/usb/ven` answers with an error).

The constructor (15-42) sets neither `m_logEnabled` nor `m_logDevice`, and `operator new`
does not clear memory. So `logEnabled` starts with either value; `logDevice`, which nothing
modelled reads before it is assigned, starts as no device. A log that starts as enabled has no
file and stays so until the card is unmounted: the code promises nothing for it, and `LogIsOnCard`
excepts it. `logSet` is false just then.

### IPCLog and EventChannel

`EventChannel` says what device handlers may rely on: they are called with the
events the manager notified, in that order, none twice. `IPCLog` is the mechanism.
A thread of IOS has a place `at[t]`: waiting for the log's mutex, for the hook, idle;
main, log thread and handler thread of the channel have theirs. The queues are the
code's: `m_ipcQueue`, `m_responseQueue` (one entry, so the Boolean `hook`),
`m_startRequestQueue` (one entry), `m_handlerQueue`. `sent` and `handled` are history and
the variables of `EventChannel`; the refinement mapping is the identity on them.

Several log lines of a thread in a row count as one, because each of them waits
for the same two things and leaves the same state; likewise the requests of one
call of a handler. A service logs, notifies, and then logs when it serves a
request, which are the places where it can be caught in the circle described above.

### ISO, EmuES, EmuDI and VirtualDisc

Two threads serve requests, one for `~dev/di` and one for `~dev/es`. **A DI request is one step**,
but for `OpenPartition`, which verifies the title on the disc's thread by writing to ES's
statics (`VerifyTitle`, `VerifyTicket`, `VerifyDone`): the ES thread may answer between any
two of these writes.

| state | code |
|---|---|
| `fil` | the two `FIL`s of the image, as good or broken for good |
| `partitionOpened`, `partitionOffset`, `readDiskIDCalled` | members of `ISO` |
| `lastReadBlock`, `decrypted` | `m_lastReadBlock`, `m_dataBlockDecrypted` |
| `numPatches`, `patches`, `gameStarted` | `DiNumPatches`, `DiPatches`, the flag of `ReqIoctl` |
| `opening` | where `OpenPartition` is |
| `titleID`, `ticket`, `useTitleCtx` | ES's statics |
| `reply`, `esReply` | the last answer of each thread |

Words stand for bytes, and a word of the image is its offset in it, so a wrong offset shows
as a wrong word. `VirtualDisc` has the word there is at every address (`content`); the mapping
takes it from the table and the partition. Zeros are accepted only for the places of a reply
that a disk call failed to read (`lost`), and those only in a read that reaches the patches,
which answers OK all the same. The rest the code gets wrong is named, each by an operator of
its own:

* `MissesTheTail`: the patch part of a read that starts on the disc ([finding 3](#findings)).
* `StartsInAGap`: a read that starts in a gap between patches stops there (`EmuDI.cpp:339`), so
  the patches behind the gap are not read. (One that runs on into a gap aborts: the seek's
  distance wraps around, 349.)
* `SeeksFromTheStart`: a read that starts inside a patch seeks in the patch's file from the
  file's start (349), a wrong place if the patch is a later part of its file.
* `StaleAt`: the block left under another's key by a failed read ([finding 4](#findings)), and all
  patches while a refused table has left `DiNumPatches` too large (425). `VirtualDisc` has
  them as `stale`; an address gets stale only in a command that is answered with an error
  or loses words, and a read that starts elsewhere is promised all of its words.

The first three are `Missed`: the mapping puts these words right, so that all others of the
same read are still compared.

Some facts about the code the models follow: reads across the two files are refused by the
size check, whose `>=` refuses the last word as well; after the card was out both `FIL`s are
invalid for good while the cover is still said to be closed; a table that is too long is refused after its
length was taken (425); `GetTitleContents` answers into the vector of its count
(`EmuES.cpp:212`), and the alignment check of `DIGetTicketView` looks at one vector twice (338).

### USBStorage, SDCard and BlockStore

`BlockStore` is what FatFS may believe of a drive: `known[s]` is the set of what sector `s` may
hold; an OK read or write makes it a single value, a failed write adds one. **In the
drivers a request to IOS is a step**, for what the next does depends on its outcome.
`f_mount` with option 0 leaves the start of a drive to the first access (`ready`), and after a call
that failed DeviceMgr calls the drive no more until it is gone (`error`), but for the one
error that is lost at `DeviceMgr.cpp:470` (the fault `forget`).

*USBStorage.* What the host sends waits in `out`, what the drive sends in `in`. `phase`, `cmd`,
`tag`, `buffer` are those of `SCSITransfer`; `lun`, `try`, `found` those of `FindLun`. The driver uses
neither `CancelEndpoint` nor `ClearHalt`, so a stall is the end of the drive (`halted`). A status
lost in `FindLun` leaves its tries out of step with the drive, and `Init` fails. Faults: `lost` (a message
is not sent or its answer not taken), `status` (the drive reports a failed command), `stall`,
`ctrl` (the drive's endpoints or its count of units are not usable).

*SDCard.* `phase` is the request that comes next, from `__sdio_resetcard` on. `fd`, `rca`, `sdhc`,
`tries` are the driver's statics, `mode` is the state of the card in the slot and `accepted` whether
IOS has started it up. `Poll` is `UpdateHandle`'s look at the slot, which with a closed handle
takes a bit of an error number for the card (`Seen`); its status request may fail, too,
and then reads as a card or as none. A card that is put in answers to no
address until it is started up, which is what protects against unnoticed exchanges.
`started` is history: the card that answered at the last start. Faults: `io`, `eject`,
`forget`. `__sd0_initialized` and `__sdio_initialized` have no effect and are left out.

## Runs

| run | module | states | what it shows |
|---|---|---|---|
| `EmuFSHandles` | `MCEmuFS` | 1,040,622 | proxy clients, two direct handles, create, delete and rename on two slots, with failing disk calls and a card that goes, comes back or is replaced: who owns a slot, what handles and cached slots refer to, that a path has one slot, that the scan's loop takes the slot the model takes, the assertions |
| `EmuFSRename` | `MCEmuFS` | 101,082 | renames from the NAND with writers and failing disk calls |
| `DeviceMgrUsb` | `MCDeviceMgr` | 3,247,952 | three drives, two handles and one id for them, a card; faults `io`, `late`, `usb` |
| `DeviceMgrLive` | `MCDeviceMgr` | 2,520 | one drive and a card: mounts and unmounts that must come |
| `IPCLogLink` | `MCIPCLog` | 276,622 | boot, four device events, Close: order, start, waits |
| `Disc` | `MCEmuDI` | 98,923 | disc, patches and ES under failing reads and a card that goes: `VirtualDisc` is implemented, but for the words named above |
| `UsbDisk` | `MCUSBStorage` | 334,808 | two units, three faults of any kind: the driver stays in step, `BlockStore` is implemented |
| `SdCard` | `MCSDCard` | 164,661 | two cards of different kinds exchanged at any request, three faults: `BlockStore` is implemented |
| `EmuFSReuse`, `IPCLogClose`, `DiscMixed`, `DiscCache` | | | the [findings](#findings), each a violation |

The properties, by what they rule out:

* `EmuFS`: a client's handle that stands for another's slot (`HeldSlotsAreServed`), a slot
  with two owners or none (`SlotOwnership`), a cached slot of a file its path does
  not lead to any more (`CacheCoherent`), a path open twice (`OneSlotPerPath`), a handle that
  starts in the middle of the file or on a broken `FIL` (`OpenRewinds`), a rename that loses the
  file (`SourceOutlivesCopy`), a client that can stop the thread at an assertion on its
  tables (`AssertionsHold`), a scan whose loop ends elsewhere than the predicate says
  (`LoopMatchesScan`).
* `DeviceMgr`: a channel that believes in a drive that is not there (`ToldIsMounted`),
  handles left over or doubled (`HandlesMatchList`), an id that two drives share or that
  outlives its drive (`HandleOwnsDevice`), a drive whose removal would not be noticed
  (`ServedHasHandle`), the failing assertion on handles (`HandleIsFree`), a log written to a
  file of a card that is gone (`LogIsOnCard`), an error lost (`ErrorSticks`), and a card or
  drive that is never mounted or unmounted (`CardFollowsSlot`, `UsbIsUnmounted`).
* `IPCLog`: two hooks (`HookIsSingle`), a game started before the services
  (`StartedMeansReady`), an object freed under the log thread (`CloseIsLast`), events lost,
  doubled or reordered (`EventsInOrder`), a boot, a thread or an event that waits for ever
  (`BootCompletes`, `WaitsEnd`, `EventsHandled`).
* `EmuDI`: a binary search that misses a patch or finds one that is not there
  (`SearchFindsThePatch`), words out of order or of another block (`ReadsComeOutRight`), half of a
  title (`TitleIsTheDiscs`), and whatever else a game could notice (`ImplementsDisc`).
* `USBStorage`: a packet of an old command taken for one of a new (`InStep`), a disk missed behind
  unit attentions (`InitFindsTheDisk`), a read that gives anything but what was written
  (`ImplementsStore`).
* `SDCard`: a transfer by another card, or by one counted wrong (`ServedByStarted`), a call that
  fails though nothing went wrong (`OnlyFaultsFail`), and `ImplementsStore`.

The exceptions the code makes necessary are named in the properties: `astray` slots
in `CacheCoherent` and `OneSlotPerPath` (finding 1, and a replaced card), an error set
between 458 and 470 in `ErrorSticks`, a log flag nobody has set in `LogIsOnCard`, more events
than there is room for in `BootCompletes`, `WaitsEnd` and `EventsHandled` (`RoomForEvents`), and
`Missed` and `StaleAt` in `ImplementsDisc`. `UsbIsUnmounted` and `ServedHasHandle` are about
devices that are not in error; what becomes of those that are is told under
[findings](#findings).

Deadlock is checked but for three modules' runs. In `EmuFSRename` a failed assertion stops the
thread, as in the code. In the `IPCLog` runs the link rests when the bounded number
of events is used up and nobody has a request; that no thread is stuck there is
what `WaitsEnd` and `EventsHandled` say. In `UsbDisk` a drive in error, or at `MaxTag`, is called no
more.

## Bounds

* *Slots.* Two in `EmuFSHandles`, each of which may be vacant, cached, a client's or a directory's,
  with two direct handles, which compete for them with each other and with the proxy clients. An
  error concerns one slot, with a second to be confused with; three slots with faults
  have over 20 million states. The rename from the NAND concerns one destination, so one slot,
  with writers. What these runs show is proved for every number of slots and handles, and
  that the scan's loop ends at the slot of the predicate on tables of any size
  (`LoopEndsAtThePick`).
* *Paths, files.* Two paths exchange their files by renames; two files let a path be
  deleted and created anew under an open `FIL`. `Files` bounds how many exist at once.
  Another card has any assignment of the same files to the paths, with empty content.
* *Handles of `/dev/fs`.* Two with a limit of one (the limit of the real FS is below
  `MGR_HANDLE_MAX`, as the comment at `EmuFS.cpp:54` expects).
* *Devices.* Three drives on two handles: one replaced by another while a third stays.
  One id for them, so that an id is reused and drives find none free. The liveness
  run has one drive and one handle, because its properties are about one device each
  and other devices only take turns.
* *Events.* `HandlerCap` is 2 and `MaxEvents` 4, so the log thread may meet a full queue
  (`IOSBoot.cpp:447`) while a handler waits for the boot or is in a request. `HandlerCap` + 1
  outstanding events, the queue full and one at the handler, are the most with which waits
  are promised to end (`RoomForEvents`, a premise of the liveness properties). One more is
  held by the log thread, which then registers no hook: before the start, the handler
  waits for the boot and the boot for the notices; after it, the handler waits for EmuFS and
  EmuFS for the hook its line needs. Either way all wait for ever, and without the premise
  TLC finds both. The code has 8 entries and 9 device ids, so this takes a tenth event
  outstanding: a drive that comes and goes while the handler is busy with the others.
* *Services.* Three, as in the code; `trigger` is their number.
* *Disc.* Two files of 14 and 13 words in blocks of five, one of which lies across the files;
  a read that starts in each kind of place (in a block, in one that cannot be read, before the
  patches and on into them, in a patch, inside of one, over two, into a gap and in it); a table
  of three patches, one of them empty, one of three with a gap and a patch that is a later part
  of its file, and one that is too long. The
  sizes share no factor, so an offset taken for another shows. Blocks, files, reads
  and tables of any size are covered by the theorems `ReadsCorrect`, `SearchCorrect` and `DriveIsDisc`.
* *USB drive.* Two units, a disk behind one that is none; two sectors moved one by one. `Init` takes
  up to twelve commands, and `MaxTag` leaves six for calls after that, with three faults in
  any of them: one to get out of step, one while in that state, one for the call that follows.
  `StaysInStep` and `DriveIsStore` are proved for any number of units, sectors, calls and faults.
* *SD card.* One card that counts sectors and one that counts bytes, of which IOS accepts one;
  three sectors in chunks of two, so that a call has a whole and a short chunk; two reads or
  writes and any number of starts; three faults, ejections included. `CardIsStore` and
  `FailuresHaveCauses` are proved for every number of each.

Symmetry is used for paths, files, texts and USB drives, and only in runs of safety
properties. Slots, handles and device ids are taken in order and are not symmetric.

## Fairness

`EmuFS` has none: nothing in it waits. `DeviceMgr!LiveSpec` has weak fairness of the thread's
steps, since the timer repeats and every call in a turn returns, and strong fairness
of `UsbReply`: the thread reads one FIFO queue that timer messages and the answer of
`/dev/usb/ven` both go to, so an answer waits for finitely many turns. (Weak fairness is
not enough, for the thread is elsewhere again and again.) User and disk errors
have no fairness. A device is promised to be mounted only if it stays and works.

`IPCLog!LiveSpec` has weak fairness of each thread of IOS, of the server, of the channel's
threads and of main's boot. All of them block only on queues and the mutex, whose
steps are guards here. Weak fairness of a printer's step is fair enough although
others take the hook in between, because the mutex keeps all printers but one away
from it, and a finite number of notices and events remain. Device changes and the
Close have none. All three properties suppose room for the outstanding events (see Bounds).
`WaitsEnd` and `EventsHandled` are about a link that is not closed: after a Close nobody
registers a hook, and whoever waits for it waits for ever (see below).

`EmuDI`, `USBStorage` and `SDCard` have none either: what is asked of them is what an answer
says, not that one comes.

## Findings

Each is a run in which TLC finds what a comment of the code excludes.

1. `EmuFSReuse`, `OpenYieldsNamedFile`. `ISFS_CreateFile` puts its `FIL` in a slot and leaves the
   slot's path (`EmuFS.cpp:1124`); a rename leaves the paths of cached slots. An open of the old
   path then "reuses the descriptor" (236) of another file.
2. `IPCLogClose`, `CloseFinishes`. Close waits for a hook on the thread that has to serve the
   hook's registration (`IPCLog.cpp:91`).
3. `DiscMixed`, `MixedReadsReachThePatches`. "Part DVD read, part SD read" (`EmuDI.cpp:325`): after
   the disc part, `Read` moves `outbuf` and `length` but not `offset` (326-337). `SearchPatch` is asked
   for an address below every patch and finds none, so the patch part of every such read is
   zeros, though nothing failed.
4. `DiscCache`, `CacheHoldsItsBlock`. `m_lastReadBlock`, "Offset of the block in
   m_dataBlockDecrypted" (`ISO.hpp:63`), is set before the raw read (`ISO.cpp:143-146`). When the read
   fails, the next read of that block is answered OK with the words of the block before.

Other facts found on the way, which no text of the repository denies or which the models
treat as the environment:

* *EmuFS.* `ReqClose` answers OK for a directory's handle and keeps its slot in use (591);
  Riivolution looks into two directories of each drive, so some seven insertions use up the
  table. After the card was out, `ReopenFile` (444) frees a slot whose `FIL` is dead but leaves it
  marked open (449), so that every open of that path finds it again and fails. A failed read
  in the rename from the NAND ends in a failed assertion (415, 1024).
* *DeviceMgr.* A drive that fails and is unplugged after another change of the bus stays
  mounted and in error (291, 410): its handle has forgotten the id. `m_logEnabled` and
  `m_logDevice` are not initialised (15-42): a line logged before the card's first mount may go to a
  `FIL` nobody opened. A stale disk call marks the drive that has the id now. Drives refused for want
  of an id are not retried when one becomes free (370). `f_unmount` does not wait for calls
  inside the volume.
* *IPCLog.* Ten outstanding device events close the circle of waits for good, in the boot and
  after it (see [Bounds](#bounds)). After a Close the manager's next notification blocks its thread for good,
  and the channel's handler thread, to which no Close is ever sent (`IOSBoot.cpp:394`), keeps a queue of
  the freed object.
* *Disc.* The facts listed with [the model](#iso-emues-emudi-and-virtualdisc).
* *Drives.* FatFS is told that sectors have 512 bytes (`FatFS.cpp:66`) while transfers use the
  size the drive reported. An error of the card's status request is returned as status bits
  (`SDCard.cpp:227`).
* *Channel.* `OnDeviceRemoval` compares a drive with `'\0' + id`, which no path begins with
  (`Riivolution.cpp:95`), so files of removed drives stay listed. `taskAbort` and `taskBreak` send the
  result and then go on, for the destructor they rely on does nothing (`TaskThread.hpp`). A read
  that fails in the apploader is only logged.
* *Clock.* The difference of two timer readings adds what is missing to 2^64 instead of 2^32
  (`System.cpp:166`), and the thread that should hide the wrap sleeps for 1.92 seconds where its
  comment says 32 minutes (173).

## Mutants

A definition `M_...` is the definition it precedes with a plausible mistake in it: a guard
left out, a field not reset, an order swapped. No action uses it. `PROJECT.json` pairs
every property of every passing run with one: with the mistake put in place of the
definition, TLC finds the property violated under the run's own configuration. So no property
holds by the shape of the model alone.

## Proofs

The theorems hold for every value of the constants the assumptions allow: any number of
slots, handles, devices, paths, drives and events, any set of faults. Assumptions:
`NumSlotsAssumption` (`SlotScan`), `SizesAssumption` and `NamesAssumption` (`EmuFS`), `DeviceAssumption`, `LinkAssumption`,
`ImageAssumption`, `TitleAssumption`, `PatchAssumption`, `CardAssumption`, `DriveAssumption`: sizes are positive, model
values are distinct, the sets of drives and of services are finite, a USB drive has 1 to 16 units
(`GetLunCount` accepts no other number), calls stay on the card or the drive.
TLC evaluates them in every run.

**EmuFS.** `TypeCorrect`, `HandlesAreServed`, `SlotsAreOwned`, `RegisteredDescriptorIsValid`,
`OpenSlotsAreCoherent`, `PathsHaveOneSlot`, `OpensRewind`, `SourceIsKept`, `MaxOpenIsRight`,
`ManagerHandleIsFree`, `AssertionsAreMet`: every property the passing runs check. The inductive invariant has three
parts, each proved from the ones before:

* `OwnInv`, who owns a slot: `HeldSlotsAreServed`, `SlotOwnership`, `RegisteredIsValid`, and
  `DirectoriesInUse`, a slot marked as a directory's is in use and not open. The last is
  what makes the assertion of `ReqProxyOpen` hold although nothing resets `isDir` at a
  registration: only because `ReqClose` never frees a directory's slot (591) can
  no later open meet the mark.
* `CohInv`, which file a slot refers to: `CacheCoherent`, `OneSlotPerPath`, `NamedSlotsAreIpc` (a
  slot with a path was registered by a proxy client, so the search by path and the
  search for a cached slot find the same ones) and `GoodMeansMounted`.
* `InUseNotOpenIsDir` for `MaxOpen`: a slot in use that is not open is a directory's. From it and
  the scan's predicate follows that a scan without result met only slots in use, or
  a directory's. Slots are scanned in order; the first of a kind is the least element
  of a non-empty set of numbers, which the well-founded order on `Nat` provides.

`LoopEndsAtThePick` (`SlotScanProofs`) and `ScansAgree` are about the scan itself. `ScanPicks` says
in one formula which slot is taken; `Match` is the loop, with its two variables that overwrite
each other. The loop's result is a recursive function of the turn, which has a course
(`LoopRuns`). A property of every turn, that the slot kept so far is the one `ScanPicks` describes
of the slots passed, holds at the end because otherwise there would be a first turn after which it
fails (`CountsUp`). `ScansAgree` is `LoopMatchesScan` for `EmuFS`. So the predicate the model
uses, and every theorem above with it, stands on the loop of the code, for tables of any size.

`ManagerHandleIsFree` counts: `realFS` has at most `RealLimit` elements, and a subset of the
handles with fewer elements than there are handles leaves one out.

**DeviceMgr.** `TypeCorrect`, `ToldCorrect`, `OwnersCorrect`, `RemovalIsNoticed`, `LogCorrect`,
`ErrorsStick`, `HandlesAreListed`, `HandleAssertion`: every property of `DeviceMgrUsb`.

* `DeviceInv` adds to the properties: a mounted id is enabled; device 0 is the card and no other
  is; handles in use have drive ids; and while the thread is between `f_mount` and its
  end (`MountIsDue`) the device is enabled, not mounted, and has its handle. Most steps
  touch nothing of this (`Quiet`); `StepCases` says that every step is quiet or one of eight.
* `ListInv` is about the list: an answer names no drive twice (a map from n places onto
  n drives is one-to-one), and while it is worked in, the drives with handles are
  exactly those found before and those of the entries passed. `HandleIsFree` then is the pigeonhole
  principle: if all handles were in use they would have as many different drives
  as there are handles, all on the list, and the entry at hand one more.
* `LogCorrect` needs no assumption on the first value of `m_logEnabled`: it says of a log that
  the program enabled that it is on the mounted card.

**IPCLog.** `TypeCorrect`, `OneHook`, `LinkIsChannel`, `DeleteFollowsClose`, `GameIosIsReady`: every
safety property and the refinement.

* `HookIsSingle` is inductive given the types.
* `OrderInv`: the events sent are those handled, followed by those in the handler queue,
  followed by the one in a reply under way. `LinkIsChannel` follows: `NotifyDevice` is the channel's
  `Notify`, `Dequeue` its `Handle`, and every other step leaves `sent` and `handled` alone.
* `GameIosIsReady` needs `RequestInv` (main's requests are in the queue once, and only while
  main waits for them), `StartInv` (nothing starts before the start request, and services
  only after `SystemThreadEntry` has logged) and `CountInv`: the notices counted, with the one
  under way, are as many as the services that have notified. When the count
  reaches the number of services, all of them have.

**EmuDI.** `AcceptedReadsLieInOnePart`, `AcceptedReadsAreRight`, `TypeCorrect`, `ReadsCorrect`,
`TitleCorrect`, `SearchCorrect`, `DriveIsDisc`: every property of `Disc`.

* Whatever the sizes of the two files, the size check lets no read through that reaches from one
  into the other: so the loop over the files, which does not move its buffer (`ISO.cpp:129`), does
  not come to a second round.
* `ReadsCorrect` is arithmetic on blocks: the first block of a read, the full ones and the last give
  the words of the read in order, if the block that was kept is the one its key names.
* `TitleInv` says how far ES's statics are at each place of `OpenPartition`.
* `SearchCorrect`: the binary search is a recursive function on spans of the table, and every turn goes
  on in a smaller span, so it has results (`SearchEnds`). `SearchIsRight` goes by the size of the span: a search
  finds a patch of its span that holds the address, and each of the loop's two moves leaves
  out only patches that do not. An empty patch starts
  where the next one does, so the search may find either; the property allows both.
* `DriveIsDisc` has one hypothesis besides the assumptions on constants, which TLC evaluates in the
  `Disc` run. `ValidTables`: the patches of a table are in order and do not overlap, and lie behind
  the disc; the code says it is "Assuming patches are valid" (`EmuDI.cpp:416`). Patches may be any
  part of their files, and reads may start anywhere. What the drive gets wrong is excepted word by
  word (`Missed`, `StaleAt`), not by hypotheses. The tables taken stay valid (`TakenInv`); before the
  partition is open no reply gives words of it (`EarlyInv`); every word of a read of the disc is
  right or of the stale block (`PlaceIsRight`), and a read that is answered OK with all its words
  makes no address stale (`ReadKeepsStale`); the words of a read that the search takes from the
  patches are those of the table (`PatchedWordIsRight`); a read that aborts is no reply
  (`HaltStep`). Each action is then a step of `VirtualDisc` or a stutter (`NextSimulates`).

**SDCard.** `TypeCorrect`, `ServedCorrect`, `WritesCorrect`, `CardIsStore`, `FailuresHaveCauses`: every property of
`SdCard`.

* The invariant has four parts (`Placed`, `StartsOnce`, `Counting`, `Known`): from which request of
  a start on, and in which calls, what the driver remembers is about the card in the slot.
  They hold through every exchange because only a card with an address serves data.
* `CardIsStore` adds how far the call in progress is (`CallInv`), that a volume in use has a card it
  was started from (`StartedInv`), that what was moved is what this card holds (`MovedIsHeld`), and
  that every sector holds what the replies allow, or what the write in progress has put there
  (`HoldsKnown`). A chunk addresses the sectors that come next in the call (`Reached`), since the card
  counts as the driver believes; sectors of different cards have different numbers
  (`Distinct`), so one card's reply says nothing of another. Each way a call ends is then a step of
  `BlockStore` (`FinishStore`), and every other step a stutter (`NextStore`).
* `TypeCorrect` needs both: that a call moves no more than it was asked for is part of `CallInv`, and what is
  known of a sector stays among texts by `StoreInv`.
* `FailuresHaveCauses` is about runs in which nothing has failed and no card was taken out, with
  cards that are ready within the rounds `__sd0_initio` gives them (`MaxBusy < Tries`). `Smooth` says
  what each request of a start then finds: which requests the card's state lets it answer, from whatever
  state the volume before left it in, and how many rounds of ACMD41 are left against those the card
  still wants. So each request succeeds, a start ends in success, and a call leaves the card as the next one needs it.
  `QuietInv` is `Smooth` where nothing failed so far, and was checked by TLC before it was proved.

**USBStorage.** `TypeCorrect`, `StaysInStep`, `DriveIsStore`. The driver goes on after a failed
transfer as if nothing were left of it, so packets of many commands may be on their way. The
invariant (`Consistent`) says why the tag in the status is enough to tell them apart, as long as no
endpoint is stalled:

* `NewestIsLast`: behind the command with the newest tag come sectors only. `CommandIsLast`: while a
  command is transferred, the last command in the queue to the drive is this one, followed by just
  what the driver has sent for it; `WriteIsLast` says so of the write the drive has begun to take.
  So a write that is cut off, or filled up with another's sectors, is never one with the tag the
  driver waits for.
* `SuccessIsLast`: a success with the tag of the current command is the last packet the drive has
  for the host, the drive has nothing left to do, and the success is true. For a read this is
  said of the sectors before the status and in the driver's buffer together (`ReadIsThere`), since
  what is left of an old command comes first and moves the sectors: the driver may have taken
  old sectors for its own. Then the status is not where it is expected, and the read fails.
  `InStep` is what is left of this when the call has ended.
* `PendingAllowed`, `DiskAllowed`: whatever a write has in the queue, in the drive or in a sector is
  allowed by the replies, or is data of the call in progress. Hence a late write of a call that
  failed stores nothing the reply to that call did not announce, and a read that succeeds settles
  each sector, for by then nothing is left in the queues.

A step of the driver or of the drive then keeps `Consistent` and is a step of `BlockStore` or a stutter
(`StoreStep`), one lemma for each action (`SendCommandStep` to `DriveStep`). `ErrorForgotten` is
among the steps: the result does not lean on DeviceMgr's `error`.

**USBStorage, the search.** `SearchCorrect` is about runs in which nothing fails (`Easy`), and says nothing of the
others; its invariant `EasySearch` is implied where `faults # 0`, and every step keeps `faults` or
raises it (`FaultsStay`). `SearchInv` follows one command from host to drive and back: it is asked
(`Asked`), granted or refused (`Exchange`), and between two commands nothing is on its way. `UnitInv` is
the argument of `FindLun`: the units passed are no disks, and at a disk the attentions left and the
attempts made (`attention[lun] + try`) are together no more than `MaxAttentions`. A refused
TestUnitReady means that an attention is left; RequestSense takes one, and the attempt after it uses
one up, so the sum does not grow and the last attempt is never reached with a disk unfound.
`Consistent` gives the types.

**Recursion.** The induction theorems of the prover's library cannot be instantiated by the provers installed.
`Numbers` goes around this with least counterexamples: the order on `Nat` is well founded as a set
of pairs, so a set of numbers for which a claim fails, if not empty, has a least element, and the
step from smaller numbers refutes it.

**Model-checked only.** Of the properties of the passing runs, the five liveness properties
(`CardFollowsSlot`, `UsbIsUnmounted`, `BootCompletes`, `WaitsEnd`, `EventsHandled`): liveness under fairness
is out of the prover's reach. Every safety property and every refinement is proved.

## What is not modelled, and why

* *In modelled components.*
  EmuFS: the redirection of path strings, `ReadDir`'s packing, attributes, statistics and usage,
  which only answer. DeviceMgr: the content of the log.
  IPCLog: the launch of the IOS before `/dev/saoirse` is open, `SetTime`, debug reports, the format of
  lines, and the copy of the log on the card, with which a disk error is logged by the
  very thread that holds the log's mutex (`Log.cpp:94`).
  EmuDI: registers, covers and error words, which are answered without any state; ciphers and
  hashes; the names of patch files; `ReqClose` closing IOS's descriptor 0 (464-468).
  USBStorage: `USB.cpp`'s list of devices and its reading of descriptors, of which DeviceMgr has
  the outcome, and drives whose sectors are not 512 bytes long (`FatFS.cpp:66`).
  SDCard: the host controller's registers are requests that succeed or fail; byte addresses do
  not wrap, as on cards of up to 4 GB; errors of the status request of a start are taken as even, so that
  none of them reads as a card that is there (227); a call that is stuck in the driver while its
  card is unmounted and another is mounted and used is left out.
* *Not modelled yet* (the plan below): the clock, Riivolution's list, the apploader with its tasks,
  the module loader.
* *Left out for good*: FatFS, its table of Unicode names and LZMA are third-party, and are more
  than 24,000 of the repository's 39,000 lines: models see them by how the program
  uses them. The boot loader, the archive, the globals and the code patches are sequential
  writes to memory with no state of their own; the user interface is input and
  output; the wrappers of the operating systems are thin.

## Plan

Done: EmuFS with its scan, DeviceMgr, the control link, the disc drive with ES and the promise
of a virtual disc, the USB and SD drivers with the promise of a block store, and the proofs
listed above. Left, in order:

1. **Riivolution**: the list of files under insertions and removals, composed with EmuFS's
   direct handles, of which each insertion leaks two slots.
2. **Channel**: apploader, `TaskThread` and main's hand-over (`m_running` is cleared before the task's
   end), then the close of the link.
3. **Log on the card**, with FatFS's volume locks and the log's mutex, added to `IPCLog`.
4. **Clock** (`System.cpp`): the 32-bit timer's wrap in small width (166 adds what is missing to
   2^64; the comment at 173 says 32 minutes, and 174 passes microseconds).
5. `USB.cpp`'s **list of devices** between the bus and DeviceMgr, and the **loader**'s address checks.
