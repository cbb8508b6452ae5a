----------------------------- MODULE DeviceMgr -----------------------------
(***************************************************************************)
(* The storage device manager of the IOS module                            *)
(* (src/ios/Disk/DeviceMgr.cpp).                                           *)
(*                                                                         *)
(* One thread looks after the SD card and the USB drives.  It wakes up     *)
(* every 64 ms, or when /dev/usb/ven answers with the list of devices on   *)
(* the bus; it works that list into its USB handles (USBChange) and then   *)
(* mounts and unmounts volumes one device id after the other               *)
(* (UpdateHandle), telling the channel about each.  The steps below are    *)
(* the parts of one turn between which the thread may block: on the log,   *)
(* on a call to /dev/usb/ven, or on the channel.  In between, the other    *)
(* threads use the mounted volumes through FatFS; a disk call of theirs    *)
(* that fails marks the device with an error, at any time.                 *)
(*                                                                         *)
(* External: the card slot, the USB bus with what Attach and GetDeviceInfo *)
(* say of a device, and FatFS, of which only the table of registered       *)
(* volumes and the calls in progress count here.  f_mount with opt 0 and   *)
(* f_unmount cannot fail: the drive numbers are below FF_VOLUMES and       *)
(* FatFS.cpp's sync objects are always created and deleted.                *)
(*                                                                         *)
(* An operator named M_... is a variant, with a plausible mistake in it,   *)
(* of the definition it stands before; no action uses it (README.md).      *)
(***************************************************************************)
EXTENDS Integers, FiniteSets, Sequences

CONSTANTS
  DeviceCount,  \* device ids, of which the card has the first
  MaxUsb,       \* USB::MaxDevices, the size of m_usbDevices
  UsbIds,       \* USB devices there are, by the low half of their ids
  NoUsb,        \* no USB device's id
  Card,         \* what the disk of device 0 is, no USB device
  Faults        \* a subset of {"io", "late", "usb"}

Devices == 0 .. DeviceCount - 1
Handles == 0 .. MaxUsb - 1
NoDevice == DeviceCount   \* "Invalid" as the intId of a USB handle

ASSUME DeviceAssumption ==
  /\ DeviceCount \in Nat \ {0}
  /\ MaxUsb \in Nat \ {0}
  /\ Card \notin UsbIds /\ NoUsb \notin UsbIds
  /\ IsFiniteSet(UsbIds)

VARIABLES
  enabled, inserted, error, mounted,  \* DeviceHandle, per device id
  disk,       \* the card or the USB device behind a device id
  hInUse,     \* USBDeviceHandle: in use,
  hId,        \*   the device's id on the bus,
  hDev,       \*   and the device id it was given
  pc,         \* where the thread is
  turn,       \* the loop counter there
  list,       \* the device list /dev/usb/ven last answered with
  found,      \* foundMap: the devices of the list that have a handle already
  logEnabled, logDevice,
  logSet,     \* history: logEnabled is not a TRUE left over in the heap block
  logOpen,    \* m_logFile was opened on the volume mounted now
  volume,     \* FatFS has a file system object for the drive
  stale,      \* a FatFS call that was in progress at an unmount still is
  told,       \* what the channel was told last of a device id: it is there
  cardIn,     \* a card is in the slot
  bus         \* the USB devices that are plugged in

deviceVars == <<enabled, inserted, error, mounted, disk>>
usbVars == <<hInUse, hId, hDev>>
threadVars == <<pc, turn, list, found>>
logVars == <<logEnabled, logDevice, logSet, logOpen>>
fatVars == <<volume, stale>>
worldVars == <<cardIn, bus>>
vars == <<deviceVars, usbVars, threadVars, logVars, fatVars, told, worldVars>>

\* The devices of the list the thread works on, or worked on last.
Reported == {list[n] : n \in 1 .. Len(list)}

\* Device k's disk is the card, or the handle's device is k and still valid.
IsCard(k) == disk[k] = Card
Serves(h, k) == hInUse[h] /\ hDev[h] = k

-----------------------------------------------------------------------------
Init ==
  /\ enabled = [k \in Devices |-> k = 0]
  /\ inserted = [k \in Devices |-> FALSE]
  /\ error = [k \in Devices |-> FALSE]
  /\ mounted = [k \in Devices |-> FALSE]
  /\ disk = [k \in Devices |-> Card]  \* a std::variant starts as its first type
  /\ hInUse = [h \in Handles |-> FALSE]
  /\ hId = [h \in Handles |-> NoUsb]
  /\ hDev = [h \in Handles |-> NoDevice]
  /\ pc = "wait" /\ turn = 0 /\ list = <<>> /\ found = {}
  \* The constructor leaves m_logEnabled and m_logDevice as the heap block has them.
  \* Nothing here reads logDevice before it is assigned, so that one value does.
  /\ logEnabled \in BOOLEAN /\ logSet = ~logEnabled
  /\ logDevice = NoDevice /\ logOpen = FALSE
  /\ volume = [k \in Devices |-> FALSE]
  /\ stale = [k \in Devices |-> FALSE]
  /\ told = [k \in Devices |-> FALSE]
  /\ cardIn \in BOOLEAN
  /\ bus \in SUBSET UsbIds

-----------------------------------------------------------------------------
(* Run: a message on m_timerQueue starts a turn.                             *)

\* The 64 ms timer, or ForceUpdate.
Timer ==
  /\ pc = "wait"
  /\ pc' = "update" /\ turn' = 0
  /\ UNCHANGED <<deviceVars, usbVars, list, found, logVars, fatVars, told, worldVars>>

\* GetDeviceChange answers: the devices on the bus, in any order, are not those
\* it answered with before.
UsbReply ==
  /\ pc = "wait"
  /\ bus # Reported /\ Cardinality(bus) <= MaxUsb
  /\ \E answer \in [1 .. Cardinality(bus) -> bus] :
       /\ {answer[n] : n \in DOMAIN answer} = bus
       /\ list' = answer
  /\ pc' = "scan"
  /\ UNCHANGED <<deviceVars, usbVars, turn, found, logVars, fatVars, told, worldVars>>

\* It answers with an error (a count above MaxDevices), or cannot be asked again.
USBFatal ==
  /\ "usb" \in Faults
  /\ pc = "wait"
  /\ pc' = "stopped"
  /\ UNCHANGED <<deviceVars, usbVars, turn, list, found, logVars, fatVars, told, worldVars>>

-----------------------------------------------------------------------------
(* USBChange.                                                                *)

\* The handle of a device that is not on the list any more.
M_GoneKnown(h) == hInUse[h] /\ hId[h] \notin Reported /\ hDev[h] # NoDevice
Gone(h) == hInUse[h] /\ hId[h] \notin Reported

\* The handle's device id is invalidated because the device is in error.  (The
\* removal below still uses the id as it was before.)
Errored(h) == hInUse[h] /\ hDev[h] \in Devices /\ error[hDev[h]]

\* The devices of the list that a handle is in use for.
M_Found == {h \in Handles : hInUse[h] /\ ~Gone(h)}
Found == {hId[h] : h \in {g \in Handles : hInUse[g] /\ ~Gone(g)}}

M_StillInserted(k) == inserted[k]
StillInserted(k) == inserted[k] /\ ~\E h \in Handles : Gone(h) /\ hDev[h] = k

\* "Scan for device changes".  The turns of the loop are about handles of
\* different devices and commute with what other threads do in between.
ScanHandles ==
  /\ pc = "scan"
  /\ hInUse' = [h \in Handles |-> hInUse[h] /\ ~Gone(h)]
  /\ hDev' = [h \in Handles |-> IF Errored(h) THEN NoDevice ELSE hDev[h]]
  /\ inserted' = [k \in Devices |-> StillInserted(k)]
  /\ found' = Found
  /\ pc' = "attach" /\ turn' = 1
  /\ UNCHANGED <<enabled, error, mounted, disk, hId, list, logVars, fatVars, told, worldVars>>

FirstFreeHandle(h) == ~hInUse[h] /\ \A g \in Handles : g < h => hInUse[g]

\* The first device id that is not enabled.
M_FreeDevice(k) == ~inserted[k] /\ \A j \in Devices : j < k => inserted[j]
M_FreeDeviceUnmounted(k) == ~mounted[k] /\ \A j \in Devices : j < k => mounted[j]
FreeDevice(k) == ~enabled[k] /\ \A j \in Devices : j < k => enabled[j]

AttachNext(u) == pc = "attach" /\ turn <= Len(list) /\ u = list[turn]

\* An entry of the list that has a handle.
SkipKnown(u) ==
  /\ AttachNext(u) /\ u \in found
  /\ turn' = turn + 1
  /\ UNCHANGED <<deviceVars, usbVars, pc, list, found, logVars, fatVars, told, worldVars>>

\* The handle a new entry takes whatever comes of the device.  (An assertion says
\* that there is one.)
TakeHandle(h, u, k) ==
  /\ FirstFreeHandle(h)
  /\ hInUse' = [hInUse EXCEPT ![h] = TRUE]
  /\ hId' = [hId EXCEPT ![h] = u]
  /\ hDev' = [hDev EXCEPT ![h] = k]

\* The device cannot be attached, has no information, is no mass storage, or no
\* device id is free.
AttachUseless(u, h) ==
  /\ AttachNext(u) /\ u \notin found
  /\ TakeHandle(h, u, NoDevice)
  /\ turn' = turn + 1
  /\ UNCHANGED <<deviceVars, pc, list, found, logVars, fatVars, told, worldVars>>

AttachStorage(u, h, k) ==
  /\ AttachNext(u) /\ u \notin found
  /\ FreeDevice(k)
  /\ TakeHandle(h, u, k)
  /\ disk' = [disk EXCEPT ![k] = u]
  /\ inserted' = [inserted EXCEPT ![k] = TRUE]
  /\ error' = [error EXCEPT ![k] = FALSE]
  /\ mounted' = [mounted EXCEPT ![k] = FALSE]
  /\ enabled' = [enabled EXCEPT ![k] = TRUE]
  /\ turn' = turn + 1
  /\ UNCHANGED <<pc, list, found, logVars, fatVars, told, worldVars>>

\* The whole list is worked in, and the next change is asked for.
UsbDone ==
  /\ pc = "attach" /\ turn > Len(list)
  /\ pc' = "update" /\ turn' = 0 /\ found' = {}
  /\ UNCHANGED <<deviceVars, usbVars, list, logVars, fatVars, told, worldVars>>

-----------------------------------------------------------------------------
(* UpdateHandle, for one device id after the other.                          *)

Updating(k) == pc = "update" /\ k = turn

\* The card's presence is read from the slot; an ejected device has no error.
M_InsertedOnce(k) == inserted[k]
InsertedNow(k) == IF IsCard(k) THEN cardIn ELSE inserted[k]
M_ErrorNow(k) == FALSE
ErrorNow(k) == InsertedNow(k) /\ error[k]

Advance == turn' = turn + 1 /\ pc' = pc

UpdateDisabled(k) ==
  /\ Updating(k) /\ ~enabled[k]
  /\ Advance
  /\ UNCHANGED <<deviceVars, usbVars, list, found, logVars, fatVars, told, worldVars>>

\* Nothing to mount or to unmount.
UpdateOnly(k) ==
  /\ Updating(k) /\ enabled[k]
  /\ InsertedNow(k) = mounted[k] \/ ErrorNow(k)
  /\ inserted' = [inserted EXCEPT ![k] = InsertedNow(k)]
  /\ error' = [error EXCEPT ![k] = ErrorNow(k)]
  /\ Advance
  /\ UNCHANGED <<enabled, mounted, disk, usbVars, list, found, logVars, fatVars, told, worldVars>>

\* The log file goes with the card.
M_CloseLog(k) == UNCHANGED <<logEnabled, logDevice, logSet>>
CloseLog(k) ==
  IF logEnabled /\ IsCard(k)
    THEN logEnabled' = FALSE /\ logDevice' = NoDevice /\ logSet' = TRUE
    ELSE UNCHANGED <<logEnabled, logDevice, logSet>>

\* A USB device gives its device id back.
Release(k) == enabled' = [enabled EXCEPT ![k] = IsCard(k)]

Unmount(k) ==
  /\ Updating(k) /\ enabled[k]
  /\ ~InsertedNow(k) /\ mounted[k]
  /\ inserted' = [inserted EXCEPT ![k] = FALSE]
  /\ error' = [error EXCEPT ![k] = FALSE]
  /\ mounted' = [mounted EXCEPT ![k] = FALSE]
  /\ CloseLog(k)
  /\ logOpen' = (logOpen /\ ~IsCard(k))
  \* f_unmount does not wait for a call in progress on another thread.
  /\ volume' = [volume EXCEPT ![k] = FALSE]
  /\ \/ "late" \in Faults /\ stale' = [stale EXCEPT ![k] = TRUE]
     \/ UNCHANGED stale
  /\ Release(k)
  /\ told' = [told EXCEPT ![k] = FALSE]   \* NotifyDeviceRemoval
  /\ Advance
  /\ UNCHANGED <<disk, usbVars, list, found, worldVars>>

\* f_mount registers the file system: other threads may use it from here on.
Mount(k) ==
  /\ Updating(k) /\ enabled[k]
  /\ InsertedNow(k) /\ ~mounted[k] /\ ~error[k]
  /\ inserted' = [inserted EXCEPT ![k] = TRUE]
  /\ volume' = [volume EXCEPT ![k] = TRUE]
  /\ pc' = "mount"
  /\ UNCHANGED <<enabled, error, mounted, disk, usbVars, turn, list, found, logVars,
                 stale, told, worldVars>>

\* The log file is opened on the card, or cannot be.
OpenLog(k) ==
  IF ~logEnabled /\ IsCard(k)
    THEN /\ logDevice' = k
         /\ \E opened \in BOOLEAN :
              logOpen' = opened /\ logEnabled' = opened /\ logSet' = (logSet \/ opened)
    ELSE UNCHANGED logVars

MountDone(k) ==
  /\ pc = "mount" /\ k = turn
  /\ mounted' = [mounted EXCEPT ![k] = TRUE]
  /\ error' = [error EXCEPT ![k] = FALSE]
  /\ OpenLog(k)
  /\ told' = [told EXCEPT ![k] = TRUE]    \* NotifyDeviceInsertion
  /\ pc' = "update" /\ turn' = turn + 1
  /\ UNCHANGED <<enabled, inserted, disk, usbVars, list, found, fatVars, worldVars>>

UpdateDone ==
  /\ pc = "update" /\ turn = DeviceCount
  /\ pc' = "wait" /\ turn' = 0
  /\ UNCHANGED <<deviceVars, usbVars, list, found, logVars, fatVars, told, worldVars>>

-----------------------------------------------------------------------------
(* The other threads call FatFS, which reads and writes the disks, whenever a *)
(* volume is registered.                                                     *)

\* DeviceInit, DeviceRead, DeviceWrite or DeviceSync fails and marks the device,
\* which was enabled and without error when the function was entered.
DiskCallFails(k) ==
  /\ "io" \in Faults
  /\ volume[k] \/ stale[k]
  /\ error' = [error EXCEPT ![k] = TRUE]
  /\ UNCHANGED <<enabled, inserted, mounted, disk, usbVars, threadVars, logVars, fatVars,
                 told, worldVars>>

\* A call whose volume was unmounted under it comes to its end.
StaleCallEnds(k) ==
  /\ stale[k]
  /\ stale' = [stale EXCEPT ![k] = FALSE]
  /\ UNCHANGED <<deviceVars, usbVars, threadVars, logVars, volume, told, worldVars>>

(* The user.                                                                 *)

MoveCard ==
  /\ cardIn' = ~cardIn
  /\ UNCHANGED <<deviceVars, usbVars, threadVars, logVars, fatVars, told, bus>>

MoveUsb(u) ==
  /\ bus' = IF u \in bus THEN bus \ {u} ELSE bus \cup {u}
  /\ UNCHANGED <<deviceVars, usbVars, threadVars, logVars, fatVars, told, cardIn>>

-----------------------------------------------------------------------------
UsbChange ==
  \/ ScanHandles
  \/ \E u \in UsbIds : SkipKnown(u)
  \/ \E u \in UsbIds, h \in Handles : AttachUseless(u, h)
  \/ \E u \in UsbIds, h \in Handles, k \in Devices : AttachStorage(u, h, k)
  \/ UsbDone

UpdateHandle ==
  \/ \E k \in Devices : UpdateDisabled(k) \/ UpdateOnly(k)
  \/ \E k \in Devices : Unmount(k) \/ Mount(k) \/ MountDone(k)
  \/ UpdateDone

Run == Timer \/ UsbReply \/ USBFatal \/ UsbChange \/ UpdateHandle

OtherThreads == \E k \in Devices : DiskCallFails(k) \/ StaleCallEnds(k)

User == MoveCard \/ \E u \in UsbIds : MoveUsb(u)

Next == Run \/ OtherThreads \/ User

Spec == Init /\ [][Next]_vars

\* The timer repeats for good and the queue is first in, first out, so an answer
\* of /dev/usb/ven is not passed over for ever; the thread's turns end because
\* the channel, the log and the bus answer.
LiveSpec == Spec /\ WF_vars(Run) /\ SF_vars(UsbReply)

-----------------------------------------------------------------------------
(* Properties.                                                               *)

\* Every variable stays in its range.
TypeOK ==
  /\ enabled \in [Devices -> BOOLEAN]
  /\ inserted \in [Devices -> BOOLEAN]
  /\ error \in [Devices -> BOOLEAN]
  /\ mounted \in [Devices -> BOOLEAN]
  /\ disk \in [Devices -> UsbIds \cup {Card}]
  /\ hInUse \in [Handles -> BOOLEAN]
  /\ hId \in [Handles -> UsbIds \cup {NoUsb}]
  /\ hDev \in [Handles -> Devices \cup {NoDevice}]
  /\ pc \in {"wait", "scan", "attach", "update", "mount", "stopped"}
  /\ turn \in Nat
  /\ list \in Seq(UsbIds)
  /\ found \in SUBSET UsbIds
  /\ logEnabled \in BOOLEAN
  /\ logDevice \in Devices \cup {NoDevice}
  /\ logSet \in BOOLEAN
  /\ logOpen \in BOOLEAN
  /\ volume \in [Devices -> BOOLEAN]
  /\ stale \in [Devices -> BOOLEAN]
  /\ told \in [Devices -> BOOLEAN]
  /\ cardIn \in BOOLEAN
  /\ bus \in SUBSET UsbIds

\* What the channel was told last of each device id is what is mounted there: an
\* id that is given to another device was unmounted, and the channel told, before.
ToldIsMounted == \A k \in Devices : told[k] = mounted[k]

\* Once a list is worked in, there is exactly one handle for each device on it.
HandlesMatchList ==
  pc \in {"wait", "update", "mount"} =>
    /\ {hId[h] : h \in {g \in Handles : hInUse[g]}} = Reported
    /\ \A g, h \in Handles : hInUse[g] /\ hInUse[h] /\ hId[g] = hId[h] => g = h

\* A handle's device id stands for that very device, and for no other handle's.
HandleOwnsDevice ==
  \A h \in Handles, k \in Devices : Serves(h, k) =>
    /\ enabled[k] /\ inserted[k] /\ disk[k] = hId[h]
    /\ \A g \in Handles : Serves(g, k) => g = h

\* A USB device that is served has a handle, so that its removal will be noticed;
\* the handle is lost only to an error.
ServedHasHandle ==
  \A k \in Devices : enabled[k] /\ ~IsCard(k) /\ inserted[k] /\ ~error[k] =>
    \E h \in Handles : Serves(h, k)

\* assert(j < USB::MaxDevices): a device that is new on the list finds a free
\* handle, also when all of them were in use before the change.
HandleIsFree ==
  \A u \in UsbIds : AttachNext(u) /\ u \notin found => \E h \in Handles : ~hInUse[h]

\* The log is written only to a file that was opened on the volume mounted now, unless
\* m_logEnabled is still the TRUE the heap block happened to hold: nothing in the
\* constructor assigns it, and nothing does until the card is unmounted then.
LogIsOnCard ==
  logEnabled /\ logSet =>
    logOpen /\ logDevice \in Devices /\ IsCard(logDevice) /\ mounted[logDevice]

\* A device's error is forgotten only when the device is gone, when its id goes
\* to another, or when it came up while the device was being mounted.
ErrorSticks ==
  [][\A k \in Devices : error[k] /\ ~error'[k] =>
       ~inserted'[k] \/ ~enabled[k] \/ (pc = "mount" /\ turn = k)]_vars

\* A card that stays in the slot and works is mounted in the end, and one that
\* stays out is unmounted.
CardFollowsSlot ==
  /\ <>[](cardIn /\ ~error[0]) => <>[]mounted[0]
  /\ <>[]~cardIn => <>[]~mounted[0]

\* A USB device that stays unplugged is unmounted in the end, unless an error
\* has cost it its handle.
UsbIsUnmounted ==
  \A u \in UsbIds : <>[](u \notin bus) =>
    <>[](\A k \in Devices : disk[k] = u /\ mounted[k] => error[k])

=============================================================================
