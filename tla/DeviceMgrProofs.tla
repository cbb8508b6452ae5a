-------------------------- MODULE DeviceMgrProofs --------------------------
(***************************************************************************)
(* Proofs about DeviceMgr, for every number of device ids and USB handles, *)
(* every set of USB devices and every choice of faults.                    *)
(*                                                                         *)
(* There are two inductive invariants.  DeviceInv relates what is mounted, *)
(* what the channel was told and who owns a device id; ListInv relates the *)
(* handles in use to the list of devices on the bus.  Each of their parts  *)
(* has a lemma of its own.                                                 *)
(***************************************************************************)
EXTENDS DeviceMgr, FiniteSetTheorems, TLAPS

(* Types.                                                                    *)

\* The state the constructor leaves is in the ranges of TypeOK.
LEMMA TypeInit == Init => TypeOK
<1> SUFFICES ASSUME Init PROVE TypeOK
  OBVIOUS
<1>1. 0 \in Devices
  BY DeviceAssumption DEF Devices
<1>2. list \in Seq(UsbIds) /\ bus \in SUBSET UsbIds /\ cardIn \in BOOLEAN
  BY DEF Init
<1>3. logEnabled \in BOOLEAN /\ logDevice \in Devices \cup {NoDevice}
  BY DEF Init
<1>4. /\ enabled \in [Devices -> BOOLEAN] /\ disk \in [Devices -> UsbIds \cup {Card}]
      /\ inserted \in [Devices -> BOOLEAN] /\ error \in [Devices -> BOOLEAN]
      /\ mounted \in [Devices -> BOOLEAN] /\ volume \in [Devices -> BOOLEAN]
      /\ stale \in [Devices -> BOOLEAN] /\ told \in [Devices -> BOOLEAN]
  BY DEF Init
<1> QED BY <1>1, <1>2, <1>3, <1>4 DEF Init, TypeOK

\* Which devices are mounted, and what of it the channel knows.
MountTypeOK ==
  /\ enabled \in [Devices -> BOOLEAN]
  /\ inserted \in [Devices -> BOOLEAN]
  /\ error \in [Devices -> BOOLEAN]
  /\ mounted \in [Devices -> BOOLEAN]
  /\ volume \in [Devices -> BOOLEAN]
  /\ stale \in [Devices -> BOOLEAN]
  /\ told \in [Devices -> BOOLEAN]
  /\ disk \in [Devices -> UsbIds \cup {Card}]

UsbTypeOK ==
  /\ hInUse \in [Handles -> BOOLEAN]
  /\ hId \in [Handles -> UsbIds \cup {NoUsb}]
  /\ hDev \in [Handles -> Devices \cup {NoDevice}]

LogTypeOK ==
  /\ logEnabled \in BOOLEAN
  /\ logDevice \in Devices \cup {NoDevice}
  /\ logSet \in BOOLEAN
  /\ logOpen \in BOOLEAN

RestTypeOK ==
  /\ pc \in {"wait", "scan", "attach", "update", "mount", "stopped"}
  /\ turn \in Nat
  /\ list \in Seq(UsbIds)
  /\ found \in SUBSET UsbIds
  /\ cardIn \in BOOLEAN
  /\ bus \in SUBSET UsbIds

\* What is made of the flags of a device is a Boolean again.
LEMMA StillInsertedType ==
  ASSUME MountTypeOK, NEW k \in Devices
  PROVE  StillInserted(k) \in BOOLEAN
BY DEF MountTypeOK, StillInserted

\* The card's presence or the flag.
LEMMA InsertedNowType ==
  ASSUME MountTypeOK, cardIn \in BOOLEAN, NEW k \in Devices
  PROVE  InsertedNow(k) \in BOOLEAN
<1>1. inserted[k] \in BOOLEAN
  BY DEF MountTypeOK
<1>2. InsertedNow(k) = cardIn \/ InsertedNow(k) = inserted[k]
  BY DEF InsertedNow
<1> QED BY <1>1, <1>2

\* The error of a device that is there.
LEMMA ErrorNowType ==
  ASSUME MountTypeOK, cardIn \in BOOLEAN, NEW k \in Devices
  PROVE  ErrorNow(k) \in BOOLEAN
BY DEF ErrorNow

\* No turn of the thread, no disk call and no change of the devices takes a
\* variable out of its range.
LEMMA TypeStep == TypeOK /\ [Next]_vars => TypeOK'
<1> SUFFICES ASSUME MountTypeOK, UsbTypeOK, LogTypeOK, RestTypeOK, [Next]_vars
             PROVE  MountTypeOK' /\ UsbTypeOK' /\ LogTypeOK' /\ RestTypeOK'
  BY DEF TypeOK, MountTypeOK, UsbTypeOK, LogTypeOK, RestTypeOK
<1> USE DEF deviceVars, usbVars, threadVars, logVars, fatVars, worldVars
<1>1. CASE Timer \/ USBFatal \/ UpdateDone \/ UsbDone
  BY <1>1 DEF Timer, USBFatal, UpdateDone, UsbDone, MountTypeOK, UsbTypeOK, LogTypeOK, RestTypeOK
<1>2. CASE UsbReply
  <2>1. list' \in Seq(UsbIds)
    <3>1. bus \in SUBSET UsbIds /\ Cardinality(bus) \in Nat
      BY DeviceAssumption, FS_Subset, FS_CardinalityType DEF RestTypeOK
    <3> QED BY <1>2, <3>1 DEF UsbReply
  <2> QED BY <1>2, <2>1 DEF UsbReply, MountTypeOK, UsbTypeOK, LogTypeOK, RestTypeOK
<1>3. CASE ScanHandles
  <2>1. UsbTypeOK'
    BY <1>3 DEF ScanHandles, UsbTypeOK, Gone
  <2>2. inserted' \in [Devices -> BOOLEAN]
    BY <1>3, StillInsertedType DEF ScanHandles
  <2>3. found' \in SUBSET UsbIds
    BY <1>3 DEF ScanHandles, Found, Gone, Reported, UsbTypeOK, RestTypeOK
  <2> QED BY <1>3, <2>1, <2>2, <2>3 DEF ScanHandles, MountTypeOK, LogTypeOK, RestTypeOK
<1>4. ASSUME NEW u \in UsbIds, SkipKnown(u)
      PROVE  MountTypeOK' /\ UsbTypeOK' /\ LogTypeOK' /\ RestTypeOK'
  BY <1>4 DEF SkipKnown, AttachNext, MountTypeOK, UsbTypeOK, LogTypeOK, RestTypeOK
<1>5. ASSUME NEW u \in UsbIds, NEW h \in Handles, AttachUseless(u, h)
      PROVE  MountTypeOK' /\ UsbTypeOK' /\ LogTypeOK' /\ RestTypeOK'
  BY <1>5 DEF AttachUseless, TakeHandle, MountTypeOK, UsbTypeOK, LogTypeOK, RestTypeOK
<1>6. ASSUME NEW u \in UsbIds, NEW h \in Handles, NEW k \in Devices, AttachStorage(u, h, k)
      PROVE  MountTypeOK' /\ UsbTypeOK' /\ LogTypeOK' /\ RestTypeOK'
  BY <1>6 DEF AttachStorage, TakeHandle, MountTypeOK, UsbTypeOK, LogTypeOK, RestTypeOK
<1>7. ASSUME NEW k \in Devices, UpdateDisabled(k)
      PROVE  MountTypeOK' /\ UsbTypeOK' /\ LogTypeOK' /\ RestTypeOK'
  BY <1>7 DEF UpdateDisabled, Advance, MountTypeOK, UsbTypeOK, LogTypeOK, RestTypeOK
<1>8. ASSUME NEW k \in Devices, UpdateOnly(k)
      PROVE  MountTypeOK' /\ UsbTypeOK' /\ LogTypeOK' /\ RestTypeOK'
  <2>1. InsertedNow(k) \in BOOLEAN /\ ErrorNow(k) \in BOOLEAN
    BY InsertedNowType, ErrorNowType DEF RestTypeOK
  <2> QED BY <1>8, <2>1 DEF UpdateOnly, Advance, MountTypeOK, UsbTypeOK, LogTypeOK, RestTypeOK
<1>9. ASSUME NEW k \in Devices, Unmount(k)
      PROVE  MountTypeOK' /\ UsbTypeOK' /\ LogTypeOK' /\ RestTypeOK'
  <2>1. IsCard(k) \in BOOLEAN
    BY DEF IsCard
  <2>2. MountTypeOK'
    BY <1>9, <2>1 DEF Unmount, Release, MountTypeOK
  <2>3. LogTypeOK'
    BY <1>9, <2>1 DEF Unmount, CloseLog, LogTypeOK
  <2> QED BY <1>9, <2>2, <2>3 DEF Unmount, Advance, UsbTypeOK, RestTypeOK
<1>10. ASSUME NEW k \in Devices, Mount(k)
       PROVE  MountTypeOK' /\ UsbTypeOK' /\ LogTypeOK' /\ RestTypeOK'
  BY <1>10 DEF Mount, MountTypeOK, UsbTypeOK, LogTypeOK, RestTypeOK
<1>11. ASSUME NEW k \in Devices, MountDone(k)
       PROVE  MountTypeOK' /\ UsbTypeOK' /\ LogTypeOK' /\ RestTypeOK'
  <2>1. LogTypeOK'
    BY <1>11 DEF MountDone, OpenLog, LogTypeOK
  <2> QED BY <1>11, <2>1 DEF MountDone, MountTypeOK, UsbTypeOK, RestTypeOK
<1>12. ASSUME NEW k \in Devices, DiskCallFails(k) \/ StaleCallEnds(k)
       PROVE  MountTypeOK' /\ UsbTypeOK' /\ LogTypeOK' /\ RestTypeOK'
  BY <1>12 DEF DiskCallFails, StaleCallEnds, MountTypeOK, UsbTypeOK, LogTypeOK, RestTypeOK
<1>13. CASE User
  <2>1. cardIn' \in BOOLEAN /\ bus' \in SUBSET UsbIds
    BY <1>13 DEF User, MoveCard, MoveUsb, RestTypeOK
  <2> QED BY <1>13, <2>1 DEF User, MoveCard, MoveUsb, MountTypeOK, UsbTypeOK, LogTypeOK, RestTypeOK
<1>14. CASE UNCHANGED vars
  BY <1>14 DEF vars, MountTypeOK, UsbTypeOK, LogTypeOK, RestTypeOK
<1> QED
  BY <1>1, <1>2, <1>3, <1>4, <1>5, <1>6, <1>7, <1>8, <1>9, <1>10, <1>11, <1>12, <1>13, <1>14
  DEF Next, Run, UsbChange, UpdateHandle, OtherThreads

\* Every variable stays in its range.
THEOREM TypeCorrect == Spec => []TypeOK
BY TypeInit, TypeStep, PTL DEF Spec

-----------------------------------------------------------------------------
(* Devices and handles.  HandleOwnsDevice and ServedHasHandle need to know    *)
(* that the card is device 0 only, that a handle in use names a USB device,   *)
(* and that a mount under way still has a device to mount.                   *)

MountedIsEnabled == \A k \in Devices : mounted[k] => enabled[k]

CardIsFirst == enabled[0] /\ \A k \in Devices : enabled[k] => (IsCard(k) <=> k = 0)

HandlesHaveIds == \A h \in Handles : hInUse[h] => hId[h] \in UsbIds

MountIsDue ==
  pc = "mount" =>
    /\ turn \in Devices /\ enabled[turn] /\ ~mounted[turn]
    /\ IsCard(turn) \/ \E h \in Handles : Serves(h, turn)

DeviceInv ==
  /\ TypeOK
  /\ ToldIsMounted /\ MountedIsEnabled
  /\ CardIsFirst /\ HandlesHaveIds
  /\ HandleOwnsDevice /\ ServedHasHandle /\ MountIsDue

\* At the start nothing is mounted, no handle is in use, and every disk is the card.
LEMMA DeviceInit == Init => DeviceInv
<1> SUFFICES ASSUME Init PROVE DeviceInv
  OBVIOUS
<1>1. TypeOK
  BY TypeInit
<1>2. 0 \in Devices
  BY DeviceAssumption DEF Devices
<1>3. ToldIsMounted /\ MountedIsEnabled /\ HandlesHaveIds /\ MountIsDue
  BY DEF Init, ToldIsMounted, MountedIsEnabled, HandlesHaveIds, MountIsDue
<1>4. CardIsFirst
  BY <1>2 DEF Init, CardIsFirst, IsCard
<1>5. HandleOwnsDevice /\ ServedHasHandle
  BY DEF Init, HandleOwnsDevice, ServedHasHandle, Serves, IsCard
<1> QED BY <1>1, <1>3, <1>4, <1>5 DEF DeviceInv

\* The steps that change a device, a handle, the log or what the channel knows.
Quiet ==
  /\ UNCHANGED <<deviceVars, usbVars, logVars, told>>
  /\ pc' = "mount" => pc = "mount" /\ turn' = turn

\* Every step is quiet or one of eight.
LEMMA StepCases ==
  ASSUME [Next]_vars
  PROVE  \/ Quiet \/ ScanHandles
         \/ \E u \in UsbIds, h \in Handles : AttachUseless(u, h)
         \/ \E u \in UsbIds, h \in Handles, k \in Devices : AttachStorage(u, h, k)
         \/ \E k \in Devices : UpdateOnly(k)
         \/ \E k \in Devices : Unmount(k)
         \/ \E k \in Devices : Mount(k)
         \/ \E k \in Devices : MountDone(k)
         \/ \E k \in Devices : DiskCallFails(k)
<1>1. CASE Timer \/ UsbReply \/ USBFatal \/ UsbDone \/ UpdateDone
  BY <1>1 DEF Timer, UsbReply, USBFatal, UsbDone, UpdateDone, Quiet
<1>2. ASSUME NEW u \in UsbIds, SkipKnown(u)
      PROVE  Quiet
  BY <1>2 DEF SkipKnown, AttachNext, Quiet
<1>3. ASSUME NEW k \in Devices, UpdateDisabled(k)
      PROVE  Quiet
  BY <1>3 DEF UpdateDisabled, Updating, Advance, Quiet
<1>4. ASSUME NEW k \in Devices, StaleCallEnds(k)
      PROVE  Quiet
  BY <1>4 DEF StaleCallEnds, threadVars, Quiet
<1>5. CASE User
  BY <1>5 DEF User, MoveCard, MoveUsb, threadVars, Quiet
<1>6. CASE UNCHANGED vars
  BY <1>6 DEF vars, threadVars, Quiet
<1> QED BY <1>1, <1>2, <1>3, <1>4, <1>5, <1>6 DEF Next, Run, UsbChange, UpdateHandle, OtherThreads

\* Mounting and telling go together, and only an unmount frees a device id.
LEMMA MountStep ==
  ASSUME DeviceInv, [Next]_vars
  PROVE  ToldIsMounted' /\ MountedIsEnabled'
<1> USE DEF DeviceInv, TypeOK, ToldIsMounted, MountedIsEnabled
<1>1. ASSUME NEW u \in UsbIds, NEW h \in Handles, NEW k \in Devices, AttachStorage(u, h, k)
      PROVE  ToldIsMounted' /\ MountedIsEnabled'
  BY <1>1 DEF AttachStorage, FreeDevice
<1>2. ASSUME NEW k \in Devices, Unmount(k)
      PROVE  ToldIsMounted' /\ MountedIsEnabled'
  BY <1>2 DEF Unmount, Release
<1>3. ASSUME NEW k \in Devices, MountDone(k)
      PROVE  ToldIsMounted' /\ MountedIsEnabled'
  BY <1>3 DEF MountDone, MountIsDue
<1>4. CASE UNCHANGED <<enabled, mounted, told>>
  BY <1>4
<1> QED
  BY <1>1, <1>2, <1>3, <1>4, StepCases
  DEF Quiet, deviceVars, ScanHandles, AttachUseless, UpdateOnly, Mount, DiskCallFails

\* The card keeps device 0, and a USB device never gets it.
LEMMA CardStep ==
  ASSUME DeviceInv, [Next]_vars
  PROVE  CardIsFirst' /\ HandlesHaveIds'
<1> USE DEF DeviceInv, TypeOK, CardIsFirst, HandlesHaveIds, IsCard
<1>1. ASSUME NEW u \in UsbIds, NEW h \in Handles, NEW k \in Devices, AttachStorage(u, h, k)
      PROVE  CardIsFirst' /\ HandlesHaveIds'
  <2>1. u # Card /\ 0 \in Devices
    BY DeviceAssumption DEF Devices
  <2>2. CardIsFirst'
    BY <1>1, <2>1 DEF AttachStorage, FreeDevice
  <2> QED BY <1>1, <2>2 DEF AttachStorage, TakeHandle
<1>2. ASSUME NEW u \in UsbIds, NEW h \in Handles, AttachUseless(u, h)
      PROVE  CardIsFirst' /\ HandlesHaveIds'
  BY <1>2 DEF AttachUseless, TakeHandle, deviceVars
<1>3. ASSUME NEW k \in Devices, Unmount(k)
      PROVE  CardIsFirst' /\ HandlesHaveIds'
  <2>1. 0 \in Devices
    BY DeviceAssumption DEF Devices
  <2> QED BY <1>3, <2>1 DEF Unmount, Release, usbVars
<1>4. CASE ScanHandles
  BY <1>4 DEF ScanHandles
<1>5. CASE UNCHANGED <<enabled, disk, usbVars>>
  BY <1>5 DEF usbVars
<1> QED
  BY <1>1, <1>2, <1>3, <1>4, <1>5, StepCases
  DEF Quiet, deviceVars, UpdateOnly, Mount, MountDone, DiskCallFails

\* A device id passes from handle to handle only through a removal.
LEMMA OwnerStep ==
  ASSUME DeviceInv, [Next]_vars
  PROVE  HandleOwnsDevice'
<1> USE DEF DeviceInv, TypeOK, HandleOwnsDevice, Serves
<1>0. ASSUME NEW h \in Handles
      PROVE  ~Serves(h, 0)
  BY <1>0, DeviceAssumption DEF Devices, CardIsFirst, HandlesHaveIds, IsCard
<1>1. CASE ScanHandles
  <2> SUFFICES ASSUME NEW h \in Handles, NEW k \in Devices, Serves(h, k)'
               PROVE  /\ enabled'[k] /\ inserted'[k] /\ disk'[k] = hId'[h]
                      /\ \A g \in Handles : Serves(g, k)' => g = h
    OBVIOUS
  <2>1. NoDevice \notin Devices
    BY DeviceAssumption DEF NoDevice, Devices
  <2>2. ASSUME NEW g \in Handles, Serves(g, k)'
        PROVE  Serves(g, k) /\ ~Gone(g)
    BY <1>1, <2>1, <2>2 DEF ScanHandles
  <2>3. Serves(h, k) /\ ~Gone(h)
    BY <2>2
  <2>4. ASSUME NEW g \in Handles, Gone(g), hDev[g] = k
        PROVE  FALSE
    BY <2>3, <2>4 DEF Gone
  <2>5. StillInserted(k)
    BY <2>3, <2>4 DEF StillInserted
  <2> QED BY <1>1, <2>2, <2>3, <2>5 DEF ScanHandles
<1>2. ASSUME NEW u \in UsbIds, NEW h \in Handles, AttachUseless(u, h)
      PROVE  HandleOwnsDevice'
  <2>1. NoDevice \notin Devices
    BY DeviceAssumption DEF NoDevice, Devices
  <2> QED BY <1>2, <2>1 DEF AttachUseless, TakeHandle, FirstFreeHandle, deviceVars
<1>3. ASSUME NEW u \in UsbIds, NEW h \in Handles, NEW k \in Devices, AttachStorage(u, h, k)
      PROVE  HandleOwnsDevice'
  BY <1>3 DEF AttachStorage, TakeHandle, FirstFreeHandle, FreeDevice
<1>4. ASSUME NEW k \in Devices, UpdateOnly(k)
      PROVE  HandleOwnsDevice'
  BY <1>0, <1>4 DEF UpdateOnly, InsertedNow, CardIsFirst, usbVars
<1>5. ASSUME NEW k \in Devices, Unmount(k)
      PROVE  HandleOwnsDevice'
  BY <1>0, <1>5 DEF Unmount, Release, InsertedNow, CardIsFirst, usbVars
<1>6. ASSUME NEW k \in Devices, Mount(k)
      PROVE  HandleOwnsDevice'
  BY <1>6 DEF Mount, usbVars
<1>7. CASE UNCHANGED <<enabled, inserted, disk, usbVars>>
  BY <1>7 DEF usbVars
<1> QED
  BY <1>1, <1>2, <1>3, <1>4, <1>5, <1>6, <1>7, StepCases
  DEF Quiet, deviceVars, MountDone, DiskCallFails

\* A handle gives up its device only when the device is removed or in error.
LEMMA ServedStep ==
  ASSUME DeviceInv, [Next]_vars
  PROVE  ServedHasHandle'
<1> USE DEF DeviceInv, TypeOK, ServedHasHandle, Serves, IsCard
<1>1. CASE ScanHandles
  BY <1>1 DEF ScanHandles, StillInserted, Errored
<1>2. ASSUME NEW u \in UsbIds, NEW h \in Handles, AttachUseless(u, h)
      PROVE  ServedHasHandle'
  BY <1>2 DEF AttachUseless, TakeHandle, FirstFreeHandle, deviceVars
<1>3. ASSUME NEW u \in UsbIds, NEW h \in Handles, NEW k \in Devices, AttachStorage(u, h, k)
      PROVE  ServedHasHandle'
  BY <1>3 DEF AttachStorage, TakeHandle, FirstFreeHandle, FreeDevice
<1>4. ASSUME NEW k \in Devices, UpdateOnly(k)
      PROVE  ServedHasHandle'
  BY <1>4 DEF UpdateOnly, InsertedNow, ErrorNow, usbVars
<1>5. ASSUME NEW k \in Devices, Unmount(k)
      PROVE  ServedHasHandle'
  BY <1>5 DEF Unmount, Release, usbVars
<1>6. ASSUME NEW k \in Devices, Mount(k)
      PROVE  ServedHasHandle'
  BY <1>6 DEF Mount, InsertedNow, usbVars
<1>7. ASSUME NEW k \in Devices, MountDone(k)
      PROVE  ServedHasHandle'
  BY <1>7 DEF MountDone, MountIsDue, usbVars
<1>8. ASSUME NEW k \in Devices, DiskCallFails(k)
      PROVE  ServedHasHandle'
  BY <1>8 DEF DiskCallFails, usbVars
<1>9. CASE Quiet
  BY <1>9 DEF Quiet, deviceVars, usbVars
<1> QED BY <1>1, <1>2, <1>3, <1>4, <1>5, <1>6, <1>7, <1>8, <1>9, StepCases

\* Nothing happens to a device while it is being mounted.
LEMMA DueStep ==
  ASSUME DeviceInv, [Next]_vars
  PROVE  MountIsDue'
<1> USE DEF DeviceInv, TypeOK, MountIsDue, Serves, IsCard
<1>1. ASSUME NEW k \in Devices, Mount(k)
      PROVE  MountIsDue'
  BY <1>1 DEF Mount, Updating, InsertedNow, ServedHasHandle, usbVars
<1>2. CASE Quiet
  BY <1>2 DEF Quiet, deviceVars, usbVars
<1>3. ASSUME NEW k \in Devices, DiskCallFails(k)
      PROVE  MountIsDue'
  BY <1>3 DEF DiskCallFails, threadVars, usbVars
<1>4. CASE pc' # "mount"
  BY <1>4
<1> QED
  BY <1>1, <1>2, <1>3, <1>4, StepCases
  DEF ScanHandles, AttachUseless, AttachStorage, AttachNext, UpdateOnly, Unmount, MountDone,
      Updating, Advance

\* Devices, handles and the channel's view of them agree at all times.
THEOREM DevicesCorrect == Spec => []DeviceInv
<1>1. DeviceInv /\ [Next]_vars => DeviceInv'
  <2> SUFFICES ASSUME DeviceInv, [Next]_vars PROVE DeviceInv'
    OBVIOUS
  <2>1. TypeOK'
    BY TypeStep DEF DeviceInv
  <2> QED BY <2>1, MountStep, CardStep, OwnerStep, ServedStep, DueStep DEF DeviceInv
<1> QED BY <1>1, DeviceInit, PTL DEF Spec

\* What the channel was told last of each device id is what is mounted there.
THEOREM ToldCorrect == Spec => []ToldIsMounted
<1>1. DeviceInv => ToldIsMounted
  BY DEF DeviceInv
<1> QED BY <1>1, DevicesCorrect, PTL

\* A handle's device id stands for that very device, and for no other handle's.
THEOREM OwnersCorrect == Spec => []HandleOwnsDevice
<1>1. DeviceInv => HandleOwnsDevice
  BY DEF DeviceInv
<1> QED BY <1>1, DevicesCorrect, PTL

\* The removal of a USB device that is served will be noticed.
THEOREM RemovalIsNoticed == Spec => []ServedHasHandle
<1>1. DeviceInv => ServedHasHandle
  BY DEF DeviceInv
<1> QED BY <1>1, DevicesCorrect, PTL

-----------------------------------------------------------------------------
(* The log file.                                                             *)

\* The log goes with the volume of the card, whatever other devices do.
LEMMA LogStep ==
  ASSUME DeviceInv, LogIsOnCard, [Next]_vars
  PROVE  LogIsOnCard'
<1> USE DEF DeviceInv, TypeOK, LogIsOnCard, IsCard
<1>1. ASSUME NEW u \in UsbIds, NEW h \in Handles, NEW k \in Devices, AttachStorage(u, h, k)
      PROVE  LogIsOnCard'
  BY <1>1 DEF AttachStorage, FreeDevice, MountedIsEnabled, logVars
<1>2. ASSUME NEW k \in Devices, Unmount(k)
      PROVE  LogIsOnCard'
  <2>1. CASE IsCard(k)
    <3>1. CASE logEnabled
      BY <1>2, <2>1, <3>1 DEF Unmount, CloseLog
    <3>2. CASE ~logEnabled
      BY <1>2, <2>1, <3>2 DEF Unmount, CloseLog
    <3> QED BY <3>1, <3>2
  <2>2. CASE ~IsCard(k)
    BY <1>2, <2>2 DEF Unmount, CloseLog
  <2> QED BY <2>1, <2>2
<1>3. ASSUME NEW k \in Devices, MountDone(k)
      PROVE  LogIsOnCard'
  <2>1. CASE ~logEnabled /\ IsCard(k)
    <3>1. logDevice' = k /\ disk' = disk /\ mounted'[k]
      BY <1>3, <2>1 DEF MountDone, OpenLog
    <3>2. PICK opened \in BOOLEAN :
            logOpen' = opened /\ logEnabled' = opened /\ logSet' = (logSet \/ opened)
      BY <1>3, <2>1 DEF MountDone, OpenLog
    <3> QED BY <2>1, <3>1, <3>2
  <2>2. CASE ~(~logEnabled /\ IsCard(k))
    <3>1. UNCHANGED logVars
      BY <1>3, <2>2 DEF MountDone, OpenLog
    <3> QED BY <1>3, <3>1 DEF MountDone, logVars
  <2> QED BY <2>1, <2>2
<1>4. CASE UNCHANGED <<disk, mounted, logVars>>
  BY <1>4 DEF logVars
<1> QED
  BY <1>1, <1>2, <1>3, <1>4, StepCases
  DEF Quiet, deviceVars, ScanHandles, AttachUseless, UpdateOnly, Mount, DiskCallFails

\* A log that the program enabled is written only to a file that was opened on the
\* volume mounted now, whatever the constructor left in m_logEnabled.
THEOREM LogCorrect == Spec => []LogIsOnCard
<1>1. Init => LogIsOnCard
  BY DEF Init, LogIsOnCard
<1>2. DeviceInv /\ LogIsOnCard /\ [Next]_vars => LogIsOnCard'
  BY LogStep
<1> QED BY <1>1, <1>2, DevicesCorrect, PTL DEF Spec

\* A device's error is forgotten only when the device is gone, when its id goes
\* to another, or when it came up while the device was being mounted.
THEOREM ErrorsStick == Spec => ErrorSticks
<1> DEFINE Kept ==
      \A k \in Devices : error[k] /\ ~error'[k] =>
        ~inserted'[k] \/ ~enabled[k] \/ (pc = "mount" /\ turn = k)
<1>1. DeviceInv /\ [Next]_vars => [Kept]_vars
  <2> SUFFICES ASSUME DeviceInv, [Next]_vars PROVE Kept
    OBVIOUS
  <2> USE DEF DeviceInv, TypeOK
  <2>1. ASSUME NEW u \in UsbIds, NEW h \in Handles, NEW k \in Devices, AttachStorage(u, h, k)
        PROVE  Kept
    BY <2>1 DEF AttachStorage, FreeDevice
  <2>2. ASSUME NEW k \in Devices, UpdateOnly(k)
        PROVE  Kept
    BY <2>2 DEF UpdateOnly, ErrorNow
  <2>3. ASSUME NEW k \in Devices, Unmount(k)
        PROVE  Kept
    BY <2>3 DEF Unmount
  <2>4. ASSUME NEW k \in Devices, MountDone(k)
        PROVE  Kept
    BY <2>4 DEF MountDone
  <2>5. ASSUME NEW k \in Devices, DiskCallFails(k)
        PROVE  Kept
    BY <2>5 DEF DiskCallFails
  <2>6. CASE UNCHANGED error
    BY <2>6
  <2> QED
    BY <2>1, <2>2, <2>3, <2>4, <2>5, <2>6, StepCases
    DEF Quiet, deviceVars, ScanHandles, AttachUseless, Mount
<1> QED BY <1>1, DevicesCorrect, PTL DEF Spec, ErrorSticks

-----------------------------------------------------------------------------
(* Handles and the device list.  An answer lists a device once, and between   *)
(* its entries the handles in use are those of the entries worked in so far   *)
(* and of the entries that had a handle before.                               *)

InUseIds == {hId[h] : h \in {g \in Handles : hInUse[g]}}

Worked == {list[n] : n \in 1 .. turn - 1}

ListIsShort == Len(list) <= MaxUsb

ListIsSet == \A m, n \in 1 .. Len(list) : list[m] = list[n] => m = n

HandlesDiffer == \A g, h \in Handles : hInUse[g] /\ hInUse[h] /\ hId[g] = hId[h] => g = h

ListIsDone == pc \in {"wait", "update", "mount"} => InUseIds = Reported

ListIsWorked ==
  pc = "attach" =>
    /\ turn \in 1 .. Len(list) + 1
    /\ found \subseteq Reported
    /\ InUseIds = found \cup Worked

ListInv == TypeOK /\ ListIsShort /\ ListIsSet /\ HandlesDiffer /\ ListIsDone /\ ListIsWorked

\* At the start the list is empty and no handle is in use.
LEMMA ListInit == Init => ListInv
<1> SUFFICES ASSUME Init PROVE ListInv
  OBVIOUS
<1>1. TypeOK
  BY TypeInit
<1>2. Len(list) = 0
  BY DEF Init
<1>3. ListIsShort /\ ListIsSet /\ HandlesDiffer
  BY <1>2, DeviceAssumption DEF Init, ListIsShort, ListIsSet, HandlesDiffer
<1>4. ListIsDone /\ ListIsWorked
  BY <1>2 DEF Init, ListIsDone, ListIsWorked, InUseIds, Reported
<1> QED BY <1>1, <1>3, <1>4 DEF ListInv

\* A list of n entries has n places.
LEMMA InitialSegment ==
  ASSUME NEW n \in Nat
  PROVE  IsFiniteSet(1 .. n) /\ Cardinality(1 .. n) = n
BY FS_Interval

\* /dev/usb/ven's answers name each device of the bus once.
LEMMA ReplyStep ==
  ASSUME TypeOK, UsbReply
  PROVE  ListIsShort' /\ ListIsSet'
<1> DEFINE n == Cardinality(bus)
<1>1. IsFiniteSet(bus) /\ n \in Nat /\ n <= MaxUsb
  BY DeviceAssumption, FS_Subset, FS_CardinalityType DEF TypeOK, UsbReply
<1>2. PICK answer \in [1 .. n -> bus] : {answer[m] : m \in DOMAIN answer} = bus /\ list' = answer
  BY DEF UsbReply
<1>3. answer \in Surjection(1 .. n, bus)
  BY <1>2 DEF Surjection
<1>4. IsFiniteSet(1 .. n) /\ Cardinality(1 .. n) = n
  BY <1>1, InitialSegment
<1>5. answer \in Injection(1 .. n, bus)
  BY <1>3, <1>4, FS_Surjection
<1>6. Len(list') = n
  BY <1>1, <1>2
<1>7. ListIsShort'
  BY <1>1, <1>6 DEF ListIsShort
<1>8. ListIsSet'
  BY <1>2, <1>5, <1>6 DEF ListIsSet, Injection, IsInjective
<1> QED BY <1>7, <1>8

\* The handle a new entry takes adds the entry's device to those in use.
LEMMA TakeStep ==
  ASSUME TypeOK, HandlesDiffer, NEW u \in UsbIds, NEW h \in Handles,
         NEW k \in Devices \cup {NoDevice}, TakeHandle(h, u, k), u \notin InUseIds
  PROVE  HandlesDiffer' /\ InUseIds' = InUseIds \cup {u}
<1> USE DEF TypeOK, TakeHandle, FirstFreeHandle, InUseIds
<1>1. HandlesDiffer'
  BY DEF HandlesDiffer
<1>2. /\ hInUse'[h] /\ hId'[h] = u
      /\ \A g \in Handles : g # h => hInUse'[g] = hInUse[g] /\ hId'[g] = hId[g]
  OBVIOUS
<1>3. ~hInUse[h]
  OBVIOUS
<1>4. InUseIds' \subseteq InUseIds \cup {u}
  BY <1>2, <1>3
<1>5. InUseIds \cup {u} \subseteq InUseIds'
  BY <1>2, <1>3
<1> QED BY <1>1, <1>4, <1>5

\* A new entry has no handle yet.
LEMMA EntryIsNew ==
  ASSUME ListInv, NEW u \in UsbIds, AttachNext(u), u \notin found
  PROVE  u \notin InUseIds
<1> USE DEF ListInv, TypeOK, AttachNext
<1>1. turn \in 1 .. Len(list) /\ u = list[turn] /\ InUseIds = found \cup Worked
  BY DEF ListIsWorked
<1>2. u \notin Worked
  BY <1>1 DEF Worked, ListIsSet
<1> QED BY <1>1, <1>2

\* An entry whose device has a handle is worked in.
LEMMA EntryStep ==
  ASSUME ListInv, NEW u \in UsbIds, AttachNext(u),
         UNCHANGED <<pc, list, found>>, turn' = turn + 1,
         InUseIds' = InUseIds \cup {u}
  PROVE  ListIsDone' /\ ListIsWorked'
<1> USE DEF ListInv, TypeOK, AttachNext
<1>1. /\ turn \in 1 .. Len(list) /\ u = list[turn] /\ InUseIds = found \cup Worked
      /\ found \subseteq Reported
  BY DEF ListIsWorked
<1>2. turn' \in 1 .. Len(list') + 1
  BY <1>1
<1>3. Worked' = Worked \cup {u}
  BY <1>1 DEF Worked
<1>4. found' \subseteq Reported'
  BY <1>1 DEF Reported
<1>5. InUseIds' = found' \cup Worked'
  BY <1>1, <1>3
<1> QED BY <1>2, <1>4, <1>5 DEF ListIsDone, ListIsWorked

\* Every step keeps the handles in line with the list.
LEMMA ListStep == ListInv /\ [Next]_vars => ListInv'
<1> SUFFICES ASSUME ListInv, [Next]_vars
             PROVE  ListIsShort' /\ ListIsSet' /\ HandlesDiffer' /\ ListIsDone' /\ ListIsWorked'
  BY TypeStep DEF ListInv
<1> DEFINE Goal == ListIsShort' /\ ListIsSet' /\ HandlesDiffer' /\ ListIsDone' /\ ListIsWorked'
<1> USE DEF ListInv
\* The list stays as it is, but for an answer.
<1>1. ASSUME list' = list
      PROVE  ListIsShort' /\ ListIsSet'
  BY <1>1 DEF ListIsShort, ListIsSet
<1>2. ASSUME UNCHANGED usbVars
      PROVE  HandlesDiffer' /\ InUseIds' = InUseIds
  BY <1>2 DEF usbVars, HandlesDiffer, InUseIds
\* Steps outside the list.
<1>3. ASSUME UNCHANGED usbVars, list' = list,
             pc \in {"wait", "update", "mount"}, pc' \in {"wait", "update", "mount", "stopped"}
      PROVE  Goal
  BY <1>1, <1>2, <1>3 DEF ListIsDone, ListIsWorked, Reported
<1>4. CASE Timer \/ USBFatal \/ UpdateDone
  BY <1>3, <1>4 DEF Timer, USBFatal, UpdateDone
<1>5. ASSUME NEW k \in Devices, UpdateDisabled(k) \/ UpdateOnly(k) \/ Unmount(k)
      PROVE  Goal
  BY <1>3, <1>5 DEF UpdateDisabled, UpdateOnly, Unmount, Updating, Advance
<1>6. ASSUME NEW k \in Devices, Mount(k) \/ MountDone(k)
      PROVE  Goal
  BY <1>3, <1>6 DEF Mount, MountDone, Updating
<1>7. CASE UNCHANGED <<usbVars, threadVars>>
  BY <1>1, <1>2, <1>7 DEF threadVars, ListIsDone, ListIsWorked, Reported, Worked
<1>8. CASE UsbReply
  <2>1. ListIsShort' /\ ListIsSet'
    BY <1>8, ReplyStep
  <2> QED BY <1>2, <1>8, <2>1 DEF UsbReply, ListIsDone, ListIsWorked
<1>9. CASE ScanHandles
  <2>1. HandlesDiffer'
    BY <1>9 DEF ScanHandles, HandlesDiffer, TypeOK
  <2>2. InUseIds' = found'
    BY <1>9 DEF ScanHandles, InUseIds, Found, TypeOK
  <2>3. found' \subseteq Reported'
    BY <1>9 DEF ScanHandles, Found, Gone, Reported
  <2>4. Worked' = {}
    BY <1>9 DEF ScanHandles, Worked
  <2>5. turn' \in 1 .. Len(list') + 1
    BY <1>9 DEF ScanHandles, TypeOK
  <2>6. ListIsDone' /\ ListIsWorked'
    BY <1>9, <2>2, <2>3, <2>4, <2>5 DEF ScanHandles, ListIsDone, ListIsWorked
  <2> QED BY <1>1, <1>9, <2>1, <2>6 DEF ScanHandles
<1>10. ASSUME NEW u \in UsbIds, SkipKnown(u)
       PROVE  Goal
  <2>1. u \in InUseIds
    BY <1>10 DEF SkipKnown, AttachNext, ListIsWorked
  <2>2. HandlesDiffer' /\ InUseIds' = InUseIds \cup {u}
    BY <1>2, <1>10, <2>1 DEF SkipKnown
  <2>3. ListIsDone' /\ ListIsWorked'
    BY <1>10, <2>2, EntryStep DEF SkipKnown
  <2> QED BY <1>1, <1>10, <2>2, <2>3 DEF SkipKnown
<1>11. ASSUME NEW u \in UsbIds, NEW h \in Handles, AttachUseless(u, h)
       PROVE  Goal
  <2>1. HandlesDiffer' /\ InUseIds' = InUseIds \cup {u}
    BY <1>11, EntryIsNew, TakeStep DEF AttachUseless
  <2>2. ListIsDone' /\ ListIsWorked'
    BY <1>11, <2>1, EntryStep DEF AttachUseless
  <2> QED BY <1>1, <1>11, <2>1, <2>2 DEF AttachUseless
<1>12. ASSUME NEW u \in UsbIds, NEW h \in Handles, NEW k \in Devices, AttachStorage(u, h, k)
       PROVE  Goal
  <2>1. HandlesDiffer' /\ InUseIds' = InUseIds \cup {u}
    BY <1>12, EntryIsNew, TakeStep DEF AttachStorage
  <2>2. ListIsDone' /\ ListIsWorked'
    BY <1>12, <2>1, EntryStep DEF AttachStorage
  <2> QED BY <1>1, <1>12, <2>1, <2>2 DEF AttachStorage
<1>13. CASE UsbDone
  <2>1. turn = Len(list) + 1 /\ found \subseteq Reported /\ InUseIds = found \cup Worked
    BY <1>13 DEF UsbDone, ListIsWorked, TypeOK
  <2>2. Worked = Reported
    BY <2>1 DEF Worked, Reported, TypeOK
  <2>3. InUseIds' = Reported'
    BY <1>2, <1>13, <2>1, <2>2 DEF UsbDone, Reported
  <2> QED BY <1>1, <1>2, <1>13, <2>3 DEF UsbDone, ListIsDone, ListIsWorked
<1>14. ASSUME NEW k \in Devices, DiskCallFails(k) \/ StaleCallEnds(k)
       PROVE  Goal
  BY <1>7, <1>14 DEF DiskCallFails, StaleCallEnds
<1>15. CASE User \/ UNCHANGED vars
  BY <1>7, <1>15 DEF User, MoveCard, MoveUsb, vars
<1> QED
  BY <1>4, <1>5, <1>6, <1>8, <1>9, <1>10, <1>11, <1>12, <1>13, <1>14, <1>15
  DEF Next, Run, UsbChange, UpdateHandle, OtherThreads

\* The handles in use are those of the list, as far as it is worked in.
THEOREM ListsCorrect == Spec => []ListInv
BY ListInit, ListStep, PTL DEF Spec

\* Once a list is worked in, there is exactly one handle for each device on it.
THEOREM HandlesAreListed == Spec => []HandlesMatchList
<1>1. ListInv => HandlesMatchList
  BY DEF ListInv, ListIsDone, HandlesDiffer, InUseIds, HandlesMatchList
<1> QED BY <1>1, ListsCorrect, PTL

\* The assertion of USBChange: the handles in use name different devices of the
\* list, none of them the new one, and the list is no longer than the table.
LEMMA FreeHandle == ListInv => HandleIsFree
<1> SUFFICES ASSUME ListInv, NEW u \in UsbIds, AttachNext(u), u \notin found,
                    \A h \in Handles : hInUse[h]
             PROVE  FALSE
  BY DEF HandleIsFree, ListInv, TypeOK
<1> USE DEF ListInv
<1> DEFINE N == 1 .. Len(list)
<1> DEFINE Rest == N \ {turn}
<1>1. Len(list) \in Nat /\ turn \in N /\ list[turn] = u
  BY DEF TypeOK, AttachNext, ListIsWorked
<1>2. IsFiniteSet(Rest) /\ Cardinality(Rest) = Len(list) - 1
  <2>1. IsFiniteSet(N) /\ Cardinality(N) = Len(list)
    BY <1>1, InitialSegment
  <2>2. turn \in N
    BY <1>1
  <2> HIDE DEF N
  <2>3. IsFiniteSet(N \ {turn}) /\ Cardinality(N \ {turn}) = Cardinality(N) - 1
    BY <2>1, <2>2, FS_RemoveElement
  <2> QED BY <2>1, <2>3
<1>3. IsFiniteSet(Handles) /\ Cardinality(Handles) = MaxUsb
  BY DeviceAssumption, FS_Interval DEF Handles
<1>4. u \notin InUseIds
  BY EntryIsNew
<1>5. \A h \in Handles : \E n \in Rest : list[n] = hId[h]
  <2> SUFFICES ASSUME NEW h \in Handles
               PROVE  \E n \in Rest : list[n] = hId[h]
    OBVIOUS
  <2>1. hId[h] \in InUseIds
    BY DEF InUseIds
  <2>2. hId[h] \in Reported
    BY <1>1, <2>1 DEF ListIsWorked, AttachNext, Worked, Reported, TypeOK
  <2> QED BY <1>1, <1>4, <2>1, <2>2 DEF Reported
<1> DEFINE place == [h \in Handles |-> CHOOSE n \in Rest : list[n] = hId[h]]
<1>6. place \in [Handles -> Rest]
  BY <1>5
<1>7. \A h \in Handles : list[place[h]] = hId[h]
  BY <1>5
<1>8. Cardinality(Rest) < Cardinality(Handles)
  BY <1>1, <1>2, <1>3, DeviceAssumption DEF ListIsShort
<1>9. PICK g, h \in Handles : g # h /\ place[g] = place[h]
  <2> HIDE DEF place, Rest
  <2> QED BY <1>2, <1>3, <1>6, <1>8, FS_PigeonHole
<1> QED BY ZenonT(60), <1>7, <1>9 DEF HandlesDiffer

\* A device that is new on the list finds a free handle.
THEOREM HandleAssertion == Spec => []HandleIsFree
BY FreeHandle, ListsCorrect, PTL

=============================================================================
