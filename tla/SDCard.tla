------------------------------- MODULE SDCard -------------------------------
(***************************************************************************)
(* The driver of the SD card (src/ios/Disk/SDCard.cpp) on /dev/sdio/slot0, *)
(* with DeviceMgr's poll of the slot (DeviceMgr.cpp, UpdateHandle) and the *)
(* slot, in which cards come and go.                                       *)
(*                                                                         *)
(* The first access to a mounted volume starts the card up (__sd0_initio): *)
(* IOS resets it, and a card that IOS does not accept is brought up by     *)
(* hand.  Every request to IOS is a step of its own where the outcome of   *)
(* the next depends on it, so a card can leave, another come, and the poll *)
(* look at the slot in between.  Calls come one at a time.                 *)
(*                                                                         *)
(* External: IOS and the card.  A card has no address until it is started  *)
(* up, and serves data only while it is selected by its address.  High-    *)
(* capacity cards count sectors, the others bytes.                         *)
(***************************************************************************)
EXTENDS Naturals, Sequences

CONSTANTS
  Cards,          \* the cards there are, numbered from 0
  HighCapacity,   \* those that count sectors
  Accepted,       \* those IOS starts up itself
  None,           \* no card
  SectorCount,    \* sectors of a card
  SectorBytes,    \* PAGE_SIZE512
  ChunkSectors,   \* sectors in rw_buffer that one command moves
  Tries,          \* rounds of ACMD41
  MaxBusy,        \* rounds a card answers that it is busy
  InitialData,    \* what the sectors of each card hold
  Texts,          \* what is written
  Reads,          \* <<first, count>>
  Writes,         \* <<first, texts>>
  MaxCalls,       \* bound: reads and writes
  Faults,         \* a subset of {"io", "eject", "forget"}
  MaxFaults       \* bound: how many of them happen

Sectors == 0 .. SectorCount - 1
Data == Texts \cup {InitialData[c][s] : c \in Cards, s \in Sectors}

ASSUME CardAssumption ==
  /\ Cards \subseteq Nat /\ None \notin Cards
  /\ HighCapacity \subseteq Cards /\ Accepted \subseteq Cards
  /\ SectorCount \in Nat \ {0} /\ SectorBytes \in Nat \ {0, 1}
  /\ ChunkSectors \in Nat \ {0} /\ Tries \in Nat \ {0} /\ MaxBusy \in Nat
  /\ InitialData = [c \in Cards |-> [s \in Sectors |-> InitialData[c][s]]]
  /\ \A r \in Reads :
       r[1] \in Nat /\ r[2] \in Nat \ {0} /\ r[1] .. r[1] + r[2] - 1 \subseteq Sectors
  /\ \A w \in Writes :
       /\ w[1] \in Nat /\ w[2] \in Seq(Texts) /\ w[2] # <<>>
       /\ w[1] .. w[1] + Len(w[2]) - 1 \subseteq Sectors

VARIABLES
  phase,    \* "idle", or the request that comes next
  call,     \* the call that is served: [name, first, count, data, aligned]
  ok,       \* what it returns once the card is deselected
  buffer,   \* the sectors it has moved
  fd,       \* __sd0_fd is open
  rca,      \* __sd0_rca
  sdhc,     \* __sd0_sdhc
  tries,    \* rounds of ACMD41 left
  mounted, error,  \* DeviceMgr's
  ready,    \* FatFS holds the volume to be started up
  reply,    \* the last reply: [call, ok, first, data]
  known,    \* history: of each sector of a card, what the replies say it may hold
  started,  \* history: the card that answered at the last start
  calls, faults,
  slot, mode, busy,  \* the card in the slot: "idle", "ready", "standby", "selected"
  accepted, \* IOS has started it up
  disk      \* what the sectors of each card hold

callVars == <<phase, call, ok, buffer>>
sdVars == <<fd, rca, sdhc, tries>>
mgrVars == <<mounted, error, ready>>
replyVars == <<reply, known>>
slotVars == <<slot, mode, busy, accepted>>
vars == <<callVars, sdVars, mgrVars, replyVars, started, calls, faults, slotVars, disk>>

Call(name, first, count, data, aligned) ==
  [name |-> name, first |-> first, count |-> count, data |-> data, aligned |-> aligned]
NoCall == Call("none", 0, 0, <<>>, TRUE)

\* The sectors of all cards in a row.
Base(c) == c * SectorCount
AllSectors == UNION {Base(c) .. Base(c) + SectorCount - 1 : c \in Cards}

\* The address a started card has.
Address(c) == c + 1

LeastOf(a, b) == IF a < b THEN a ELSE b
Fault(f) == f \in Faults /\ faults < MaxFaults /\ faults' = faults + 1
NoFault == UNCHANGED faults

Init ==
  /\ phase = "idle" /\ call = NoCall /\ ok = FALSE /\ buffer = <<>>
  /\ fd = TRUE /\ rca = 0 /\ sdhc = FALSE /\ tries = 0
  /\ mounted = FALSE /\ error = FALSE /\ ready = FALSE
  /\ reply = [call |-> "none", ok |-> FALSE, first |-> 0, data |-> <<>>]
  /\ known = [n \in AllSectors |->
               {InitialData[n \div SectorCount][n % SectorCount]}]
  /\ started = None /\ calls = 0 /\ faults = 0
  /\ slot \in Cards \cup {None} /\ mode = "idle" /\ accepted = FALSE
  /\ busy \in 0 .. MaxBusy
  /\ disk = InitialData

-----------------------------------------------------------------------------
(* The slot, and DeviceMgr's thread. *)

Eject ==
  /\ slot # None /\ Fault("eject")
  /\ slot' = None /\ mode' = "idle" /\ accepted' = FALSE
  /\ UNCHANGED <<callVars, sdVars, mgrVars, replyVars, calls, busy, disk, started>>

Insert ==
  /\ slot = None
  /\ slot' \in Cards
  /\ UNCHANGED <<callVars, sdVars, mgrVars, replyVars, calls, faults, mode, busy, accepted, disk, started>>

\* IsInserted, with __sd0_fd closed, takes a bit of an error number for the card.
Seen == IF fd THEN {slot # None} ELSE BOOLEAN

\* UpdateHandle, whose status request may fail, which also gives a bit of an error
\* number.  A volume is taken away from under the call in progress.
Poll ==
  \E inserted \in BOOLEAN :
    /\ (inserted \in Seen /\ NoFault) \/ (fd /\ Fault("io"))
    /\ mounted' = (inserted /\ (mounted \/ ~error))
    /\ error' = (error /\ inserted)
    /\ ready' = (ready /\ mounted /\ inserted)
    /\ UNCHANGED <<callVars, sdVars, replyVars, calls, slotVars, disk, started>>

\* UpdateHandle clears an error that was set while it mounted (DeviceMgr.cpp:470).
ErrorForgotten ==
  /\ error /\ mounted /\ Fault("forget")
  /\ error' = FALSE
  /\ UNCHANGED <<callVars, sdVars, mounted, ready, replyVars, calls, slotVars, disk, started>>

-----------------------------------------------------------------------------
(* Calls begin and end. *)

Begin(c, first) ==
  /\ phase = "idle" /\ mounted /\ ~error
  /\ call' = c /\ phase' = first /\ ok' = FALSE /\ buffer' = <<>>
  /\ UNCHANGED <<sdVars, mgrVars, replyVars, faults, slotVars, disk, started>>

\* Startup, on the first access after a mount.
StartInit ==
  ~ready /\ Begin(Call("Init", 0, 0, <<>>, TRUE), "reset") /\ UNCHANGED calls

CountCall == calls < MaxCalls /\ calls' = calls + 1

StartRead ==
  /\ ready /\ CountCall
  /\ \E r \in Reads, aligned \in BOOLEAN :
       Begin(Call("Read", r[1], r[2], <<>>, aligned), "select")

StartWrite ==
  /\ ready /\ CountCall
  /\ \E w \in Writes, aligned \in BOOLEAN :
       Begin(Call("Write", w[1], Len(w[2]), w[2], aligned), "select")

\* What the sectors of the started card may hold once the call has ended.
KnownAfter(success, data) ==
  LET first == Base(started) + call.first
  IN  [n \in AllSectors |->
        IF call.name # "Init" /\ n \in first .. first + Len(data) - 1
        THEN (IF success THEN {} ELSE known[n]) \cup {data[n - first + 1]}
        ELSE known[n]]

\* The call returns to FatFS, through DeviceMgr.
Finish(success) ==
  LET data == IF call.name = "Write" THEN call.data ELSE IF success THEN buffer ELSE <<>>
  IN  /\ phase' = "idle" /\ call' = NoCall /\ ok' = FALSE /\ buffer' = <<>>
      /\ reply' = [call |-> call.name, ok |-> success, data |-> data,
                   first |-> IF call.name = "Init" THEN 0 ELSE Base(started) + call.first]
      /\ known' = KnownAfter(success, data)
      /\ error' = (error \/ ~success)
      /\ ready' = (ready \/ (success /\ call.name = "Init"))
      /\ UNCHANGED mounted

Goto(next) == phase' = next /\ UNCHANGED <<call, ok, buffer, mgrVars, replyVars>>

\* A request that fails.
Fails == (~fd /\ NoFault) \/ (fd /\ Fault("io"))

-----------------------------------------------------------------------------
(* __sd0_initio *)

\* __sdio_resetcard: whatever it returns, the status is asked for next.
ResetCard ==
  /\ phase = "reset"
  /\ \/ /\ fd /\ NoFault /\ slot \in Accepted
        /\ rca' = Address(slot) /\ mode' = "standby" /\ accepted' = TRUE
     \/ /\ Fails \/ (fd /\ slot \notin Accepted /\ NoFault)
        /\ rca' = 0 /\ mode' = "idle" /\ accepted' = FALSE
  /\ Goto("status")
  /\ UNCHANGED <<fd, sdhc, tries, calls, slot, busy, disk, started>>

M_CountsSectors == sdhc
CountsSectors == slot \in HighCapacity

\* __sdio_getstatus.  Its errors are even: they do not look like a card.
GetStatus ==
  /\ phase = "status"
  /\ \/ Fails /\ Finish(FALSE) /\ UNCHANGED sdhc
     \/ /\ fd /\ NoFault
        /\ \/ slot = None /\ Finish(FALSE) /\ UNCHANGED sdhc
           \/ slot # None /\ ~accepted /\ Goto("close") /\ UNCHANGED sdhc
           \/ slot # None /\ accepted /\ Goto("setup") /\ sdhc' = CountsSectors
  /\ UNCHANGED <<fd, rca, tries, calls, slotVars, disk, started>>

\* "reopen the handle which makes IOS clean stuff up", here and after a failure.
Close ==
  /\ phase \in {"close", "abandon"}
  /\ fd' = FALSE /\ mode' = "idle" /\ accepted' = FALSE
  /\ Goto(IF phase = "close" THEN "open" ELSE "reopen")
  /\ UNCHANGED <<rca, sdhc, tries, calls, faults, slot, busy, disk, started>>

OpenFails == fd' = FALSE /\ Fault("io")
OpenAgain == fd' = TRUE /\ NoFault

Open ==
  /\ phase = "open"
  /\ OpenFails \/ OpenAgain
  /\ Goto("host")
  /\ UNCHANGED <<rca, sdhc, tries, calls, slotVars, disk, started>>

Reopen ==
  /\ phase = "reopen"
  /\ OpenFails \/ OpenAgain
  /\ Finish(FALSE)
  /\ UNCHANGED <<rca, sdhc, tries, calls, slotVars, disk, started>>

\* The host controller is reset, powered and clocked; __sd0_sdhc is set on the way.
HostUp ==
  /\ phase = "host"
  /\ \/ Fails /\ Goto("abandon") /\ sdhc' \in {sdhc, TRUE} /\ UNCHANGED tries
     \/ fd /\ NoFault /\ Goto("condition") /\ sdhc' = TRUE /\ tries' = Tries
  /\ UNCHANGED <<fd, rca, calls, slotVars, disk, started>>

In(state) == fd /\ slot # None /\ mode = state

\* CMD0 and CMD8 before the first round of ACMD41, then a round.

M_AnotherRound == tries > 2
AnotherRound == tries > 1

OpCond ==
  /\ phase = "condition"
  /\ \/ /\ Fails \/ (fd /\ ~In("idle") /\ NoFault)
        /\ Goto("abandon") /\ UNCHANGED <<tries, busy, sdhc, mode>>
     \/ /\ In("idle") /\ NoFault /\ busy > 0
        /\ busy' = busy - 1 /\ tries' = tries - 1
        /\ Goto(IF AnotherRound THEN "condition" ELSE "abandon")
        /\ UNCHANGED <<sdhc, mode>>
     \/ /\ In("idle") /\ NoFault /\ busy = 0
        /\ sdhc' = CountsSectors /\ mode' = "ready" /\ Goto("address")
        /\ UNCHANGED <<tries, busy>>
  /\ UNCHANGED <<fd, rca, calls, slot, accepted, disk, started>>

\* __sd0_getcid and __sd0_getrca.
GetAddress ==
  /\ phase = "address"
  /\ \/ /\ Fails \/ (fd /\ ~In("ready") /\ NoFault)
        /\ Goto("abandon") /\ UNCHANGED <<rca, mode>>
     \/ /\ In("ready") /\ NoFault
        /\ rca' = Address(slot) /\ mode' = "standby" /\ Goto("setup")
  /\ UNCHANGED <<fd, sdhc, tries, calls, slot, busy, accepted, disk, started>>

\* __sdio_setbuswidth and __sdio_setclock.
SetUp ==
  /\ phase = "setup"
  /\ (Fails /\ Finish(FALSE)) \/ (fd /\ NoFault /\ Goto("select"))
  /\ UNCHANGED <<sdVars, calls, slotVars, disk, started>>

\* The card answers to its address, or none does.
Answers == In("standby") /\ rca = Address(slot)

Select ==
  /\ phase = "select"
  /\ \/ /\ Fails \/ (fd /\ ~Answers /\ NoFault)
        /\ Finish(FALSE) /\ UNCHANGED <<mode, started>>
     \/ /\ Answers /\ NoFault /\ mode' = "selected"
        /\ started' = IF call.name = "Init" THEN slot ELSE started
        /\ Goto(IF call.name = "Init" THEN "length" ELSE "data")
  /\ UNCHANGED <<sdVars, calls, slot, busy, accepted, disk>>

Result(success) ==
  phase' = "deselect" /\ ok' = success /\ UNCHANGED <<call, mgrVars, replyVars>>

\* __sd0_setblocklength and __sd0_setbuswidth.
SetLength ==
  /\ phase = "length"
  /\ \/ (Fails \/ (fd /\ ~In("selected") /\ NoFault)) /\ Result(FALSE)
     \/ In("selected") /\ NoFault /\ Result(TRUE)
  /\ UNCHANGED <<buffer, sdVars, calls, slotVars, disk, started>>

\* __sd0_deselect, whose result nobody looks at.
Deselect ==
  /\ phase = "deselect"
  /\ \/ fd /\ NoFault /\ mode' = (IF mode = "selected" THEN "standby" ELSE mode)
     \/ Fails /\ UNCHANGED mode
  /\ Finish(ok)
  /\ UNCHANGED <<sdVars, calls, slot, busy, accepted, disk, started>>

-----------------------------------------------------------------------------
(* ReadSectors, WriteSectors: a chunk. *)

M_Chunk == IF call.aligned THEN call.count ELSE ChunkSectors

\* A buffer that is not aligned to a cache line goes through rw_buffer.
Chunk ==
  IF call.aligned THEN call.count
  ELSE LeastOf(ChunkSectors, call.count - Len(buffer))

\* What the command names, and the card's sectors that are.
BlockAddress == LET s == call.first + Len(buffer) IN IF sdhc THEN s ELSE s * SectorBytes

Targets ==
  IF slot \in HighCapacity
  THEN BlockAddress .. BlockAddress + Chunk - 1
  ELSE IF BlockAddress % SectorBytes = 0
  THEN LET s == BlockAddress \div SectorBytes IN s .. s + Chunk - 1
  ELSE {SectorCount}  \* ADDRESS_ERROR

Served == In("selected") /\ Targets \subseteq Sectors
FirstTarget == CHOOSE s \in Targets : \A t \in Targets : s <= t

AfterChunk(moved) ==
  /\ buffer' = buffer \o moved
  /\ IF Len(buffer \o moved) < call.count
     THEN phase' = "data" /\ UNCHANGED <<call, ok, mgrVars, replyVars>>
     ELSE Result(TRUE)

M_ChunkFails == AfterChunk([i \in 1 .. Chunk |-> CHOOSE t \in Texts : TRUE])

\* The rest is not tried: break.
ChunkFails == UNCHANGED buffer /\ Result(FALSE)

ReadChunk ==
  /\ phase = "data" /\ call.name = "Read"
  /\ \/ /\ Served /\ NoFault
        /\ AfterChunk([i \in 1 .. Chunk |-> disk[slot][FirstTarget + i - 1]])
     \/ Fails /\ ChunkFails
     \/ fd /\ ~Served /\ NoFault /\ ChunkFails
  /\ UNCHANGED <<sdVars, calls, slotVars, disk, started>>

\* The card takes the first n of the texts.
Stores(texts, n) ==
  disk' = [disk EXCEPT ![slot] =
            [s \in Sectors |-> IF s \in FirstTarget .. FirstTarget + n - 1
                               THEN texts[s - FirstTarget + 1] ELSE @[s]]]

WriteChunk ==
  /\ phase = "data" /\ call.name = "Write"
  /\ LET texts == SubSeq(call.data, Len(buffer) + 1, Len(buffer) + Chunk)
     IN  \/ Served /\ NoFault /\ Stores(texts, Chunk) /\ AfterChunk(texts)
         \/ Served /\ Fault("io") /\ (\E n \in 0 .. Chunk : Stores(texts, n)) /\ ChunkFails
         \/ ~Served /\ NoFault /\ ChunkFails /\ UNCHANGED disk
  /\ UNCHANGED <<sdVars, calls, slotVars, started>>

-----------------------------------------------------------------------------
World == Eject \/ Insert \/ Poll \/ ErrorForgotten
Calls == StartInit \/ StartRead \/ StartWrite
Startup == ResetCard \/ GetStatus \/ Close \/ Open \/ Reopen \/ HostUp \/ OpCond
             \/ GetAddress \/ SetUp \/ SetLength
Transfer == Startup \/ Select \/ ReadChunk \/ WriteChunk \/ Deselect

Next == World \/ Calls \/ Transfer

Spec == Init /\ [][Next]_vars

-----------------------------------------------------------------------------
(* Properties *)

Phases == {"idle", "reset", "status", "close", "open", "host", "condition", "address",
           "setup", "select", "length", "data", "deselect", "abandon", "reopen"}

\* The variables have their types.
TypeOK ==
  /\ phase \in Phases /\ ok \in BOOLEAN /\ fd \in BOOLEAN /\ sdhc \in BOOLEAN
  /\ rca \in {0} \cup {Address(c) : c \in Cards} /\ tries \in 0 .. Tries
  /\ mounted \in BOOLEAN /\ error \in BOOLEAN /\ ready \in BOOLEAN
  /\ known \in [AllSectors -> SUBSET Data] /\ started \in Cards \cup {None}
  /\ slot \in Cards \cup {None} /\ mode \in {"idle", "ready", "standby", "selected"}
  /\ busy \in 0 .. MaxBusy /\ accepted \in BOOLEAN
  /\ disk \in [Cards -> [Sectors -> Data]]
  /\ Len(buffer) <= call.count

\* A call that succeeds was served by one card from its first chunk to its last,
\* the one that was started up, and never by a card counted wrong.
ServedByStarted ==
  phase = "deselect" /\ ok /\ call.name # "Init" /\ mode = "selected" =>
    slot = started /\ sdhc = (slot \in HighCapacity)

\* Nothing but a request that fails or a card that is taken out makes a call fail,
\* as long as the card gets ready within the rounds it is given: each call leaves
\* the card so that the next one is answered.
OnlyFaultsFail == reply.call # "none" /\ ~reply.ok /\ MaxBusy < Tries => faults > 0

\* Each card is the store of sectors FatFS was promised, whichever was there before.
Store == INSTANCE BlockStore WITH known <- known, reply <- reply,
                                  Sectors <- AllSectors, Data <- Data

ImplementsStore == Store!Spec

=============================================================================
