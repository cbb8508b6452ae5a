----------------------------- MODULE USBStorage -----------------------------
(***************************************************************************)
(* The driver of a USB drive (src/ios/Disk/USBStorage.cpp) on the          *)
(* transfers of USB.cpp, with the drive at the other end.                  *)
(*                                                                         *)
(* A command is a transfer of three phases (SCSITransfer): a command block *)
(* with a tag, data in chunks of the driver's buffer, and a status with    *)
(* the tag of the command it is for.  The driver gives a transfer up at    *)
(* its first failing message and goes on with the next as if nothing were  *)
(* left of it; what is left comes before the answers of the next.  Calls   *)
(* of a drive come one at a time (FatFS's lock), and none comes while      *)
(* DeviceMgr holds it to be in error.                                      *)
(*                                                                         *)
(* External: the drive and the host controller.  What the host sends waits *)
(* in `out` until the drive gets to it, in order; what the drive sends     *)
(* waits in `in` until the host asks for it.  Packets of a sector are full *)
(* ones; any other ends the message it comes in.  Sectors have 512 bytes.  *)
(***************************************************************************)
EXTENDS Naturals, Sequences, FiniteSets

CONSTANTS
  Units,          \* of each logical unit: "disk", "empty" (a slot) or "other"
  MaxAttentions,  \* unit attentions a unit may begin with
  Tries,          \* rounds of FindLun for a unit
  ChunkSectors,   \* sectors in the driver's buffer
  InitialDisk,    \* what the sectors hold
  Texts,          \* what is written
  Reads,          \* <<first, count>>
  Writes,         \* <<first, texts>>
  MaxTag,         \* bound: no call starts after so many commands
  Faults,         \* a subset of {"lost", "status", "stall", "ctrl", "forget"}
  MaxFaults       \* bound: how many of them happen

Luns == DOMAIN Units
Sectors == DOMAIN InitialDisk
Data == Texts \cup {InitialDisk[s] : s \in Sectors}

\* Units are numbered from 0, and GetLunCount takes 1 to 16 of them.
ASSUME DriveAssumption ==
  /\ \E n \in 1 .. 16 : Luns = 0 .. n - 1
  /\ Sectors \subseteq Nat /\ InitialDisk \in [Sectors -> Data]
  /\ MaxAttentions \in Nat /\ MaxTag \in Nat /\ MaxFaults \in Nat
  /\ Tries \in Nat \ {0} /\ ChunkSectors \in Nat \ {0}
  /\ \A r \in Reads :
       r[1] \in Nat /\ r[2] \in Nat \ {0} /\ r[1] .. r[1] + r[2] - 1 \subseteq Sectors
  /\ \A w \in Writes :
       /\ w[1] \in Nat /\ w[2] \in Seq(Texts) /\ w[2] # <<>>
       /\ w[1] .. w[1] + Len(w[2]) - 1 \subseteq Sectors

VARIABLES
  phase,      \* "idle", or where SCSITransfer is: "command", "data", "status"
  call,       \* the call that is served: [name, first, count, data]
  cmd,        \* its command: [name, lun, first, count]
  tag,        \* m_tag
  buffer,     \* the sectors moved by this command
  lun, try,   \* FindLun's lun, which is m_lun, and i
  found,      \* FindLun has returned true
  ready,      \* disk_initialize has succeeded
  error,      \* DeviceMgr's error
  reply,      \* the last reply: [call, ok, first, data]
  known,      \* history: of each sector, what the replies say it may hold
  faults,     \* how many faults there were
  in, out,    \* packets [kind, tag, body] on their way
  rx,         \* the write the drive is taking data for
  disk, attention,
  halted      \* the drive has stalled an endpoint, and nothing clears that

initVars == <<lun, try, found>>
replyVars == <<ready, error, reply, known>>
driverVars == <<phase, call, cmd, tag, buffer, initVars, replyVars>>
driveVars == <<in, out, rx, disk, attention, halted>>
vars == <<driverVars, driveVars, faults>>

\* A fault happens.
Fault(f) == f \in Faults /\ faults < MaxFaults /\ faults' = faults + 1

Packet(kind, t, body) == [kind |-> kind, tag |-> t, body |-> body]
NoWrite == [tag |-> 0, first |-> 0, count |-> 0, got |-> <<>>]
Command(name, l, first, count) == [name |-> name, lun |-> l, first |-> first, count |-> count]
Call(name, first, count, data) == [name |-> name, first |-> first, count |-> count, data |-> data]
NoCommand == Command("none", 0, 0, 0)
NoCall == Call("none", 0, 0, <<>>)

LeastOf(a, b) == IF a < b THEN a ELSE b

Init ==
  /\ phase = "idle" /\ call = NoCall /\ cmd = NoCommand /\ tag = 0 /\ buffer = <<>>
  /\ lun = 0 /\ try = 0 /\ found = FALSE
  /\ ready = FALSE /\ error = FALSE
  /\ reply = [call |-> "none", ok |-> FALSE, first |-> 0, data |-> <<>>]
  /\ known = [s \in Sectors |-> {InitialDisk[s]}]
  /\ in = <<>> /\ out = <<>> /\ rx = NoWrite /\ disk = InitialDisk
  /\ attention \in [Luns -> 0 .. MaxAttentions] /\ halted = FALSE
  /\ faults = 0

-----------------------------------------------------------------------------
(* The end of a call, and the next command of one. *)

\* What the sectors may hold once a call has ended.
KnownAfter(ok, data) ==
  [s \in Sectors |->
     IF call.name \in {"Read", "Write"} /\ s \in call.first .. call.first + Len(data) - 1
     THEN (IF ok THEN {} ELSE known[s]) \cup {data[s - call.first + 1]}
     ELSE known[s]]

\* The call returns.  DeviceMgr keeps a drive that failed from being called.
Finish(ok, data) ==
  /\ phase' = "idle" /\ call' = NoCall /\ cmd' = NoCommand /\ buffer' = <<>>
  /\ reply' = [call |-> call.name, ok |-> ok, first |-> call.first, data |-> data]
  /\ known' = KnownAfter(ok, data)
  /\ error' = ~ok
  /\ ready' = (ready \/ (ok /\ call.name = "Init"))

Issue(c) == phase' = "command" /\ cmd' = c /\ buffer' = <<>>

\* Init goes on with a command.
Continue(name, l) ==
  Issue(Command(name, l, 0, 0)) /\ UNCHANGED <<call, replyVars>>

\* FindLun: the unit is ready and a disk, or another attempt is made after
\* RequestSense, whatever came of that.
TestedUnit(ok) ==
  /\ cmd.name = "TestUnitReady" /\ ~found
  /\ Continue(IF ok THEN "Inquiry" ELSE "RequestSense", lun)
  /\ UNCHANGED initVars

Inquired(ok) ==
  /\ cmd.name = "Inquiry"
  /\ IF ok /\ Units[lun] = "disk"
     THEN Continue("ReadCapacity", lun) /\ found' = TRUE
     ELSE Continue("RequestSense", lun) /\ UNCHANGED found
  /\ UNCHANGED <<lun, try>>

M_AnotherTryLess == try + 2 < Tries
M_AnotherTryMore == try < Tries

AnotherTry == try + 1 < Tries

Sensed ==
  /\ cmd.name = "RequestSense"
  /\ IF AnotherTry
     THEN try' = try + 1 /\ UNCHANGED lun /\ Continue("TestUnitReady", lun)
     ELSE /\ try' = 0 /\ lun' = lun + 1
          /\ IF lun + 1 \in Luns THEN Continue("TestUnitReady", lun + 1)
             ELSE Finish(FALSE, <<>>)
  /\ UNCHANGED found

\* The rest of Init.
GotCapacity(ok) ==
  /\ cmd.name = "ReadCapacity"
  /\ IF ok THEN Continue("TestUnitReady", lun) ELSE Finish(FALSE, <<>>)
  /\ UNCHANGED initVars

TestedLast(ok) ==
  /\ cmd.name = "TestUnitReady" /\ found
  /\ Finish(ok, <<>>)
  /\ UNCHANGED initVars

\* ReadSectors, WriteSectors and Sync, which try once.
MovedSectors(ok, data) ==
  /\ cmd.name \in {"Read", "Write", "Sync"}
  /\ Finish(ok, IF cmd.name = "Write" THEN call.data ELSE IF ok THEN data ELSE <<>>)
  /\ UNCHANGED initVars

\* SCSITransfer returns, with the data of its buffer.
Return(ok, data) ==
  TestedUnit(ok) \/ Inquired(ok) \/ Sensed \/ GotCapacity(ok) \/ TestedLast(ok)
    \/ MovedSectors(ok, data)

-----------------------------------------------------------------------------
(* Calls. *)

\* disk_initialize, on the first access: GetLunCount, then FindLun.
StartInit ==
  /\ phase = "idle" /\ ~ready /\ ~error /\ tag < MaxTag
  /\ lun' = 0 /\ try' = 0 /\ found' = FALSE
  /\ call' = Call("Init", 0, 0, <<>>)
  /\ Issue(Command("TestUnitReady", 0, 0, 0))
  /\ UNCHANGED <<tag, replyVars, driveVars, faults>>

\* The drive lacks an endpoint, or has no count of units from 1 to 16.
InitFails ==
  /\ phase = "idle" /\ ~ready /\ ~error
  /\ Fault("ctrl")
  /\ reply' = [call |-> "Init", ok |-> FALSE, first |-> 0, data |-> <<>>]
  /\ error' = TRUE
  /\ UNCHANGED <<phase, call, cmd, tag, buffer, initVars, ready, known, driveVars>>

Start(c, name) ==
  /\ phase = "idle" /\ ready /\ ~error /\ tag < MaxTag
  /\ call' = c
  /\ Issue(Command(name, lun, c.first, c.count))
  /\ UNCHANGED <<tag, initVars, replyVars, driveVars, faults>>

StartRead == \E r \in Reads : Start(Call("Read", r[1], r[2], <<>>), "Read")
StartWrite == \E w \in Writes : Start(Call("Write", w[1], Len(w[2]), w[2]), "Write")
StartSync == Start(Call("Sync", 0, 0, <<>>), "Sync")

\* The error set by a call that fails while UpdateHandle mounts the drive is lost
\* (DeviceMgr.cpp:470): calls go on.
ErrorForgotten ==
  /\ phase = "idle" /\ error /\ tag < MaxTag
  /\ Fault("forget")
  /\ error' = FALSE
  /\ UNCHANGED <<phase, call, cmd, tag, buffer, initVars, ready, reply, known, driveVars>>

-----------------------------------------------------------------------------
(* WriteBulkMsg: a message goes out, or in. *)

\* A message out: the host learns that it was taken, or that it was not, though
\* some of its packets were.
Sent(packets) == ~halted /\ out' = out \o packets /\ UNCHANGED faults
NotSent(packets) ==
  \/ halted /\ UNCHANGED <<out, faults>>
  \/ /\ ~halted /\ Fault("lost")
     /\ \E k \in 0 .. Len(packets) : out' = out \o SubSeq(packets, 1, k)

Drop(n) == in' = SubSeq(in, n + 1, Len(in))

\* The first n packets there are, are of the kind that was asked for.
Fits(kind, n) ==
  /\ ~halted /\ n <= Len(in)
  /\ \A i \in 1 .. n : in[i].kind = kind
  /\ UNCHANGED faults

\* A message in: another packet ends it, or is too long for it; the drive has
\* nothing more to send; or the host controller fails.
NotReceived(kind, n) ==
  \/ halted /\ UNCHANGED <<in, faults>>
  \/ /\ ~halted /\ UNCHANGED faults
     /\ \E k \in 1 .. LeastOf(n, Len(in)) :
          in[k].kind # kind /\ (\A i \in 1 .. k - 1 : in[i].kind = kind) /\ Drop(k)
  \/ /\ ~halted /\ UNCHANGED faults /\ out = <<>> /\ Len(in) < n
     /\ \A i \in 1 .. Len(in) : in[i].kind = kind
     /\ in' = <<>>
  \/ /\ ~halted /\ Fault("lost")
     /\ \E k \in 0 .. LeastOf(n, Len(in)) : Drop(k)

-----------------------------------------------------------------------------
(* SCSITransfer *)

HasSectors == cmd.name \in {"Read", "Write"}
HasResponse == cmd.name \in {"Inquiry", "RequestSense", "ReadCapacity"}

GoOn(next, b) ==
  phase' = next /\ buffer' = b /\ UNCHANGED <<call, cmd, initVars, replyVars>>

\* The transfer is given up at a message that failed.
GiveUp == Return(FALSE, <<>>)

SendCommand ==
  /\ phase = "command"
  /\ tag' = tag + 1
  /\ LET block == <<Packet("cbw", tag + 1, cmd)>>
     IN  \/ Sent(block) /\ GoOn(IF HasSectors \/ HasResponse THEN "data" ELSE "status", <<>>)
         \/ NotSent(block) /\ GiveUp
  /\ UNCHANGED <<in, rx, disk, attention, halted>>

Chunk == LeastOf(ChunkSectors, cmd.count - Len(buffer))

\* The phase after a chunk.
AfterChunk == IF Len(buffer) + Chunk < cmd.count THEN "data" ELSE "status"

ReadChunk ==
  /\ phase = "data" /\ cmd.name = "Read"
  /\ \/ /\ Fits("sector", Chunk) /\ Drop(Chunk)
        /\ GoOn(AfterChunk, buffer \o [i \in 1 .. Chunk |-> in[i].body])
     \/ NotReceived("sector", Chunk) /\ GiveUp
  /\ UNCHANGED <<tag, out, rx, disk, attention, halted>>

WriteChunk ==
  /\ phase = "data" /\ cmd.name = "Write"
  /\ LET texts == SubSeq(call.data, Len(buffer) + 1, Len(buffer) + Chunk)
         packets == [i \in 1 .. Chunk |-> Packet("sector", tag, texts[i])]
     IN  \/ Sent(packets) /\ GoOn(AfterChunk, buffer \o texts)
         \/ NotSent(packets) /\ GiveUp
  /\ UNCHANGED <<tag, in, rx, disk, attention, halted>>

\* The response of Inquiry, RequestSense and ReadCapacity.
ReadResponse ==
  /\ phase = "data" /\ HasResponse
  /\ \/ Fits(cmd.name, 1) /\ Drop(1) /\ GoOn("status", <<>>)
     \/ NotReceived(cmd.name, 1) /\ GiveUp
  /\ UNCHANGED <<tag, out, rx, disk, attention, halted>>

M_StatusOfAny(p) == p.body
M_StatusOfTag(p) == p.tag = tag

\* The status has the tag of this command, nothing left over, and no failure.
StatusOK(p) == p.tag = tag /\ p.body

ReadStatus ==
  /\ phase = "status"
  /\ \/ Fits("csw", 1) /\ Drop(1) /\ Return(StatusOK(Head(in)), buffer)
     \/ NotReceived("csw", 1) /\ GiveUp
  /\ UNCHANGED <<tag, out, rx, disk, attention, halted>>

-----------------------------------------------------------------------------
(* The drive takes the next packet. *)

Status(t, ok) == <<Packet("csw", t, ok)>>

\* What is stored from sector `first` on.
Stored(first, texts) ==
  [s \in Sectors |-> IF s \in first .. first + Len(texts) - 1
                     THEN texts[s - first + 1] ELSE disk[s]]

\* A unit with a unit attention answers nothing but Inquiry and RequestSense.
Able(c) ==
  \/ c.name \in {"Inquiry", "RequestSense"}
  \/ attention[c.lun] = 0 /\ Units[c.lun] # "empty"

Content(c, n, t) == [i \in 1 .. n |-> Packet("sector", t, disk[c.first + i - 1])]

Serves(c, t) ==
  /\ Able(c)
  /\ IF c.name = "Write"
     THEN rx' = [tag |-> t, first |-> c.first, count |-> c.count, got |-> <<>>] /\ UNCHANGED in
     ELSE /\ UNCHANGED rx
          /\ in' = in \o (IF c.name = "Read" THEN Content(c, c.count, t)
                          ELSE IF c.name \in {"Inquiry", "RequestSense", "ReadCapacity"}
                               THEN <<Packet(c.name, t, TRUE)>> ELSE <<>>)
                      \o Status(t, TRUE)
  /\ attention' = IF c.name = "RequestSense" /\ attention[c.lun] > 0
                  THEN [attention EXCEPT ![c.lun] = @ - 1] ELSE attention
  /\ UNCHANGED <<disk, halted, faults>>

\* It fails, after some of the data of a read.
Refuses(c, t) ==
  /\ IF Able(c) THEN Fault("status") ELSE UNCHANGED faults
  /\ \E n \in 0 .. (IF c.name = "Read" THEN c.count - 1 ELSE 0) :
       in' = in \o Content(c, n, t) \o Status(t, FALSE)
  /\ UNCHANGED <<rx, disk, attention, halted>>

TakesSector(text) ==
  LET got == Append(rx.got, text)
  IN  /\ IF Len(got) < rx.count
         THEN rx' = [rx EXCEPT !.got = got] /\ UNCHANGED <<in, disk, faults>>
         ELSE /\ rx' = NoWrite
              /\ \/ disk' = Stored(rx.first, got) /\ in' = in \o Status(rx.tag, TRUE)
                    /\ UNCHANGED faults
                 \/ /\ Fault("status")
                    /\ \E n \in 0 .. Len(got) : disk' = Stored(rx.first, SubSeq(got, 1, n))
                    /\ in' = in \o Status(rx.tag, FALSE)
      /\ UNCHANGED <<attention, halted>>

\* A command comes where data should: the write is over.
CutsWrite ==
  /\ rx' = NoWrite
  /\ \E n \in 0 .. Len(rx.got) : disk' = Stored(rx.first, SubSeq(rx.got, 1, n))
  /\ in' = in \o Status(rx.tag, FALSE)
  /\ UNCHANGED <<attention, halted, faults>>

Stalls ==
  /\ Fault("stall")
  /\ halted' = TRUE
  /\ UNCHANGED <<in, rx, disk, attention>>

Drive ==
  /\ ~halted /\ out # <<>>
  /\ out' = Tail(out)
  /\ LET p == Head(out)
     IN  \/ p.kind = "cbw" /\ rx = NoWrite /\ (Serves(p.body, p.tag) \/ Refuses(p.body, p.tag))
         \/ p.kind = "cbw" /\ rx # NoWrite /\ CutsWrite
         \/ p.kind = "sector" /\ rx # NoWrite /\ TakesSector(p.body)
         \* Data comes where a command should.
         \/ p.kind = "sector" /\ rx = NoWrite /\ UNCHANGED <<in, rx, disk, attention, halted, faults>>
         \/ Stalls
  /\ UNCHANGED driverVars

-----------------------------------------------------------------------------
Calls == StartInit \/ InitFails \/ StartRead \/ StartWrite \/ StartSync \/ ErrorForgotten
Transfer == SendCommand \/ ReadChunk \/ WriteChunk \/ ReadResponse \/ ReadStatus

Next == Calls \/ Transfer \/ Drive

Spec == Init /\ [][Next]_vars

-----------------------------------------------------------------------------
(* Properties *)

PacketKinds == {"cbw", "sector", "csw", "Inquiry", "RequestSense", "ReadCapacity"}

\* The variables have their types, and a status has no tag that was not sent yet.
TypeOK ==
  /\ phase \in {"idle", "command", "data", "status"}
  /\ tag \in Nat /\ lun \in 0 .. Cardinality(Luns) /\ try \in 0 .. Tries - 1
  /\ found \in BOOLEAN /\ ready \in BOOLEAN /\ error \in BOOLEAN
  /\ known \in [Sectors -> SUBSET Data] /\ disk \in [Sectors -> Data]
  /\ attention \in [Luns -> 0 .. MaxAttentions] /\ halted \in BOOLEAN
  /\ \A i \in 1 .. Len(in) : in[i].kind \in PacketKinds \ {"cbw"} /\ in[i].tag \in 1 .. tag
  /\ \A i \in 1 .. Len(out) : out[i].kind \in {"cbw", "sector"} /\ out[i].tag \in 1 .. tag
  /\ rx = NoWrite \/ rx.tag \in 1 .. tag

\* A command that succeeds leaves nothing behind in the drive, whatever the
\* commands before it left (the check of the tag, USBStorage.cpp:123): the next
\* one starts in step.
InStep ==
  phase = "idle" /\ reply.ok => in = <<>> /\ out = <<>> /\ rx = NoWrite

\* "This can clear a UNIT ATTENTION condition" (USBStorage.cpp:198): if no message
\* fails, Init finds the disk behind units without one and unit attentions, fewer
\* than it makes attempts.
InitFindsTheDisk ==
  reply.call = "Init" /\ ~reply.ok /\ faults = 0 =>
    ~\E l \in Luns : Units[l] = "disk" /\ MaxAttentions < Tries

\* The drive is the store of sectors FatFS was promised.
Store == INSTANCE BlockStore WITH known <- known, reply <- reply,
                                  Sectors <- Sectors, Data <- Data

ImplementsStore == Store!Spec

=============================================================================
