-------------------------- MODULE USBStorageProofs --------------------------
(***************************************************************************)
(* Proofs about the driver of a USB drive: a command that succeeds leaves  *)
(* nothing behind, and the driver implements BlockStore, whatever faults   *)
(* happen, for any units, sectors and sizes of buffer; and FindLun finds   *)
(* the disk of a drive behind any number of other units and through unit   *)
(* attentions, as long as no message fails.                                *)
(***************************************************************************)
EXTENDS USBStorage, SequenceTheorems, FiniteSetTheorems, TLAPS

InitNames == {"TestUnitReady", "Inquiry", "RequestSense", "ReadCapacity"}
Names == InitNames \cup {"none", "Read", "Write", "Sync"}
Responses == {"Inquiry", "RequestSense", "ReadCapacity"}

\* Commands as they are sent, and what waits in the queues.
Commands ==
  {c \in [name : Names, lun : Nat, first : Nat, count : Nat] :
     c.name \in {"Read", "Write"} => c.count # 0 /\ c.first .. c.first + c.count - 1 \subseteq Sectors}
OutPackets ==
  [kind : {"cbw"}, tag : Nat, body : Commands] \cup [kind : {"sector"}, tag : Nat, body : Data]
InPackets ==
  [kind : {"sector"}, tag : Nat, body : Data] \cup [kind : {"csw"}, tag : Nat, body : BOOLEAN]
    \cup [kind : Responses, tag : Nat, body : BOOLEAN]

QueueTypes ==
  /\ tag \in Nat
  /\ in \in Seq(InPackets) /\ out \in Seq(OutPackets)
  /\ \A i \in 1 .. Len(in) : in[i].tag \in 1 .. tag
  /\ \A i \in 1 .. Len(out) : out[i].tag \in 1 .. tag
  /\ rx \in [tag : 0 .. tag, first : Nat, count : Nat, got : Seq(Data)]
  /\ rx # NoWrite => rx.tag # 0
  /\ disk \in [Sectors -> Data] /\ halted \in BOOLEAN

UnitTypes == attention \in [Luns -> 0 .. MaxAttentions]

SearchTypes ==
  /\ lun \in Nat /\ lun <= Cardinality(Luns) /\ try \in 0 .. Tries - 1 /\ found \in BOOLEAN
  /\ phase # "idle" /\ call.name = "Init" => lun \in Luns

ReplyTypes ==
  /\ ready \in BOOLEAN /\ error \in BOOLEAN
  /\ known \in [Sectors -> SUBSET Data]

\* The call in progress, its command, and how far the transfer is.
CallInv ==
  /\ phase \in {"idle", "command", "data", "status"}
  /\ call.name \in {"none", "Init", "Read", "Write", "Sync"}
  /\ phase = "idle" <=> call.name = "none"
  /\ call.first \in Nat /\ call.count \in Nat
  /\ call.name \in {"Read", "Write"} =>
       call.count # 0 /\ call.first .. call.first + call.count - 1 \subseteq Sectors
  /\ call.name = "Write" => call.data \in Seq(Data) /\ Len(call.data) = call.count
  /\ phase # "idle" =>
       /\ cmd \in Commands
       /\ IF call.name = "Init" THEN cmd.name \in InitNames
          ELSE cmd.name = call.name /\ cmd.first = call.first /\ cmd.count = call.count
  /\ buffer \in Seq(Data)
  /\ phase = "data" =>
       (HasSectors \/ HasResponse) /\ (HasSectors => Len(buffer) < cmd.count)
  /\ phase = "status" /\ HasSectors => Len(buffer) = cmd.count
  /\ phase = "command" \/ ~HasSectors => buffer = <<>>
  /\ HasSectors /\ call.name = "Write" => \A i \in 1 .. Len(buffer) : buffer[i] = call.data[i]

QTypes == QueueTypes /\ UnitTypes
DriverInv == SearchTypes /\ ReplyTypes /\ CallInv

\* The command has been sent.
Live == phase \in {"data", "status"}

\* Only sectors follow packet p of the queue to the drive.
SectorsAfter(p) == \A r \in p + 1 .. Len(out) : out[r].kind = "sector"

\* Nothing but its own data follows the command with the newest tag.
NewestIsLast ==
  /\ \A p \in 1 .. Len(out) : out[p].kind = "cbw" /\ out[p].tag = tag => SectorsAfter(p)
  /\ rx # NoWrite /\ rx.tag = tag => SectorsAfter(0)

\* The last command in the queue is the one being transferred, with what the
\* driver has sent for it.
CommandIsLast ==
  Live => \A p \in 1 .. Len(out) :
    out[p].kind = "cbw" /\ SectorsAfter(p) =>
      /\ out[p].body = cmd /\ out[p].tag = tag
      /\ IF cmd.name = "Write"
         THEN /\ Len(out) = p + Len(buffer)
              /\ \A j \in 1 .. Len(buffer) : out[p + j].body = buffer[j]
         ELSE Len(out) = p

\* So has a write the drive takes data for, once no command is in the queue.
WriteIsLast ==
  Live /\ SectorsAfter(0) /\ rx # NoWrite =>
    /\ cmd.name = "Write" /\ rx.tag = tag /\ rx.first = cmd.first /\ rx.count = cmd.count
    /\ Len(buffer) = Len(rx.got) + Len(out)
    /\ \A j \in 1 .. Len(rx.got) : rx.got[j] = buffer[j]
    /\ \A j \in 1 .. Len(out) : out[j].body = buffer[Len(rx.got) + j]

Succeeded(p) == p.kind = "csw" /\ p.tag = tag /\ p.body = TRUE

\* Sector j of a read is before the status in `in`, or in the driver's buffer.
ReadIsThere ==
  \A j \in 1 .. cmd.count :
    LET k == Len(in) - 1 - cmd.count + j
        text == disk[cmd.first + j - 1]
    IN  IF k >= 1 THEN in[k].kind = "sector" /\ in[k].body = text
        ELSE Len(buffer) + k >= 1 /\ buffer[Len(buffer) + k] = text

\* A success of this command is the last the drive has to say, and true.
SuccessIsLast ==
  Live => \A i \in 1 .. Len(in) :
    Succeeded(in[i]) =>
      /\ i = Len(in) /\ out = <<>> /\ rx = NoWrite
      /\ cmd.name = "Read" => ReadIsThere
      /\ cmd.name = "Write" =>
           /\ phase = "status"
           /\ \A j \in 1 .. cmd.count : disk[cmd.first + j - 1] = call.data[j]

\* Text may be in sector s: the replies allow it, or it is what a write has there.
Permits(old, c, s, text) ==
  s \in Sectors =>
    \/ text \in old[s]
    \/ /\ c.name = "Write" /\ s \in c.first .. c.first + c.count - 1
       /\ text = c.data[s - c.first + 1]

Allowed(s, text) == Permits(known, call, s, text)

\* So may all that is on its way.
PendingAllowed ==
  /\ \A p, q \in 1 .. Len(out) :
       p < q /\ out[p].kind = "cbw" /\ out[p].body.name = "Write"
         /\ (\A r \in p + 1 .. q : out[r].kind = "sector") =>
         Allowed(out[p].body.first + (q - p) - 1, out[q].body)
  /\ rx # NoWrite =>
       /\ \A i \in 1 .. Len(rx.got) : Allowed(rx.first + i - 1, rx.got[i])
       /\ \A q \in 1 .. Len(out) :
            (\A r \in 1 .. q : out[r].kind = "sector") =>
              Allowed(rx.first + Len(rx.got) + q - 1, out[q].body)

QueueInv == NewestIsLast /\ CommandIsLast /\ WriteIsLast /\ SuccessIsLast /\ PendingAllowed

DiskAllowed == \A s \in Sectors : Allowed(s, disk[s])

Consistent ==
  /\ QTypes /\ DriverInv
  /\ Live => tag # 0
  /\ ~halted => QueueInv
  /\ DiskAllowed /\ InStep

-----------------------------------------------------------------------------
(* Sequences. *)

LEMMA Joined ==
  ASSUME NEW S, NEW s \in Seq(S), NEW t \in Seq(S)
  PROVE  /\ s \o t \in Seq(S) /\ Len(s \o t) = Len(s) + Len(t)
         /\ \A i \in 1 .. Len(s) : (s \o t)[i] = s[i]
         /\ \A i \in 1 .. Len(t) : (s \o t)[Len(s) + i] = t[i]
OBVIOUS

LEMMA Dropped ==
  ASSUME NEW S, NEW s \in Seq(S), NEW n \in 0 .. Len(s)
  PROVE  LET r == SubSeq(s, n + 1, Len(s))
         IN  /\ r \in Seq(S) /\ Len(r) = Len(s) - n
             /\ \A i \in 1 .. Len(s) - n : r[i] = s[i + n]
OBVIOUS

LEMMA Prefix ==
  ASSUME NEW S, NEW s \in Seq(S), NEW n \in 0 .. Len(s)
  PROVE  LET r == SubSeq(s, 1, n)
         IN  r \in Seq(S) /\ Len(r) = n /\ \A i \in 1 .. n : r[i] = s[i]
OBVIOUS

LEMMA TailOf ==
  ASSUME NEW S, NEW s \in Seq(S), s # <<>>
  PROVE  /\ Tail(s) \in Seq(S) /\ Len(Tail(s)) = Len(s) - 1 /\ Len(s) \in Nat \ {0}
         /\ Head(s) = s[1] /\ s[1] \in S
         /\ \A i \in 1 .. Len(s) - 1 : Tail(s)[i] = s[i + 1]
OBVIOUS

LEMMA SingleOf ==
  ASSUME NEW S, NEW x \in S
  PROVE  <<x>> \in Seq(S) /\ Len(<<x>>) = 1 /\ <<x>>[1] = x
OBVIOUS

-----------------------------------------------------------------------------
(* How a transfer ends. *)

\* A call that goes on with another command.
Continues ==
  /\ phase' = "command" /\ buffer' = <<>> /\ call.name = "Init"
  /\ UNCHANGED <<call, ready, error, reply, known>>
  /\ cmd' \in Commands /\ cmd'.name \in InitNames
  /\ lun' \in Luns /\ try' \in 0 .. Tries - 1 /\ found' \in BOOLEAN

\* The sectors a call that ends speaks of.
Written == IF call.name = "Write" THEN call.data ELSE <<>>

Ends(ok, data) ==
  /\ Finish(ok, data)
  /\ lun' \in Nat /\ lun' <= Cardinality(Luns) /\ try' \in 0 .. Tries - 1 /\ found' \in BOOLEAN

LEMMA Sizes ==
  /\ Tries \in Nat \ {0} /\ ChunkSectors \in Nat \ {0} /\ Sectors \subseteq Nat
  /\ \E n \in 1 .. 16 : Luns = 0 .. n - 1 /\ Cardinality(Luns) = n
<1>1. PICK n \in 1 .. 16 : Luns = 0 .. n - 1
  BY DriveAssumption
<1>2. Cardinality(0 .. n - 1) = n
  <2>1. 0 \in Int /\ n - 1 \in Int
    BY <1>1
  <2>2. Cardinality(0 .. n - 1) = IF 0 > n - 1 THEN 0 ELSE (n - 1) - 0 + 1
    BY <2>1, FS_Interval, Zenon
  <2> QED BY <2>2
<1> QED BY <1>1, <1>2, DriveAssumption

LEMMA LunsAreNat == Luns \subseteq Nat /\ 0 \in Luns
                    /\ \A l \in Luns : l + 1 <= Cardinality(Luns)
BY Sizes

LEMMA ContinueStep ==
  ASSUME NEW name \in InitNames, NEW l \in Luns, Continue(name, l), call.name = "Init",
         lun' \in Luns, try' \in 0 .. Tries - 1, found' \in BOOLEAN
  PROVE  Continues
<1>1. cmd' = Command(name, l, 0, 0) /\ phase' = "command" /\ buffer' = <<>>
      /\ UNCHANGED <<call, ready, error, reply, known>>
  BY DEF Continue, Issue, replyVars
<1>2. Command(name, l, 0, 0) \in Commands
  BY LunsAreNat DEF Command, Commands, Names, InitNames
<1>3. cmd'.name = name
  BY <1>1 DEF Command
<1> QED BY <1>1, <1>2, <1>3 DEF Continues

LEMMA ReturnCases ==
  ASSUME CallInv, SearchTypes, phase # "idle", NEW b \in BOOLEAN, NEW d, Return(b, d)
  PROVE  \/ Continues
         \/ Ends(FALSE, Written)
         \/ b /\ Ends(TRUE, IF HasSectors /\ cmd.name = "Read" THEN d
                            ELSE IF cmd.name = "Sync" THEN d ELSE Written)
<1>1. /\ call.name = "Init" <=> cmd.name \in InitNames
      /\ call.name # "Init" => cmd.name = call.name
      /\ call.name = "Init" => lun \in Luns
  BY DEF CallInv, SearchTypes, InitNames
<1>2. lun \in Nat /\ lun <= Cardinality(Luns) /\ try \in 0 .. Tries - 1 /\ found \in BOOLEAN
  BY DEF SearchTypes
<1>3. CASE TestedUnit(b)
  <2>1. call.name = "Init" /\ UNCHANGED <<lun, try, found>>
    BY <1>1, <1>3 DEF TestedUnit, InitNames, initVars
  <2>2. Continue("Inquiry", lun) \/ Continue("RequestSense", lun)
    BY <1>3 DEF TestedUnit
  <2> QED BY <1>1, <1>2, <2>1, <2>2, ContinueStep DEF InitNames
<1>4. CASE Inquired(b)
  <2>1. call.name = "Init" /\ UNCHANGED <<lun, try>>
    BY <1>1, <1>4 DEF Inquired, InitNames
  <2>2. \/ Continue("ReadCapacity", lun) /\ found' = TRUE
        \/ Continue("RequestSense", lun) /\ found' = found
    BY <1>4 DEF Inquired
  <2> QED BY <1>1, <1>2, <2>1, <2>2, ContinueStep DEF InitNames
<1>5. CASE Sensed
  <2>1. call.name = "Init" /\ UNCHANGED found /\ lun \in Luns /\ lun \in Nat
    BY <1>1, <1>2, <1>5 DEF Sensed, InitNames
  <2>2. CASE AnotherTry
    <3>1. try' = try + 1 /\ lun' = lun /\ Continue("TestUnitReady", lun)
      BY <1>5, <2>2 DEF Sensed
    <3>2. try' \in 0 .. Tries - 1
      BY <1>2, <2>2, <3>1, Sizes DEF AnotherTry
    <3> QED BY <1>2, <2>1, <3>1, <3>2, ContinueStep DEF InitNames
  <2>3. CASE ~AnotherTry
    <3>1. try' = 0 /\ lun' = lun + 1 /\ try' \in 0 .. Tries - 1
      BY <1>5, <2>3, Sizes DEF Sensed
    <3>2. CASE lun + 1 \in Luns
      <4>1. Continue("TestUnitReady", lun + 1)
        BY <1>5, <2>3, <3>2 DEF Sensed
      <4> QED BY <1>2, <2>1, <3>1, <3>2, <4>1, ContinueStep DEF InitNames
    <3>3. CASE lun + 1 \notin Luns
      <4>1. Finish(FALSE, <<>>)
        BY <1>5, <2>3, <3>3 DEF Sensed
      <4>2. lun' \in Nat /\ lun' <= Cardinality(Luns)
        BY <2>1, <3>1, LunsAreNat
      <4> QED BY <1>2, <2>1, <3>1, <4>1, <4>2 DEF Ends, Written
    <3> QED BY <3>2, <3>3
  <2> QED BY <2>2, <2>3
<1>6. CASE GotCapacity(b)
  <2>1. call.name = "Init" /\ UNCHANGED <<lun, try, found>>
    BY <1>1, <1>6 DEF GotCapacity, InitNames, initVars
  <2>2. Continue("TestUnitReady", lun) \/ Finish(FALSE, <<>>)
    BY <1>6 DEF GotCapacity
  <2>3. Continue("TestUnitReady", lun) => Continues
    BY <1>1, <1>2, <2>1, ContinueStep DEF InitNames
  <2> QED BY <1>2, <2>1, <2>2, <2>3 DEF Ends, Written
<1>7. CASE TestedLast(b)
  <2>1. call.name = "Init" /\ UNCHANGED <<lun, try, found>> /\ Finish(b, <<>>)
        /\ cmd.name = "TestUnitReady"
    BY <1>1, <1>7 DEF TestedLast, InitNames, initVars
  <2>2. CASE b = TRUE
    BY <1>2, <2>1, <2>2 DEF Ends, Written
  <2>3. CASE b = FALSE
    BY <1>2, <2>1, <2>3 DEF Ends, Written
  <2> QED BY <2>2, <2>3
<1>8. CASE MovedSectors(b, d)
  <2>1. /\ cmd.name \in {"Read", "Write", "Sync"} /\ call.name = cmd.name
        /\ UNCHANGED <<lun, try, found>>
    BY <1>1, <1>8 DEF MovedSectors, InitNames, initVars
  <2>2. CASE b = TRUE
    <3>1. Finish(TRUE, IF cmd.name = "Write" THEN call.data ELSE d)
      BY <1>8, <2>2 DEF MovedSectors
    <3> QED BY <1>2, <2>1, <2>2, <3>1 DEF Ends, Written, HasSectors
  <2>3. CASE b = FALSE
    <3>1. Finish(FALSE, IF cmd.name = "Write" THEN call.data ELSE <<>>)
      BY <1>8, <2>3 DEF MovedSectors
    <3> QED BY <1>2, <2>1, <2>3, <3>1 DEF Ends, Written
  <2> QED BY <2>2, <2>3
<1> QED BY <1>3, <1>4, <1>5, <1>6, <1>7, <1>8 DEF Return


-----------------------------------------------------------------------------
(* Types: the driver. *)

LEMMA EndTypes ==
  ASSUME DriverInv, NEW b \in BOOLEAN, NEW d \in Seq(Data), Ends(b, d)
  PROVE  DriverInv'
<1>1. /\ phase' = "idle" /\ call' = NoCall /\ cmd' = NoCommand /\ buffer' = <<>>
      /\ known' = KnownAfter(b, d) /\ error' = ~b
      /\ ready' = (ready \/ (b /\ call.name = "Init"))
  BY DEF Ends, Finish
<1>2. call'.name = "none" /\ call'.first = 0 /\ call'.count = 0 /\ cmd'.name = "none"
  BY <1>1 DEF NoCall, Call, NoCommand, Command
<1>3. CallInv'
  BY <1>1, <1>2 DEF CallInv, HasSectors, HasResponse
<1>4. SearchTypes'
  BY <1>1, <1>2 DEF Ends, SearchTypes
<1>5. call.first \in Nat /\ known \in [Sectors -> SUBSET Data] /\ Sectors \subseteq Nat
  BY Sizes DEF DriverInv, CallInv, ReplyTypes
<1>6. ASSUME NEW s \in Sectors, s \in call.first .. call.first + Len(d) - 1
      PROVE  d[s - call.first + 1] \in Data
  <2>1. s - call.first + 1 \in 1 .. Len(d)
    BY <1>5, <1>6
  <2> QED BY <2>1
<1>7. KnownAfter(b, d) \in [Sectors -> SUBSET Data]
  BY <1>5, <1>6 DEF KnownAfter
<1>8. ready' \in BOOLEAN /\ error' \in BOOLEAN
  BY <1>1 DEF DriverInv, ReplyTypes
<1> QED BY <1>1, <1>3, <1>4, <1>7, <1>8 DEF DriverInv, ReplyTypes

LEMMA ContinueTypes ==
  ASSUME DriverInv, Continues
  PROVE  DriverInv'
<1>1. HasSectors' = FALSE
  BY DEF Continues, HasSectors, InitNames
<1>2. call.first \in Nat /\ call.count \in Nat
  BY DEF DriverInv, CallInv
<1>3. CallInv'
  BY <1>1, <1>2 DEF Continues, CallInv
<1>4. SearchTypes'
  <2>1. lun' \in Nat /\ lun' + 1 <= Cardinality(Luns) /\ Cardinality(Luns) \in Nat
    BY Sizes, LunsAreNat DEF Continues
  <2> QED BY <2>1 DEF Continues, SearchTypes
<1> QED BY <1>3, <1>4 DEF DriverInv, ReplyTypes, Continues

LEMMA WrittenType == DriverInv => Written \in Seq(Data)
BY DEF DriverInv, CallInv, Written

\* A call that returns from a transfer leaves the driver well, and either
\* continues or ends.
LEMMA ReturnTypes ==
  ASSUME DriverInv, phase # "idle", NEW b \in BOOLEAN, NEW d \in Seq(Data), Return(b, d)
  PROVE  DriverInv'
<1>1. Written \in Seq(Data)
  BY WrittenType
<1>2. \/ Continues
      \/ Ends(FALSE, Written)
      \/ Ends(TRUE, d)
      \/ Ends(TRUE, Written)
  BY ReturnCases DEF DriverInv
<1> QED BY <1>1, <1>2, ContinueTypes, EndTypes

\* What a transfer that was given up does to the call.
Fails == Continues \/ Ends(FALSE, Written)

LEMMA GiveUpFails ==
  ASSUME DriverInv, phase # "idle", GiveUp
  PROVE  Fails /\ DriverInv'
<1>1. <<>> \in Seq(Data)
  OBVIOUS
<1>2. Return(FALSE, <<>>)
  BY DEF GiveUp
<1>3. DriverInv'
  BY <1>1, <1>2, ReturnTypes
<1>4. Continues \/ Ends(FALSE, Written)
  BY <1>2, ReturnCases DEF DriverInv
<1> QED BY <1>3, <1>4 DEF Fails

\* Phases after the first of a transfer.
LEMMA GoOnTypes ==
  ASSUME DriverInv, phase # "idle", NEW p \in {"data", "status"}, NEW b \in Seq(Data), GoOn(p, b),
         ~HasSectors => b = <<>>,
         p = "data" => (HasSectors \/ HasResponse) /\ (HasSectors => Len(b) < cmd.count),
         p = "status" /\ HasSectors => Len(b) = cmd.count,
         call.name = "Write" => \A i \in 1 .. Len(b) : b[i] = call.data[i]
  PROVE  DriverInv'
<1>1. /\ phase' = p /\ buffer' = b
      /\ UNCHANGED <<call, cmd, lun, try, found, ready, error, reply, known>>
  BY DEF GoOn, initVars, replyVars
<1>2. HasSectors' = HasSectors /\ HasResponse' = HasResponse
  BY <1>1 DEF HasSectors, HasResponse
<1>3. CallInv'
  BY <1>1, <1>2 DEF DriverInv, CallInv
<1> QED BY <1>1, <1>3 DEF DriverInv, SearchTypes, ReplyTypes

LEMMA CallsTypes ==
  ASSUME DriverInv, Calls
  PROVE  DriverInv'
<1>1. CASE StartInit
  <2>1. /\ call' = Call("Init", 0, 0, <<>>) /\ cmd' = Command("TestUnitReady", 0, 0, 0)
        /\ phase' = "command" /\ buffer' = <<>> /\ lun' = 0 /\ try' = 0 /\ found' = FALSE
        /\ UNCHANGED <<ready, error, known>>
    BY <1>1 DEF StartInit, Issue, replyVars
  <2>2. call'.name = "Init" /\ call'.first = 0 /\ call'.count = 0
    BY <2>1 DEF Call
  <2>3. cmd' \in Commands /\ cmd'.name = "TestUnitReady"
    BY <2>1 DEF Command, Commands, Names, InitNames
  <2>4. HasSectors' = FALSE
    BY <2>3 DEF HasSectors
  <2>5. CallInv'
    BY <2>1, <2>2, <2>3, <2>4 DEF CallInv, InitNames
  <2>6. SearchTypes'
    <3>1. 0 \in 0 .. Tries - 1 /\ Cardinality(Luns) \in Nat
      BY Sizes
    <3>2. 0 \in Luns /\ 0 <= Cardinality(Luns)
      BY <3>1, LunsAreNat
    <3>3. lun' = 0 /\ try' = 0 /\ found' = FALSE
      BY <2>1
    <3> QED BY <3>1, <3>2, <3>3 DEF SearchTypes
  <2> QED BY <2>1, <2>5, <2>6 DEF DriverInv, ReplyTypes
<1>2. ASSUME NEW c, NEW name \in {"Read", "Write", "Sync"}, Start(c, name),
             c.name = name, c.first \in Nat, c.count \in Nat,
             name # "Sync" => c.count # 0 /\ c.first .. c.first + c.count - 1 \subseteq Sectors,
             name = "Write" => c.data \in Seq(Data) /\ Len(c.data) = c.count
      PROVE  DriverInv'
  <2>1. /\ phase' = "command" /\ call' = c /\ cmd' = Command(name, lun, c.first, c.count)
        /\ buffer' = <<>> /\ UNCHANGED <<lun, try, found, ready, error, known>>
    BY <1>2 DEF Start, Issue, initVars, replyVars
  <2>2. lun \in Nat
    BY DEF DriverInv, SearchTypes
  <2>3. /\ cmd' \in Commands /\ cmd'.name = name /\ cmd'.first = c.first /\ cmd'.count = c.count
    BY <1>2, <2>1, <2>2 DEF Command, Commands, Names, InitNames
  <2>4. CallInv'
    BY <1>2, <2>1, <2>3 DEF CallInv, HasSectors
  <2> QED BY <1>2, <2>1, <2>4 DEF DriverInv, SearchTypes, ReplyTypes
<1>3. CASE StartRead
  <2>1. PICK r \in Reads : Start(Call("Read", r[1], r[2], <<>>), "Read")
    BY <1>3 DEF StartRead
  <2>2. r[2] \in Nat \ {0} /\ r[1] .. r[1] + r[2] - 1 \subseteq Sectors /\ r[1] \in Nat
    BY DriveAssumption
  <2> DEFINE c == Call("Read", r[1], r[2], <<>>)
  <2>3. c.name = "Read" /\ c.first = r[1] /\ c.count = r[2]
    BY DEF Call
  <2> HIDE DEF c
  <2> QED BY <1>2, <2>1, <2>2, <2>3 DEF c
<1>4. CASE StartWrite
  <2>1. PICK w \in Writes : Start(Call("Write", w[1], Len(w[2]), w[2]), "Write")
    BY <1>4 DEF StartWrite
  <2>2. /\ w[2] \in Seq(Data) /\ Len(w[2]) \in Nat \ {0}
        /\ w[1] .. w[1] + Len(w[2]) - 1 \subseteq Sectors /\ w[1] \in Nat
    BY DriveAssumption DEF Data
  <2> DEFINE c == Call("Write", w[1], Len(w[2]), w[2])
  <2>3. c.name = "Write" /\ c.first = w[1] /\ c.count = Len(w[2]) /\ c.data = w[2]
    BY DEF Call
  <2> HIDE DEF c
  <2> QED BY <1>2, <2>1, <2>2, <2>3 DEF c
<1>5. CASE StartSync
  <2> DEFINE c == Call("Sync", 0, 0, <<>>)
  <2>1. Start(c, "Sync")
    BY <1>5 DEF StartSync
  <2>2. c.name = "Sync" /\ c.first = 0 /\ c.count = 0
    BY DEF Call
  <2> HIDE DEF c
  <2> QED BY <1>2, <2>1, <2>2
<1>6. CASE InitFails \/ ErrorForgotten
  <2>1. UNCHANGED <<phase, call, cmd, buffer, lun, try, found, ready, known>> /\ error' \in BOOLEAN
    BY <1>6 DEF InitFails, ErrorForgotten, initVars
  <2> QED BY <2>1 DEF DriverInv, SearchTypes, ReplyTypes, CallInv, HasSectors, HasResponse
<1> QED BY <1>1, <1>3, <1>4, <1>5, <1>6 DEF Calls


-----------------------------------------------------------------------------
(* Types: the queues, for what moves in and out of them. *)

\* More is on its way to the drive.
LEMMA MoreOut ==
  ASSUME QTypes, NEW packets \in Seq(OutPackets), out' = out \o packets,
         tag' \in Nat, tag <= tag', \A i \in 1 .. Len(packets) : packets[i].tag \in 1 .. tag',
         UNCHANGED <<in, rx, disk, attention, halted>>
  PROVE  QTypes'
<1>1. /\ out' \in Seq(OutPackets) /\ Len(out') = Len(out) + Len(packets)
      /\ \A i \in 1 .. Len(out) : out'[i] = out[i]
      /\ \A i \in 1 .. Len(packets) : out'[Len(out) + i] = packets[i]
  BY SMTT(40), Joined DEF QTypes, QueueTypes
<1>2. Len(out) \in Nat /\ Len(packets) \in Nat /\ tag \in Nat
  BY DEF QTypes, QueueTypes
<1>3. ASSUME NEW i \in 1 .. Len(out') PROVE out'[i].tag \in 1 .. tag'
  <2>1. CASE i \in 1 .. Len(out)
    BY <1>1, <1>2, <2>1 DEF QTypes, QueueTypes
  <2>2. CASE i - Len(out) \in 1 .. Len(packets)
    <3>1. out'[Len(out) + (i - Len(out))] = packets[i - Len(out)]
      BY <1>1, <2>2
    <3>2. Len(out) + (i - Len(out)) = i
      BY <1>2
    <3> QED BY <2>2, <3>1, <3>2
  <2> QED BY <1>1, <1>2, <2>1, <2>2
<1>4. \A i \in 1 .. Len(in) : in[i].tag \in 1 .. tag'
  BY <1>2 DEF QTypes, QueueTypes
<1>5. rx \in [tag : 0 .. tag', first : Nat, count : Nat, got : Seq(Data)]
  BY <1>2 DEF QTypes, QueueTypes
<1> QED BY <1>1, <1>3, <1>4, <1>5 DEF QTypes, QueueTypes, UnitTypes

\* Packets the drive has sent are gone.
LEMMA LessIn ==
  ASSUME QTypes, NEW n \in 0 .. Len(in), Drop(n), UNCHANGED <<tag, out, rx, disk, attention, halted>>
  PROVE  /\ QTypes' /\ Len(in') = Len(in) - n
         /\ \A i \in 1 .. Len(in) - n : in'[i] = in[i + n]
<1>1. /\ in' \in Seq(InPackets) /\ Len(in') = Len(in) - n
      /\ \A i \in 1 .. Len(in) - n : in'[i] = in[i + n]
  BY Dropped DEF QTypes, QueueTypes, Drop
<1>2. ASSUME NEW i \in 1 .. Len(in') PROVE in'[i].tag \in 1 .. tag
  <2>1. Len(in) \in Nat
    BY DEF QTypes, QueueTypes
  <2>2. i + n \in 1 .. Len(in) /\ in'[i] = in[i + n]
    BY <1>1, <2>1
  <2> QED BY <2>2 DEF QTypes, QueueTypes
<1> QED BY <1>1, <1>2 DEF QTypes, QueueTypes, UnitTypes

LEMMA NotReceivedDrops ==
  ASSUME QTypes, NEW kind, NEW n \in Nat, NotReceived(kind, n)
  PROVE  \E k \in 0 .. Len(in) : Drop(k)
<1>0. Len(in) \in Nat /\ in \in Seq(InPackets)
  BY DEF QTypes, QueueTypes
<1>1. LeastOf(n, Len(in)) \in 0 .. Len(in)
  BY <1>0 DEF LeastOf
<1>2. CASE in' = in
  <2>1. SubSeq(in, 0 + 1, Len(in)) = in
    BY <1>0
  <2> QED BY <1>0, <1>2, <2>1 DEF Drop
<1>3. CASE in' = <<>>
  <2>1. SubSeq(in, Len(in) + 1, Len(in)) = <<>>
    BY <1>0
  <2> QED BY <1>0, <1>3, <2>1 DEF Drop
<1>4. CASE \E k \in 0 .. LeastOf(n, Len(in)) : Drop(k)
  BY <1>0, <1>1, <1>4
<1>5. CASE \E k \in 1 .. LeastOf(n, Len(in)) : Drop(k)
  BY <1>0, <1>1, <1>5
<1> QED BY <1>2, <1>3, <1>4, <1>5 DEF NotReceived

\* A message out that fails has sent the first packets of it.
LEMMA NotSentPrefix ==
  ASSUME NEW packets \in Seq(OutPackets), QTypes, NotSent(packets)
  PROVE  /\ ~halted => \E k \in 0 .. Len(packets) : out' = out \o SubSeq(packets, 1, k)
         /\ halted => out' = out
BY DEF NotSent

LEMMA Unsent ==
  ASSUME QTypes
  PROVE  out \o <<>> = out /\ <<>> \in Seq(OutPackets) /\ Len(<<>>) = 0
BY DEF QTypes, QueueTypes

\* In either case.
LEMMA OutTypes ==
  ASSUME QTypes, NEW packets \in Seq(OutPackets), Sent(packets) \/ NotSent(packets),
         tag' \in Nat, tag <= tag', \A i \in 1 .. Len(packets) : packets[i].tag \in 1 .. tag',
         UNCHANGED <<in, rx, disk, attention, halted>>
  PROVE  QTypes'
<1>1. CASE Sent(packets)
  BY <1>1, MoreOut DEF Sent
<1>2. CASE NotSent(packets) /\ ~halted
  <2>1. PICK k \in 0 .. Len(packets) : out' = out \o SubSeq(packets, 1, k)
    BY <1>2, NotSentPrefix
  <2> DEFINE some == SubSeq(packets, 1, k)
  <2>2. some \in Seq(OutPackets) /\ Len(some) = k /\ \A i \in 1 .. k : some[i] = packets[i]
    BY Prefix
  <2>3. \A i \in 1 .. Len(some) : some[i].tag \in 1 .. tag'
    BY <2>2
  <2> HIDE DEF some
  <2>4. out' = out \o some
    BY <2>1 DEF some
  <2> QED BY <2>2, <2>3, <2>4, MoreOut
<1>3. CASE NotSent(packets) /\ halted
  <2>1. out' = out \o <<>>
    BY <1>3, NotSentPrefix, Unsent
  <2>2. \A i \in 1 .. Len(<<>>) : <<>>[i].tag \in 1 .. tag'
    BY Unsent
  <2> QED BY <2>1, <2>2, Unsent, MoreOut
<1> QED BY <1>1, <1>2, <1>3

\* The command block, and the packets of a chunk.
LEMMA BlockType ==
  ASSUME QTypes, DriverInv, phase # "idle"
  PROVE  LET block == <<Packet("cbw", tag + 1, cmd)>>
         IN  /\ block \in Seq(OutPackets) /\ Len(block) = 1 /\ tag + 1 \in Nat
             /\ block[1].kind = "cbw" /\ block[1].tag = tag + 1 /\ block[1].body = cmd
<1>1. Packet("cbw", tag + 1, cmd) \in OutPackets
  BY DEF Packet, OutPackets, QTypes, QueueTypes, DriverInv, CallInv
<1>2. Packet("cbw", tag + 1, cmd).kind = "cbw" /\ Packet("cbw", tag + 1, cmd).tag = tag + 1
      /\ Packet("cbw", tag + 1, cmd).body = cmd
  BY DEF Packet
<1> QED BY <1>1, <1>2, SingleOf DEF QTypes, QueueTypes

\* The sectors a chunk moves.
LEMMA ChunkSize ==
  ASSUME DriverInv, phase = "data", HasSectors
  PROVE  /\ Chunk \in Nat \ {0} /\ Len(buffer) \in Nat /\ cmd.count \in Nat
         /\ Len(buffer) + Chunk <= cmd.count
         /\ AfterChunk = IF Len(buffer) + Chunk < cmd.count THEN "data" ELSE "status"
<1>1. Len(buffer) \in Nat /\ cmd.count \in Nat /\ Len(buffer) < cmd.count
  BY DEF DriverInv, CallInv, Commands
<1>2. ChunkSectors \in Nat \ {0}
  BY Sizes
<1> QED BY <1>1, <1>2 DEF Chunk, LeastOf, AfterChunk

NextTexts(n) == SubSeq(call.data, Len(buffer) + 1, Len(buffer) + n)

LEMMA ChunkTexts ==
  ASSUME DriverInv, phase = "data", cmd.name = "Write"
  PROVE  LET texts == NextTexts(Chunk)
         IN  /\ texts \in Seq(Data) /\ Len(texts) = Chunk
             /\ \A i \in 1 .. Chunk : texts[i] = call.data[Len(buffer) + i]
<1>1. call.name = "Write" /\ call.data \in Seq(Data) /\ Len(call.data) = cmd.count
  BY DEF DriverInv, CallInv, InitNames
<1>2. HasSectors
  BY DEF HasSectors
<1>3. Chunk \in Nat \ {0} /\ Len(buffer) \in Nat /\ Len(buffer) + Chunk <= Len(call.data)
  BY <1>1, <1>2, ChunkSize
<1> HIDE DEF Chunk
<1> DEFINE m == Len(buffer)
<1>4. m \in Nat /\ m + Chunk <= Len(call.data)
  BY <1>3
<1> HIDE DEF m
<1>5. LET t == SubSeq(call.data, m + 1, m + Chunk)
      IN  t \in Seq(Data) /\ Len(t) = Chunk /\ \A i \in 1 .. Chunk : t[i] = call.data[m + i]
  BY <1>1, <1>3, <1>4
<1> QED BY <1>5 DEF m, NextTexts

LEMMA ChunkPackets ==
  ASSUME QTypes, DriverInv, phase = "data", cmd.name = "Write"
  PROVE  LET texts == NextTexts(Chunk)
             packets == [i \in 1 .. Chunk |-> Packet("sector", tag, texts[i])]
         IN  /\ packets \in Seq(OutPackets) /\ Len(packets) = Chunk
             /\ \A i \in 1 .. Chunk :
                  packets[i].kind = "sector" /\ packets[i].tag = tag /\ packets[i].body = texts[i]
<1> DEFINE texts == NextTexts(Chunk)
<1>1. texts \in Seq(Data) /\ Len(texts) = Chunk /\ Chunk \in Nat
  BY ChunkTexts, ChunkSize DEF HasSectors
<1>2. tag \in Nat
  BY DEF QTypes, QueueTypes
<1> HIDE DEF texts, Chunk
<1>3. \A i \in 1 .. Chunk : Packet("sector", tag, texts[i]) \in OutPackets
  BY <1>1, <1>2 DEF Packet, OutPackets
<1>4. \A i \in 1 .. Chunk :
        /\ Packet("sector", tag, texts[i]).kind = "sector"
        /\ Packet("sector", tag, texts[i]).tag = tag
        /\ Packet("sector", tag, texts[i]).body = texts[i]
  BY DEF Packet
<1> DEFINE packets == [i \in 1 .. Chunk |-> Packet("sector", tag, texts[i])]
<1>5. packets \in Seq(OutPackets) /\ Len(packets) = Chunk
  BY <1>1, <1>3
<1>6. \A i \in 1 .. Chunk : packets[i] = Packet("sector", tag, texts[i])
  OBVIOUS
<1> HIDE DEF packets
<1>7. \A i \in 1 .. Chunk :
        packets[i].kind = "sector" /\ packets[i].tag = tag /\ packets[i].body = texts[i]
  BY <1>4, <1>6
<1> QED BY <1>5, <1>7 DEF packets, texts


-----------------------------------------------------------------------------
(* What may be in a sector. *)

\* The step takes back nothing.
Monotone ==
  \A s, text : Permits(known, call, s, text) => Permits(known', call', s, text)

LEMMA SameAllowed ==
  ASSUME UNCHANGED <<call, known>>
  PROVE  Monotone
BY DEF Monotone

LEMMA FailsKeeps ==
  ASSUME DriverInv, Fails
  PROVE  Monotone /\ ~Live' /\ InStep'
<1>1. CASE Continues
  <2>1. UNCHANGED <<call, known>> /\ phase' = "command"
    BY <1>1 DEF Continues
  <2> QED BY <2>1, SameAllowed DEF Live, InStep
<1>2. CASE Ends(FALSE, Written)
  <2>1. phase' = "idle" /\ reply'.ok = FALSE /\ known' = KnownAfter(FALSE, Written)
    BY <1>2 DEF Ends, Finish
  <2>2. ~Live' /\ InStep'
    BY <2>1 DEF Live, InStep
  <2>3. /\ known \in [Sectors -> SUBSET Data]
        /\ call.name = "Write" => Written = call.data /\ Len(Written) = call.count
    BY DEF DriverInv, CallInv, ReplyTypes, Written
  <2>4. ASSUME NEW s \in Sectors
        PROVE  /\ known[s] \subseteq known'[s]
               /\ call.name = "Write" /\ s \in call.first .. call.first + call.count - 1
                    => call.data[s - call.first + 1] \in known'[s]
    BY <2>1, <2>3 DEF KnownAfter
  <2>5. ASSUME NEW s, NEW text, Permits(known, call, s, text), s \in Sectors
        PROVE  text \in known'[s]
    BY <2>4, <2>5 DEF Permits
  <2>6. Monotone
    BY <2>5 DEF Monotone, Permits, Allowed
  <2> QED BY <2>2, <2>6
<1> QED BY <1>1, <1>2 DEF Fails

LEMMA DiskStays ==
  ASSUME DiskAllowed, Monotone, UNCHANGED disk
  PROVE  DiskAllowed'
BY DEF DiskAllowed, Monotone, Allowed

-----------------------------------------------------------------------------
(* The queues, when the driver moves something. *)

LEMMA AfterTransfer == ~Live' => CommandIsLast' /\ WriteIsLast' /\ SuccessIsLast'
BY DEF CommandIsLast, WriteIsLast, SuccessIsLast

LEMMA SameOut ==
  ASSUME NewestIsLast, PendingAllowed, Monotone, UNCHANGED <<tag, out, rx>>
  PROVE  NewestIsLast' /\ PendingAllowed'
<1>1. NewestIsLast'
  BY DEF NewestIsLast, SectorsAfter
<1>2. ASSUME NEW p \in 1 .. Len(out'), NEW q \in 1 .. Len(out'),
             p < q, out'[p].kind = "cbw", out'[p].body.name = "Write",
             \A r \in p + 1 .. q : out'[r].kind = "sector"
      PROVE  Allowed(out[p].body.first + (q - p) - 1, out[q].body)'
  <2>1. Allowed(out[p].body.first + (q - p) - 1, out[q].body)
    BY <1>2 DEF PendingAllowed
  <2> QED BY <2>1 DEF Monotone, Allowed
<1>3. ASSUME rx' # NoWrite, NEW i \in 1 .. Len(rx'.got)
      PROVE  Allowed(rx.first + i - 1, rx.got[i])'
  <2>1. Allowed(rx.first + i - 1, rx.got[i])
    BY <1>3 DEF PendingAllowed
  <2> QED BY <2>1 DEF Monotone, Allowed
<1>4. ASSUME rx' # NoWrite, NEW q \in 1 .. Len(out'), \A r \in 1 .. q : out'[r].kind = "sector"
      PROVE  Allowed(rx.first + Len(rx.got) + q - 1, out[q].body)'
  <2>1. Allowed(rx.first + Len(rx.got) + q - 1, out[q].body)
    BY <1>4 DEF PendingAllowed
  <2> QED BY <2>1 DEF Monotone, Allowed
<1> QED BY <1>1, <1>2, <1>3, <1>4 DEF PendingAllowed


-----------------------------------------------------------------------------
(* Sending. *)

\* More packets follow those that wait for the drive.
Extended ==
  /\ Len(out') \in Nat /\ Len(out) <= Len(out')
  /\ \A i \in 1 .. Len(out) : out'[i] = out[i]

NewPackets == Len(out) + 1 .. Len(out')

LEMMA OutExtended ==
  ASSUME QTypes, NEW some \in Seq(OutPackets), out' = out \o some
  PROVE  /\ Extended /\ Len(out') = Len(out) + Len(some) /\ Len(out) \in Nat /\ Len(some) \in Nat
         /\ \A i \in 1 .. Len(some) : out'[Len(out) + i] = some[i]
<1>1. out \in Seq(OutPackets)
  BY DEF QTypes, QueueTypes
<1>2. /\ Len(out') = Len(out) + Len(some) /\ \A i \in 1 .. Len(out) : out'[i] = out[i]
      /\ \A i \in 1 .. Len(some) : out'[Len(out) + i] = some[i]
  BY <1>1, Joined
<1>3. Len(out) \in Nat /\ Len(some) \in Nat
  BY <1>1
<1>4. Len(out') \in Nat /\ Len(out) <= Len(out')
  BY <1>2, <1>3
<1> QED BY <1>2, <1>3, <1>4 DEF Extended

\* The place of the next sectors of a call, in it and on the drive.
LEMMA Place ==
  ASSUME NEW f \in Nat, NEW c \in Nat, NEW b \in Nat, NEW i \in Nat \ {0}, b + i <= c
  PROVE  f + b + i - 1 \in f .. f + c - 1 /\ (f + b + i - 1) - f + 1 = b + i
OBVIOUS

LEMMA PendingMore ==
  ASSUME QTypes, PendingAllowed, Monotone, Extended, UNCHANGED rx,
         \A p \in NewPackets, q \in NewPackets : out'[p].kind = "cbw" => out'[q].kind # "sector",
         \A p \in 1 .. Len(out), q \in NewPackets :
           out[p].kind = "cbw" /\ out[p].body.name = "Write" /\ SectorsAfter(p)
             /\ out'[q].kind = "sector" =>
             Permits(known', call', out[p].body.first + (q - p) - 1, out'[q].body),
         \A q \in NewPackets :
           rx # NoWrite /\ SectorsAfter(0) /\ out'[q].kind = "sector" =>
             Permits(known', call', rx.first + Len(rx.got) + q - 1, out'[q].body)
  PROVE  PendingAllowed'
<1>0. Len(out) \in Nat /\ Len(out') \in Nat
  BY DEF QTypes, QueueTypes, Extended
<1>1. ASSUME NEW p \in 1 .. Len(out'), NEW q \in 1 .. Len(out'),
             p < q, out'[p].kind = "cbw", out'[p].body.name = "Write",
             \A r \in p + 1 .. q : out'[r].kind = "sector"
      PROVE  Permits(known', call', out'[p].body.first + (q - p) - 1, out'[q].body)
  <2>0. out'[q].kind = "sector"
    BY <1>0, <1>1
  <2>1. CASE q <= Len(out)
    <3>1. /\ p \in 1 .. Len(out) /\ q \in 1 .. Len(out) /\ out'[p] = out[p] /\ out'[q] = out[q]
          /\ \A r \in p + 1 .. q : out'[r] = out[r]
      BY <1>0, <1>1, <2>1 DEF Extended
    <3>2. \A r \in p + 1 .. q : out[r].kind = "sector"
      BY <1>1, <3>1
    <3>3. Allowed(out[p].body.first + (q - p) - 1, out[q].body)
      BY <1>1, <3>1, <3>2 DEF PendingAllowed
    <3> QED BY <3>1, <3>3 DEF Monotone, Allowed
  <2>2. CASE q > Len(out) /\ p <= Len(out)
    <3>1. p \in 1 .. Len(out) /\ q \in NewPackets /\ out'[p] = out[p]
      BY <1>0, <2>2 DEF Extended, NewPackets
    <3>2. SectorsAfter(p)
      <4> SUFFICES ASSUME NEW r \in p + 1 .. Len(out) PROVE out[r].kind = "sector"
        BY DEF SectorsAfter
      <4>1. r \in p + 1 .. q /\ r \in 1 .. Len(out)
        BY <1>0, <2>2
      <4> QED BY <1>1, <4>1 DEF Extended
    <3> QED BY <1>1, <2>0, <3>1, <3>2
  <2>3. CASE p > Len(out)
    <3>1. p \in NewPackets /\ q \in NewPackets
      BY <1>0, <1>1, <2>3 DEF NewPackets
    <3> QED BY <1>1, <2>0, <3>1
  <2> QED BY <1>0, <2>1, <2>2, <2>3
<1>2. ASSUME rx # NoWrite, NEW i \in 1 .. Len(rx.got)
      PROVE  Permits(known', call', rx.first + i - 1, rx.got[i])
  <2>1. Allowed(rx.first + i - 1, rx.got[i])
    BY <1>2 DEF PendingAllowed
  <2> QED BY <2>1 DEF Monotone, Allowed
<1>3. ASSUME rx # NoWrite, NEW q \in 1 .. Len(out'), \A r \in 1 .. q : out'[r].kind = "sector"
      PROVE  Permits(known', call', rx.first + Len(rx.got) + q - 1, out'[q].body)
  <2>1. CASE q <= Len(out)
    <3>1. q \in 1 .. Len(out) /\ out'[q] = out[q] /\ \A r \in 1 .. q : out'[r] = out[r]
      BY <1>0, <2>1 DEF Extended
    <3>2. \A r \in 1 .. q : out[r].kind = "sector"
      BY <1>3, <3>1
    <3>3. Allowed(rx.first + Len(rx.got) + q - 1, out[q].body)
      BY <1>3, <3>1, <3>2 DEF PendingAllowed
    <3> QED BY <3>1, <3>3 DEF Monotone, Allowed
  <2>2. CASE q > Len(out)
    <3>1. q \in NewPackets /\ out'[q].kind = "sector"
      BY <1>0, <1>3, <2>2 DEF NewPackets
    <3>2. SectorsAfter(0)
      <4> SUFFICES ASSUME NEW r \in 0 + 1 .. Len(out) PROVE out[r].kind = "sector"
        BY DEF SectorsAfter
      <4>1. r \in 1 .. q /\ r \in 1 .. Len(out)
        BY <1>0, <2>2
      <4> QED BY <1>3, <4>1 DEF Extended
    <3> QED BY <1>3, <3>1, <3>2
  <2> QED BY <1>0, <2>1, <2>2
<1> QED BY <1>1, <1>2, <1>3 DEF PendingAllowed, Allowed

\* A command block, or nothing of it.
LEMMA BlockPending ==
  ASSUME QTypes, DriverInv, NewestIsLast, PendingAllowed, Monotone, phase # "idle",
         tag' = tag + 1, UNCHANGED rx,
         out' = out \/ out' = out \o <<Packet("cbw", tag + 1, cmd)>>
  PROVE  NewestIsLast' /\ PendingAllowed'
<1> DEFINE block == <<Packet("cbw", tag + 1, cmd)>>
<1>1. block \in Seq(OutPackets) /\ Len(block) = 1 /\ block[1].kind = "cbw"
  BY BlockType
<1>2. out \in Seq(OutPackets) /\ Len(out) \in Nat /\ tag \in Nat
      /\ \A i \in 1 .. Len(out) : out[i].tag \in 1 .. tag
  BY DEF QTypes, QueueTypes
<1>3. /\ Extended /\ Len(out') <= Len(out) + 1
      /\ Len(out') = Len(out) + 1 => out'[Len(out) + 1].kind = "cbw"
  <2>1. CASE out' = out
    BY <1>2, <2>1 DEF Extended
  <2>2. CASE out' = out \o block
    <3> HIDE DEF block
    <3>1. /\ Extended /\ Len(out') = Len(out) + Len(block)
          /\ \A i \in 1 .. Len(block) : out'[Len(out) + i] = block[i]
      BY <1>1, <2>2, OutExtended
    <3> QED BY <1>1, <1>2, <3>1
  <2> QED BY <2>1, <2>2
<1> HIDE DEF block
<1>4. \A q \in NewPackets : q = Len(out) + 1 /\ Len(out') = Len(out) + 1 /\ out'[q].kind = "cbw"
  BY <1>2, <1>3 DEF NewPackets, Extended
<1>5. PendingAllowed'
  BY <1>3, <1>4, PendingMore
<1>6. ASSUME NEW p \in 1 .. Len(out'), out'[p].kind = "cbw", out'[p].tag = tag'
      PROVE  SectorsAfter(p)'
  <2>1. p \notin 1 .. Len(out)
    BY <1>2, <1>3, <1>6 DEF Extended
  <2>2. p = Len(out')
    BY <1>2, <1>3, <2>1 DEF Extended
  <2>3. \A r \in p + 1 .. Len(out') : out'[r].kind = "sector"
    BY <1>3, <2>2 DEF Extended
  <2> QED BY <2>3 DEF SectorsAfter
<1>7. rx.tag \in 0 .. tag
  BY DEF QTypes, QueueTypes
<1>8. rx'.tag # tag'
  BY <1>2, <1>7
<1> QED BY <1>5, <1>6, <1>8 DEF NewestIsLast

LEMMA BlockSent ==
  ASSUME QTypes, DriverInv, QueueInv, phase = "command", tag' = tag + 1, UNCHANGED <<in, rx>>,
         out' = out \o <<Packet("cbw", tag + 1, cmd)>>, UNCHANGED <<call, cmd, known>>, buffer' = <<>>
  PROVE  QueueInv'
<1>1. Monotone
  BY SameAllowed
<1>2. NewestIsLast' /\ PendingAllowed'
  BY <1>1, BlockPending DEF QueueInv
<1> DEFINE block == <<Packet("cbw", tag + 1, cmd)>>
<1>3. block \in Seq(OutPackets) /\ Len(block) = 1 /\ block[1].kind = "cbw" /\ block[1].tag = tag + 1
      /\ block[1].body = cmd
  BY BlockType
<1>4. out \in Seq(OutPackets) /\ Len(out) \in Nat /\ tag \in Nat
      /\ in \in Seq(InPackets) /\ \A i \in 1 .. Len(in) : in[i].tag \in 1 .. tag
  BY DEF QTypes, QueueTypes
<1>5. out' = out \o block
  OBVIOUS
<1> HIDE DEF block
<1>6. Len(out') = Len(out) + 1 /\ out'[Len(out) + 1] = block[1]
  <2>1. /\ Len(out') = Len(out) + Len(block)
        /\ \A i \in 1 .. Len(block) : out'[Len(out) + i] = block[i]
    BY <1>3, <1>5, OutExtended
  <2> QED BY <1>3, <2>1
<1>7. \A p \in 0 .. Len(out) : ~SectorsAfter(p)'
  <2>1. \A p \in 0 .. Len(out) : Len(out') \in p + 1 .. Len(out')
    BY <1>4, <1>6
  <2>2. out'[Len(out')].kind # "sector"
    BY <1>3, <1>6
  <2> QED BY <2>1, <2>2 DEF SectorsAfter
<1>8. CommandIsLast'
  <2> SUFFICES ASSUME NEW p \in 1 .. Len(out'), SectorsAfter(p)'
               PROVE  out'[p].body = cmd /\ out'[p].tag = tag' /\ Len(out') = p
    BY DEF CommandIsLast
  <2>1. p = Len(out')
    BY <1>4, <1>6, <1>7
  <2> QED BY <1>3, <1>4, <1>6, <2>1
<1>9. WriteIsLast'
  BY <1>4, <1>7 DEF WriteIsLast
<1>10. SuccessIsLast'
  <2>1. \A i \in 1 .. Len(in') : ~Succeeded(in[i])'
    BY <1>4 DEF Succeeded
  <2> QED BY <2>1 DEF SuccessIsLast
<1> QED BY <1>2, <1>8, <1>9, <1>10 DEF QueueInv


\* Sectors of the write in progress, as many as were sent.
LEMMA SectorsPending ==
  ASSUME QTypes, DriverInv, NewestIsLast, CommandIsLast, WriteIsLast, PendingAllowed, Monotone,
         phase = "data", cmd.name = "Write", UNCHANGED <<tag, rx>>,
         NEW n \in 0 .. Chunk, NEW some \in Seq(OutPackets), Len(some) = n, out' = out \o some,
         \A i \in 1 .. n : some[i].kind = "sector" /\ some[i].body = call.data[Len(buffer) + i]
  PROVE  /\ NewestIsLast' /\ PendingAllowed'
         /\ Extended /\ Len(out') = Len(out) + n
         /\ \A i \in 1 .. n : out'[Len(out) + i] = some[i]
<1>1. HasSectors /\ Live /\ call.name = "Write" /\ cmd.first = call.first /\ cmd.count = call.count
      /\ call.first \in Nat
  BY DEF HasSectors, Live, DriverInv, CallInv, InitNames
<1>2. /\ Chunk \in Nat \ {0} /\ Len(buffer) \in Nat /\ cmd.count \in Nat
      /\ Len(buffer) + Chunk <= cmd.count
  BY <1>1, ChunkSize
<1>3. out \in Seq(OutPackets) /\ Len(out) \in Nat /\ tag \in Nat /\ rx.got \in Seq(Data)
  BY DEF QTypes, QueueTypes
<1> HIDE DEF Chunk
<1>4. /\ Len(out') = Len(out) + n /\ n \in Nat
      /\ \A i \in 1 .. Len(out) : out'[i] = out[i]
      /\ \A i \in 1 .. n : out'[Len(out) + i] = some[i]
  BY OutExtended DEF Extended
<1>5. Extended
  BY OutExtended
<1>20. /\ call.first \in Nat /\ call.count \in Nat /\ Len(buffer) \in Nat /\ Len(out) \in Nat
       /\ n \in Nat /\ Len(buffer) + n <= call.count
  BY <1>1, <1>2, <1>3
<1>6. ASSUME NEW q \in NewPackets
      PROVE  q - Len(out) \in 1 .. n /\ out'[q] = some[q - Len(out)]
  <2>1. q - Len(out) \in 1 .. n /\ Len(out) + (q - Len(out)) = q
    BY <1>3, <1>4 DEF NewPackets
  <2>2. out'[Len(out) + (q - Len(out))] = some[q - Len(out)]
    BY <1>4, <2>1
  <2> QED BY <2>1, <2>2
<1>7. ASSUME NEW q \in NewPackets, NEW s, s = call.first + Len(buffer) + (q - Len(out)) - 1
      PROVE  Permits(known', call', s, out'[q].body)
  <2> DEFINE i == q - Len(out)
  <2>1. i \in 1 .. n /\ out'[q].body = call.data[Len(buffer) + i]
    BY <1>6
  <2> HIDE DEF i
  <2>2. s = call.first + Len(buffer) + i - 1
    BY <1>7 DEF i
  <2>3. s \in call.first .. call.first + call.count - 1 /\ s - call.first + 1 = Len(buffer) + i
    <3>1. i \in Nat \ {0} /\ Len(buffer) + i <= call.count
      BY <1>20, <2>1
    <3>2. /\ call.first + Len(buffer) + i - 1 \in call.first .. call.first + call.count - 1
          /\ (call.first + Len(buffer) + i - 1) - call.first + 1 = Len(buffer) + i
      <4> DEFINE f == call.first  b == Len(buffer)  c == call.count
      <4>1. f \in Nat /\ b \in Nat /\ c \in Nat /\ b + i <= c
        BY <1>20, <3>1
      <4> HIDE DEF f, b, c
      <4>2. f + b + i - 1 \in f .. f + c - 1 /\ (f + b + i - 1) - f + 1 = b + i
        BY <3>1, <4>1, Place
      <4> QED BY <4>2 DEF f, b, c
    <3> QED BY <2>2, <3>2
  <2>4. Permits(known, call, s, out'[q].body)
    BY <1>1, <2>1, <2>3 DEF Permits
  <2> QED BY <2>4 DEF Monotone
<1>8. ASSUME NEW p \in 1 .. Len(out), NEW q \in NewPackets, out[p].kind = "cbw", SectorsAfter(p)
      PROVE  Permits(known', call', out[p].body.first + (q - p) - 1, out'[q].body)
  <2>1. out[p].body = cmd /\ Len(out) = p + Len(buffer)
    BY <1>1, <1>8 DEF CommandIsLast
  <2>2. q \in Nat
    BY <1>3, <1>4 DEF NewPackets
  <2>3. out[p].body.first + (q - p) - 1 = call.first + Len(buffer) + (q - Len(out)) - 1
    <3>1. out[p].body.first = call.first
      BY <1>1, <2>1
    <3> QED BY <1>20, <2>1, <2>2, <3>1
  <2> QED BY <1>7, <2>3
<1>9. ASSUME NEW q \in NewPackets, rx # NoWrite, SectorsAfter(0)
      PROVE  Permits(known', call', rx.first + Len(rx.got) + q - 1, out'[q].body)
  <2>1. rx.first = call.first /\ Len(buffer) = Len(rx.got) + Len(out)
    BY <1>1, <1>9 DEF WriteIsLast
  <2>2. q \in Nat /\ Len(rx.got) \in Nat
    BY <1>3, <1>4 DEF NewPackets
  <2>3. rx.first + Len(rx.got) + q - 1 = call.first + Len(buffer) + (q - Len(out)) - 1
    <3> DEFINE f == call.first  g == Len(rx.got)  o == Len(out)  b == Len(buffer)
    <3>1. f \in Nat /\ g \in Nat /\ o \in Nat /\ b \in Nat /\ b = g + o /\ rx.first = f
      BY <1>20, <2>1, <2>2
    <3> HIDE DEF f, g, o, b
    <3>2. f + g + q - 1 = f + b + (q - o) - 1
      BY <2>2, <3>1
    <3>3. rx.first + g + q - 1 = f + b + (q - o) - 1
      BY <3>1, <3>2
    <3> QED BY <3>3 DEF f, g, o, b
  <2> QED BY <1>7, <2>3
<1>10. \A q \in NewPackets : out'[q].kind = "sector"
  BY <1>6
<1>11. PendingAllowed'
  <2>1. \A p \in NewPackets, q \in NewPackets : out'[p].kind = "cbw" => out'[q].kind # "sector"
    BY <1>10
  <2> QED BY <1>5, <1>8, <1>9, <2>1, PendingMore
<1>12. ASSUME NEW p \in 0 .. Len(out), SectorsAfter(p) PROVE SectorsAfter(p)'
  <2> SUFFICES ASSUME NEW r \in p + 1 .. Len(out') PROVE out'[r].kind = "sector"
    BY DEF SectorsAfter
  <2>1. (r \in p + 1 .. Len(out) /\ r \in 1 .. Len(out)) \/ r \in NewPackets
    BY <1>3, <1>4 DEF NewPackets
  <2> QED BY <1>4, <1>10, <1>12, <2>1 DEF SectorsAfter
<1>13. NewestIsLast'
  <2>1. ASSUME NEW p \in 1 .. Len(out'), out'[p].kind = "cbw", out'[p].tag = tag'
        PROVE  SectorsAfter(p)'
    <3>1. p \in 1 .. Len(out)
      BY <1>3, <1>4, <1>10, <2>1 DEF NewPackets
    <3>2. SectorsAfter(p)
      BY <1>4, <2>1, <3>1 DEF NewestIsLast
    <3> QED BY <1>12, <3>1, <3>2
  <2>2. rx' # NoWrite /\ rx'.tag = tag' => SectorsAfter(0)'
    BY <1>3, <1>12 DEF NewestIsLast
  <2> QED BY <2>1, <2>2 DEF NewestIsLast
<1> QED BY <1>4, <1>5, <1>11, <1>13

LEMMA SectorsSent ==
  ASSUME QTypes, DriverInv, QueueInv, phase = "data", cmd.name = "Write",
         UNCHANGED <<tag, in, rx, call, cmd, known>>,
         NEW some \in Seq(OutPackets), Len(some) = Chunk, out' = out \o some,
         NEW texts \in Seq(Data), Len(texts) = Chunk, buffer' = buffer \o texts,
         \A i \in 1 .. Chunk : /\ some[i].kind = "sector" /\ some[i].body = texts[i]
                               /\ texts[i] = call.data[Len(buffer) + i]
  PROVE  QueueInv'
<1>1. Monotone
  BY SameAllowed
<1>2. Chunk \in Nat \ {0} /\ Len(buffer) \in Nat /\ Live
  BY ChunkSize DEF HasSectors, Live
<1> DEFINE n == Chunk
<1>3. n \in 0 .. Chunk /\ Len(some) = n
      /\ \A i \in 1 .. n : some[i].kind = "sector" /\ some[i].body = call.data[Len(buffer) + i]
  BY <1>2
<1>4. /\ NewestIsLast' /\ PendingAllowed' /\ Extended /\ Len(out') = Len(out) + n
      /\ \A i \in 1 .. n : out'[Len(out) + i] = some[i]
  <2> HIDE DEF n
  <2> QED BY <1>1, <1>3, SectorsPending DEF QueueInv
<1> HIDE DEF Chunk
<1>5. out \in Seq(OutPackets) /\ Len(out) \in Nat /\ buffer \in Seq(Data) /\ rx.got \in Seq(Data)
  BY DEF QTypes, QueueTypes, DriverInv, CallInv
<1>6. /\ Len(buffer') = Len(buffer) + n
      /\ \A j \in 1 .. Len(buffer) : buffer'[j] = buffer[j]
      /\ \A j \in 1 .. n : buffer'[Len(buffer) + j] = texts[j]
  BY <1>5, Joined
<1>7. ASSUME NEW p \in 0 .. Len(out), SectorsAfter(p)' PROVE SectorsAfter(p)
  <2> SUFFICES ASSUME NEW r \in p + 1 .. Len(out) PROVE out[r].kind = "sector"
    BY DEF SectorsAfter
  <2>1. r \in p + 1 .. Len(out') /\ r \in 1 .. Len(out)
    BY <1>2, <1>4, <1>5
  <2> QED BY <1>4, <1>7, <2>1 DEF SectorsAfter, Extended
<1>8. CommandIsLast'
  <2> SUFFICES ASSUME NEW p \in 1 .. Len(out'), out'[p].kind = "cbw", SectorsAfter(p)'
               PROVE  /\ out'[p].body = cmd /\ out'[p].tag = tag /\ Len(out') = p + Len(buffer')
                      /\ \A j \in 1 .. Len(buffer') : out'[p + j].body = buffer'[j]
    BY DEF CommandIsLast
  <2>0. out'[p].kind = "cbw"
    OBVIOUS
  <2>1. p \in 1 .. Len(out)
    <3> SUFFICES ASSUME p > Len(out) PROVE FALSE
      BY <1>2, <1>4, <1>5
    <3>1. p - Len(out) \in 1 .. n /\ Len(out) + (p - Len(out)) = p
      BY <1>2, <1>4, <1>5
    <3>2. out'[Len(out) + (p - Len(out))].kind = "sector"
      BY <1>4, <3>1
    <3> QED BY <2>0, <3>1, <3>2
  <2>2. SectorsAfter(p) /\ out'[p] = out[p]
    BY <1>7, <2>1 DEF Extended
  <2>3. /\ out[p].body = cmd /\ out[p].tag = tag /\ Len(out) = p + Len(buffer)
        /\ \A j \in 1 .. Len(buffer) : out[p + j].body = buffer[j]
    BY <1>2, <2>1, <2>2 DEF QueueInv, CommandIsLast
  <2>4. ASSUME NEW j \in 1 .. Len(buffer') PROVE out'[p + j].body = buffer'[j]
    <3>1. CASE j <= Len(buffer)
      <4>1. j \in 1 .. Len(buffer) /\ p + j \in 1 .. Len(out)
        BY <1>2, <1>5, <2>1, <2>3, <3>1
      <4>2. out'[p + j] = out[p + j] /\ buffer'[j] = buffer[j]
        BY <1>4, <1>6, <4>1 DEF Extended
      <4> QED BY <2>3, <4>1, <4>2
    <3>2. CASE j > Len(buffer)
      <4> DEFINE i == j - Len(buffer)
      <4>1. i \in 1 .. n /\ p + j = Len(out) + i /\ j = Len(buffer) + i
        BY <1>2, <1>5, <1>6, <2>1, <2>3, <3>2
      <4> HIDE DEF i
      <4>2. out'[Len(out) + i] = some[i]
        BY <1>4, <4>1
      <4>3. buffer'[Len(buffer) + i] = texts[i]
        BY <1>6, <4>1
      <4>4. some[i].body = texts[i]
        BY <4>1
      <4> QED BY <4>1, <4>2, <4>3, <4>4
    <3>3. j \in Nat
      BY <1>2, <1>6
    <3>4. j <= Len(buffer) \/ j > Len(buffer)
      BY <1>2, <3>3
    <3> QED BY <3>1, <3>2, <3>4
  <2>5. Len(out') = p + Len(buffer')
    BY <1>2, <1>4, <1>5, <1>6, <2>1, <2>3
  <2> QED BY <2>2, <2>3, <2>4, <2>5
<1>9. WriteIsLast'
  <2> SUFFICES ASSUME SectorsAfter(0)', rx # NoWrite
               PROVE  /\ cmd.name = "Write" /\ rx.tag = tag /\ rx.first = cmd.first
                      /\ rx.count = cmd.count /\ Len(buffer') = Len(rx.got) + Len(out')
                      /\ \A j \in 1 .. Len(rx.got) : rx.got[j] = buffer'[j]
                      /\ \A j \in 1 .. Len(out') : out'[j].body = buffer'[Len(rx.got) + j]
    BY DEF WriteIsLast
  <2>1. SectorsAfter(0)
    BY <1>5, <1>7
  <2>2. /\ rx.tag = tag /\ rx.first = cmd.first /\ rx.count = cmd.count
        /\ Len(buffer) = Len(rx.got) + Len(out) /\ Len(rx.got) \in Nat
        /\ \A j \in 1 .. Len(rx.got) : rx.got[j] = buffer[j]
        /\ \A j \in 1 .. Len(out) : out[j].body = buffer[Len(rx.got) + j]
    BY <1>2, <1>5, <2>1 DEF QueueInv, WriteIsLast
  <2>20. /\ Len(buffer) = Len(rx.got) + Len(out) /\ Len(rx.got) \in Nat /\ Len(buffer) \in Nat
         /\ Len(out) \in Nat /\ n \in Nat /\ Len(out') = Len(out) + n
    BY <1>2, <1>4, <1>5, <2>2
  <2>3. \A j \in 1 .. Len(rx.got) : rx.got[j] = buffer'[j]
    <3>1. \A j \in 1 .. Len(rx.got) : j \in 1 .. Len(buffer)
      BY <1>2, <1>5, <2>2
    <3> QED BY <1>6, <2>2, <3>1
  <2>4. ASSUME NEW j \in 1 .. Len(out') PROVE out'[j].body = buffer'[Len(rx.got) + j]
    <3>1. CASE j <= Len(out)
      <4>1. j \in 1 .. Len(out) /\ Len(rx.got) + j \in 1 .. Len(buffer)
        BY <1>2, <1>5, <2>2, <3>1
      <4>2. out'[j] = out[j] /\ buffer'[Len(rx.got) + j] = buffer[Len(rx.got) + j]
        BY <1>4, <1>6, <4>1 DEF Extended
      <4> QED BY <2>2, <4>1, <4>2
    <3>2. CASE j > Len(out)
      <4> DEFINE i == j - Len(out)
      <4>1. i \in 1 .. n /\ j = Len(out) + i /\ Len(rx.got) + j = Len(buffer) + i
        <5> HIDE DEF n
        <5> QED BY <2>20, <3>2
      <4> HIDE DEF i
      <4>2. out'[Len(out) + i] = some[i]
        BY <1>4, <4>1
      <4>3. buffer'[Len(buffer) + i] = texts[i]
        BY <1>6, <4>1
      <4>4. some[i].body = texts[i]
        BY <4>1
      <4> QED BY <4>1, <4>2, <4>3, <4>4
    <3>3. j \in Nat
      BY <2>20
    <3>4. j <= Len(out) \/ j > Len(out)
      BY <2>20, <3>3
    <3> QED BY <3>1, <3>2, <3>4
  <2>5. Len(buffer') = Len(rx.got) + Len(out')
    <3> DEFINE f == Len(buffer)  g == Len(rx.got)  o == Len(out)  m == n
    <3>1. f \in Nat /\ g \in Nat /\ o \in Nat /\ m \in Nat /\ f = g + o
          /\ Len(out') = o + m /\ Len(buffer') = f + m
      BY <2>20, <1>6
    <3> HIDE DEF f, g, o, m
    <3>2. f + m = g + (o + m)
      BY <3>1
    <3>3. Len(buffer') = g + Len(out')
      BY <3>1, <3>2
    <3> QED BY <3>3 DEF g
  <2> QED BY <2>2, <2>3, <2>4, <2>5
<1>10. SuccessIsLast'
  <2>1. \A i \in 1 .. Len(in) : ~Succeeded(in[i])
    BY <1>2 DEF QueueInv, SuccessIsLast
  <2>2. \A i \in 1 .. Len(in') : ~Succeeded(in[i])'
    BY <2>1 DEF Succeeded
  <2> QED BY <2>2 DEF SuccessIsLast
<1> QED BY <1>4, <1>8, <1>9, <1>10 DEF QueueInv


-----------------------------------------------------------------------------
(* Receiving. *)

\* What the driver has not taken stays in place.
LEMMA Received ==
  ASSUME QTypes, DriverInv, QueueInv, phase = "data", cmd.name # "Write",
         NEW n \in 0 .. Len(in), Drop(n), UNCHANGED <<tag, out, rx, disk, attention, halted>>,
         UNCHANGED <<call, cmd, known>>,
         NEW moved \in Seq(Data), buffer' = buffer \o moved,
         cmd.name = "Read" => Len(moved) = n /\ \A i \in 1 .. n : moved[i] = in[i].body
  PROVE  QueueInv'
<1>1. Monotone /\ Live
  BY SameAllowed DEF Live
<1>2. NewestIsLast' /\ PendingAllowed'
  BY <1>1, SameOut DEF QueueInv
<1>3. CommandIsLast'
  <2> SUFFICES ASSUME NEW p \in 1 .. Len(out), out[p].kind = "cbw", SectorsAfter(p)
               PROVE  out[p].body = cmd /\ out[p].tag = tag /\ Len(out) = p
    BY DEF CommandIsLast, SectorsAfter
  <2> QED BY <1>1 DEF QueueInv, CommandIsLast
<1>4. WriteIsLast'
  <2>1. ~(SectorsAfter(0) /\ rx # NoWrite)
    BY <1>1 DEF QueueInv, WriteIsLast
  <2>2. ~(SectorsAfter(0)' /\ rx' # NoWrite)
    BY <2>1 DEF SectorsAfter
  <2> QED BY <2>2 DEF WriteIsLast
<1>5. in \in Seq(InPackets) /\ Len(in) \in Nat /\ buffer \in Seq(Data) /\ Len(buffer) \in Nat
      /\ Len(moved) \in Nat
  BY DEF QTypes, QueueTypes, DriverInv, CallInv
<1>6. Len(in') = Len(in) - n /\ \A i \in 1 .. Len(in) - n : in'[i] = in[i + n]
  BY LessIn
<1>7. /\ Len(buffer') = Len(buffer) + Len(moved)
      /\ \A j \in 1 .. Len(buffer) : buffer'[j] = buffer[j]
      /\ \A j \in 1 .. Len(moved) : buffer'[Len(buffer) + j] = moved[j]
  <2>1. buffer \in Seq(Data)
    BY <1>5
  <2> QED BY <2>1, Joined
<1>8. ASSUME NEW i \in 1 .. Len(in'), Succeeded(in[i])'
      PROVE  /\ Succeeded(in[Len(in)]) /\ i = Len(in') /\ Len(in) \in 1 .. Len(in)
             /\ out = <<>> /\ rx = NoWrite /\ n < Len(in)
             /\ cmd.name = "Read" => ReadIsThere
  <2>1. i + n \in 1 .. Len(in) /\ in'[i] = in[i + n] /\ n < Len(in)
    BY <1>5, <1>6
  <2>2. Succeeded(in[i + n])
    BY <1>8, <2>1 DEF Succeeded
  <2>3. Len(in) = i + n /\ out = <<>> /\ rx = NoWrite /\ (cmd.name = "Read" => ReadIsThere)
    BY <1>1, <2>1, <2>2 DEF QueueInv, SuccessIsLast
  <2>4. i = Len(in')
    BY <1>5, <1>6, <2>3
  <2>5. Succeeded(in[Len(in)])
    BY <2>2, <2>3
  <2>6. Len(in) \in 1 .. Len(in)
    BY <1>5, <2>1
  <2> QED BY <2>1, <2>3, <2>4, <2>5, <2>6
<1>9. ASSUME cmd.name = "Read", ReadIsThere, n < Len(in) PROVE ReadIsThere'
  <2>0. cmd.count \in Nat /\ Len(moved) = n /\ n \in Nat
    BY <1>5, <1>9 DEF DriverInv, CallInv, Commands
  <2> SUFFICES ASSUME NEW j \in 1 .. cmd.count
               PROVE  LET k == Len(in') - 1 - cmd.count + j
                          text == disk[cmd.first + j - 1]
                      IN  IF k >= 1 THEN in'[k].kind = "sector" /\ in'[k].body = text
                          ELSE Len(buffer') + k >= 1 /\ buffer'[Len(buffer') + k] = text
    BY DEF ReadIsThere
  <2> DEFINE k == Len(in) - 1 - cmd.count + j
             text == disk[cmd.first + j - 1]
             l == k - n
  <2>1. k \in Int /\ l \in Int /\ Len(in') - 1 - cmd.count + j = l /\ k < Len(in)
    BY <1>5, <1>6, <2>0
  <2>2. IF k >= 1 THEN in[k].kind = "sector" /\ in[k].body = text
        ELSE Len(buffer) + k >= 1 /\ buffer[Len(buffer) + k] = text
    BY <1>9 DEF ReadIsThere
  <2>3. k = l + n
    BY <2>0, <2>1
  <2> HIDE DEF k, text, l
  <2>4. IF l >= 1 THEN in'[l].kind = "sector" /\ in'[l].body = text
        ELSE Len(buffer') + l >= 1 /\ buffer'[Len(buffer') + l] = text
    <3>1. CASE l >= 1
      <4>1. l \in 1 .. Len(in) - n /\ k >= 1
        BY <1>5, <2>0, <2>1, <2>3, <3>1
      <4>2. in'[l] = in[k]
        BY <1>6, <2>3, <4>1
      <4> QED BY <2>2, <3>1, <4>1, <4>2
    <3>2. CASE ~(l >= 1) /\ k >= 1
      <4>1. k \in 1 .. n
        BY <2>0, <2>1, <2>3, <3>2
      <4>2. buffer'[Len(buffer) + k] = in[k].body
        BY <1>7, <1>9, <2>0, <4>1
      <4>3. Len(buffer') + l = Len(buffer) + k /\ Len(buffer) + k >= 1
        <5> DEFINE b == Len(buffer)
        <5>1. b \in Nat /\ Len(buffer') = b + n
          BY <1>5, <1>7, <2>0
        <5> HIDE DEF b
        <5>2. b + n + l = b + k /\ b + k >= 1
          BY <2>0, <2>1, <2>3, <4>1, <5>1
        <5> QED BY <5>1, <5>2 DEF b
      <4> QED BY <2>2, <3>2, <4>2, <4>3
    <3>3. CASE ~(k >= 1)
      <4>1. ~(l >= 1)
        BY <2>0, <2>1, <2>3, <3>3
      <4>2. Len(buffer) + k >= 1 /\ buffer[Len(buffer) + k] = text
        BY <2>2, <3>3
      <4>3. Len(buffer') + l = Len(buffer) + k /\ Len(buffer) + k \in 1 .. Len(buffer)
        <5> DEFINE b == Len(buffer)
        <5>1. b \in Nat /\ Len(buffer') = b + n /\ b + k >= 1
          BY <1>5, <1>7, <2>0, <4>2
        <5> HIDE DEF b
        <5>2. b + n + l = b + k /\ b + k \in 1 .. b
          BY <2>0, <2>1, <2>3, <3>3, <5>1
        <5> QED BY <5>1, <5>2 DEF b
      <4> QED BY <1>7, <4>1, <4>2, <4>3
    <3> QED BY <3>1, <3>2, <3>3
  <2> QED BY <2>1, <2>4 DEF text
<1>10. SuccessIsLast'
  <2> SUFFICES ASSUME NEW i \in 1 .. Len(in'), Succeeded(in[i])'
               PROVE  /\ i = Len(in') /\ out' = <<>> /\ rx' = NoWrite
                      /\ cmd.name = "Read" => ReadIsThere'
    BY DEF SuccessIsLast
  <2>1. /\ i = Len(in') /\ out = <<>> /\ rx = NoWrite /\ n < Len(in)
        /\ cmd.name = "Read" => ReadIsThere
    BY <1>8
  <2> QED BY <1>9, <2>1
<1> QED BY <1>2, <1>3, <1>4, <1>10 DEF QueueInv


-----------------------------------------------------------------------------
(* How a call ends, and what the store makes of it. *)

StoreStep == Store!Next \/ UNCHANGED <<known, reply>>

LEMMA FailsStore ==
  ASSUME DriverInv, phase # "idle", Fails
  PROVE  StoreStep
<1>1. CASE Continues
  BY <1>1 DEF Continues, StoreStep
<1>2. CASE Ends(FALSE, Written)
  <2>1. /\ reply'.call = call.name /\ reply'.ok = FALSE /\ reply'.first = call.first
        /\ reply'.data = Written /\ known' = KnownAfter(FALSE, Written)
    BY <1>2 DEF Ends, Finish
  <2>2. /\ call.name \in {"Init", "Read", "Write", "Sync"} /\ call.first \in Nat
        /\ known \in [Sectors -> SUBSET Data] /\ Sectors \subseteq Nat
    BY Sizes DEF DriverInv, CallInv, ReplyTypes
  <2>3. CASE call.name = "Write"
    <3>1. known' = [s \in Sectors |->
                      IF s \in reply'.first .. reply'.first + Len(reply'.data) - 1
                      THEN known[s] \cup {reply'.data[s - reply'.first + 1]} ELSE known[s]]
      BY <2>1, <2>3 DEF KnownAfter
    <3>2. Store!WriteFails
      BY <2>1, <2>3, <3>1 DEF Store!WriteFails, Store!Span, Store!Said
    <3> QED BY <3>2 DEF StoreStep, Store!Next
  <2>4. CASE call.name # "Write"
    <3>1. Written = <<>>
      BY <2>4 DEF Written
    <3>2. \A s : s \notin call.first .. call.first + Len(<<>>) - 1
      BY <2>2
    <3>3. known' = [s \in Sectors |-> known[s]]
      BY <2>1, <3>1, <3>2 DEF KnownAfter
    <3>4. known' = known
      BY <2>2, <3>3
    <3>5. Store!Others
      BY <2>1, <2>2, <2>4, <3>4 DEF Store!Others
    <3> QED BY <3>5 DEF StoreStep, Store!Next
  <2> QED BY <2>3, <2>4
<1> QED BY <1>1, <1>2 DEF Fails

\* The transfer has succeeded: the drive is in step, and its sectors hold what was moved.
Succeeds(d) ==
  /\ in' = <<>> /\ out = <<>> /\ rx = NoWrite
  /\ call.name \in {"Read", "Write"} =>
       Len(d) = call.count /\ \A j \in 1 .. Len(d) : d[j] = disk[call.first + j - 1]
  /\ UNCHANGED <<out, rx, disk>>

LEMMA EmptyQueues ==
  ASSUME out' = <<>>, rx' = NoWrite, ~Live'
  PROVE  QueueInv'
<1>1. Len(out') = 0
  OBVIOUS
<1>2. NewestIsLast' /\ PendingAllowed'
  BY <1>1 DEF NewestIsLast, PendingAllowed
<1> QED BY <1>2, AfterTransfer DEF QueueInv

LEMMA SucceedsStore ==
  ASSUME DriverInv, phase # "idle", DiskAllowed, NEW d \in Seq(Data), Ends(TRUE, d), Succeeds(d)
  PROVE  QueueInv' /\ DiskAllowed' /\ InStep' /\ StoreStep
<1>1. /\ reply'.call = call.name /\ reply'.ok = TRUE /\ reply'.first = call.first
      /\ reply'.data = d /\ known' = KnownAfter(TRUE, d) /\ phase' = "idle" /\ call' = NoCall
  BY DEF Ends, Finish
<1>2. /\ call.name \in {"Init", "Read", "Write", "Sync"} /\ call.first \in Nat
      /\ known \in [Sectors -> SUBSET Data] /\ Sectors \subseteq Nat
  BY Sizes DEF DriverInv, CallInv, ReplyTypes
<1>3. QueueInv' /\ InStep'
  BY <1>1, EmptyQueues DEF Succeeds, Live, InStep
<1>4. CASE call.name \notin {"Read", "Write"}
  <2>1. known' = [s \in Sectors |-> known[s]]
    BY <1>1, <1>4 DEF KnownAfter
  <2>2. known' = known
    BY <1>2, <2>1
  <2>3. Store!Others
    BY <1>1, <1>2, <1>4, <2>2 DEF Store!Others
  <2>4. DiskAllowed'
    BY <1>4, <2>2 DEF DiskAllowed, Allowed, Permits, Succeeds
  <2> QED BY <1>3, <2>3, <2>4 DEF StoreStep, Store!Next
<1>5. CASE call.name \in {"Read", "Write"}
  <2>1. known' = [s \in Sectors |->
                    IF s \in call.first .. call.first + Len(d) - 1
                    THEN {d[s - call.first + 1]} ELSE known[s]]
    BY <1>1, <1>5 DEF KnownAfter
  <2>2. Store!Settled(reply')
    BY <1>1, <2>1 DEF Store!Settled, Store!Span, Store!Said
  <2>3. Len(d) = call.count /\ Len(d) \in Nat
        /\ \A j \in 1 .. Len(d) : d[j] = disk[call.first + j - 1]
    BY <1>5 DEF Succeeds
  <2>4. ASSUME NEW s \in Sectors, s \in call.first .. call.first + Len(d) - 1
        PROVE  d[s - call.first + 1] = disk[s]
    <3>1. s \in Nat /\ s - call.first + 1 \in 1 .. Len(d)
      BY <1>2, <2>3, <2>4
    <3>2. call.first + (s - call.first + 1) - 1 = s
      BY <1>2, <3>1
    <3> QED BY <2>3, <3>1, <3>2
  <2>5. ASSUME NEW s \in Sectors,
               call.name = "Read" \/ s \notin call.first .. call.first + Len(d) - 1
        PROVE  disk[s] \in known[s]
    BY <2>3, <2>5 DEF DiskAllowed, Allowed, Permits
  <2>6. ASSUME NEW s \in Sectors PROVE disk'[s] \in known'[s]
    <3>1. disk' = disk
      BY DEF Succeeds
    <3>2. CASE s \in call.first .. call.first + Len(d) - 1
      BY <2>1, <2>4, <3>1, <3>2
    <3>3. CASE s \notin call.first .. call.first + Len(d) - 1
      BY <2>1, <2>5, <3>1, <3>3
    <3> QED BY <3>2, <3>3
  <2>7. DiskAllowed'
    BY <2>6 DEF DiskAllowed, Allowed, Permits
  <2>8. CASE call.name = "Write"
    <3>1. Store!Write
      BY <1>1, <2>2, <2>8 DEF Store!Write
    <3> QED BY <1>3, <2>7, <3>1 DEF StoreStep, Store!Next
  <2>9. CASE call.name = "Read"
    <3>1. call.first .. call.first + Len(d) - 1 \subseteq Sectors
      BY <2>3, <2>9 DEF DriverInv, CallInv
    <3>2. \A s \in call.first .. call.first + Len(d) - 1 : d[s - call.first + 1] \in known[s]
      BY <2>4, <2>5, <2>9, <3>1
    <3>3. \A s \in Store!Span(reply') : Store!Said(reply', s) \in known[s]
      BY <1>1, <3>2 DEF Store!Span, Store!Said
    <3>4. Store!Read
      BY <1>1, <2>2, <2>9, <3>3 DEF Store!Read
    <3> QED BY <1>3, <2>7, <3>4 DEF StoreStep, Store!Next
  <2> QED BY <1>5, <2>8, <2>9
<1> QED BY <1>4, <1>5


-----------------------------------------------------------------------------
(* The steps of a transfer. *)

\* A transfer fails, with the queues as they are or cut short.
LEMMA FailedStep ==
  ASSUME Consistent, phase # "idle", Fails, DriverInv', QTypes', UNCHANGED <<disk, halted>>,
         Monotone /\ ~halted => NewestIsLast' /\ PendingAllowed'
  PROVE  Consistent' /\ StoreStep
<1>1. Monotone /\ ~Live' /\ InStep'
  BY FailsKeeps DEF Consistent
<1>2. ~halted' => QueueInv'
  BY <1>1, AfterTransfer DEF QueueInv
<1>3. DiskAllowed'
  BY <1>1, DiskStays DEF Consistent
<1>4. StoreStep
  BY FailsStore DEF Consistent
<1> QED BY <1>1, <1>2, <1>3, <1>4 DEF Consistent

LEMMA GivenUp ==
  ASSUME Consistent, phase # "idle", GiveUp, QTypes', UNCHANGED <<disk, halted>>,
         Monotone /\ ~halted => NewestIsLast' /\ PendingAllowed'
  PROVE  Consistent' /\ StoreStep
<1>1. Fails /\ DriverInv'
  BY GiveUpFails DEF Consistent
<1> QED BY <1>1, FailedStep

\* A transfer goes on.
LEMMA GoneOn ==
  ASSUME Consistent, phase # "idle", NEW p \in {"data", "status"}, NEW b, GoOn(p, b),
         DriverInv', QTypes', tag' # 0, UNCHANGED <<disk, halted>>, ~halted => QueueInv'
  PROVE  Consistent' /\ StoreStep
<1>1. phase' = p /\ UNCHANGED <<call, known, reply>>
  BY DEF GoOn, replyVars
<1>2. DiskAllowed'
  BY <1>1, SameAllowed, DiskStays DEF Consistent
<1>3. InStep'
  BY <1>1 DEF InStep
<1> QED BY <1>1, <1>2, <1>3 DEF Consistent, StoreStep

LEMMA SendCommandStep == Consistent /\ SendCommand => Consistent' /\ StoreStep
<1> SUFFICES ASSUME Consistent, SendCommand PROVE Consistent' /\ StoreStep
  OBVIOUS
<1> DEFINE block == <<Packet("cbw", tag + 1, cmd)>>
<1>1. /\ phase = "command" /\ tag' = tag + 1 /\ UNCHANGED <<in, rx, disk, attention, halted>>
      /\ \/ Sent(block) /\ GoOn(IF HasSectors \/ HasResponse THEN "data" ELSE "status", <<>>)
         \/ NotSent(block) /\ GiveUp
  BY DEF SendCommand
<1>2. QTypes /\ DriverInv /\ (~halted => QueueInv) /\ phase # "idle"
  BY <1>1 DEF Consistent
<1>3. /\ block \in Seq(OutPackets) /\ Len(block) = 1 /\ tag' \in Nat /\ tag <= tag'
      /\ block[1].tag = tag'
  BY <1>1, <1>2, BlockType DEF QTypes, QueueTypes
<1>4. QTypes'
  <2>1. \A i \in 1 .. Len(block) : block[i].tag \in 1 .. tag'
    <3> HIDE DEF block
    <3>1. \A i \in 1 .. Len(block) : i = 1
      BY <1>3
    <3>2. tag' \in 1 .. tag'
      BY <1>1, <1>2, <1>3 DEF QTypes, QueueTypes
    <3> QED BY <1>3, <3>1, <3>2
  <2>2. Sent(block) \/ NotSent(block)
    BY <1>1
  <2> HIDE DEF block
  <2> QED BY <1>1, <1>2, <1>3, <2>1, <2>2, OutTypes
<1>5. CASE Sent(block) /\ GoOn(IF HasSectors \/ HasResponse THEN "data" ELSE "status", <<>>)
  <2> DEFINE p == IF HasSectors \/ HasResponse THEN "data" ELSE "status"
  <2>1. p \in {"data", "status"} /\ GoOn(p, <<>>)
    BY <1>5
  <2>2. <<>> \in Seq(Data) /\ Len(<<>>) = 0
    OBVIOUS
  <2>3. HasSectors => Len(<<>>) < cmd.count
    BY <1>1, <1>2, <2>2 DEF HasSectors, DriverInv, CallInv, Commands
  <2>4. DriverInv'
    <3>1. p = "data" => HasSectors \/ HasResponse
      OBVIOUS
    <3>2. p = "status" => ~HasSectors
      OBVIOUS
    <3>3. \A i \in 1 .. Len(<<>>) : <<>>[i] = call.data[i]
      BY <2>2
    <3> HIDE DEF p
    <3> QED BY <1>2, <2>1, <2>2, <2>3, <3>1, <3>2, <3>3, GoOnTypes
  <2>5. ~halted => QueueInv'
    <3>1. UNCHANGED <<call, cmd, known>> /\ buffer' = <<>>
      BY <1>5 DEF GoOn, replyVars
    <3>2. out' = out \o block
      BY <1>5 DEF Sent
    <3> QED BY <1>1, <1>2, <3>1, <3>2, BlockSent
  <2>6. tag' # 0
    BY <1>1, <1>2 DEF QTypes, QueueTypes
  <2> HIDE DEF p
  <2> QED BY <1>1, <1>2, <1>4, <2>1, <2>4, <2>5, <2>6, GoneOn
<1>6. CASE NotSent(block) /\ GiveUp
  <2>1. ASSUME Monotone, ~halted PROVE NewestIsLast' /\ PendingAllowed'
    <3>1. out' = out \/ out' = out \o block
      <4>1. PICK k \in 0 .. Len(block) : out' = out \o SubSeq(block, 1, k)
        BY <1>6, <2>1 DEF NotSent
      <4>2. k = 0 \/ k = 1
        BY <1>3, <4>1
      <4> HIDE DEF block
      <4>3. SubSeq(block, 1, 0) = <<>> /\ SubSeq(block, 1, 1) = block
        BY <1>3
      <4>4. out \o <<>> = out
        BY <1>2, Unsent
      <4> QED BY <4>1, <4>2, <4>3, <4>4
    <3> QED BY <1>1, <1>2, <2>1, <3>1, BlockPending DEF QueueInv
  <2> QED BY <1>1, <1>2, <1>4, <1>6, <2>1, GivenUp
<1> QED BY <1>1, <1>5, <1>6

\* A message in that failed.
LEMMA ReceiveFails ==
  ASSUME Consistent, phase # "idle", NEW kind, NEW n \in Nat, NotReceived(kind, n), GiveUp,
         UNCHANGED <<tag, out, rx, disk, attention, halted>>
  PROVE  Consistent' /\ StoreStep
<1>1. QTypes /\ (~halted => QueueInv)
  BY DEF Consistent
<1>2. PICK k \in 0 .. Len(in) : Drop(k)
  BY <1>1, NotReceivedDrops
<1>3. QTypes'
  BY <1>1, <1>2, LessIn
<1>4. Monotone /\ ~halted => NewestIsLast' /\ PendingAllowed'
  BY <1>1, SameOut DEF QueueInv
<1> QED BY <1>3, <1>4, GivenUp

LEMMA ReadChunkStep == Consistent /\ ReadChunk => Consistent' /\ StoreStep
<1> SUFFICES ASSUME Consistent, ReadChunk PROVE Consistent' /\ StoreStep
  OBVIOUS
<1>1. /\ phase = "data" /\ cmd.name = "Read"
      /\ UNCHANGED <<tag, out, rx, disk, attention, halted>>
  BY DEF ReadChunk
<1>2. QTypes /\ DriverInv /\ (~halted => QueueInv) /\ HasSectors
  BY <1>1 DEF Consistent, HasSectors
<1>3. /\ Chunk \in Nat \ {0} /\ Len(buffer) \in Nat /\ cmd.count \in Nat
      /\ Len(buffer) + Chunk <= cmd.count
      /\ AfterChunk = IF Len(buffer) + Chunk < cmd.count THEN "data" ELSE "status"
  BY <1>1, <1>2, ChunkSize
<1>4. CASE NotReceived("sector", Chunk) /\ GiveUp
  BY <1>1, <1>3, <1>4, ReceiveFails
<1>5. CASE /\ Fits("sector", Chunk) /\ Drop(Chunk)
           /\ GoOn(AfterChunk, buffer \o [i \in 1 .. Chunk |-> in[i].body])
  <2> DEFINE n == Chunk
             moved == [i \in 1 .. n |-> in[i].body]
  <2>1. in \in Seq(InPackets) /\ Len(in) \in Nat /\ buffer \in Seq(Data)
    BY <1>2 DEF QTypes, QueueTypes, DriverInv, CallInv
  <2>2. n \in Nat \ {0} /\ n \in 0 .. Len(in) /\ Drop(n) /\ \A i \in 1 .. n : in[i].kind = "sector"
    BY <1>3, <1>5, <2>1 DEF Fits
  <2>3. GoOn(AfterChunk, buffer \o moved)
    BY <1>5
  <2>4. Len(buffer) + n <= cmd.count
        /\ AfterChunk = IF Len(buffer) + n < cmd.count THEN "data" ELSE "status"
    BY <1>3
  <2> HIDE DEF n
  <2>5. \A i \in 1 .. n : in[i].body \in Data
    BY <2>1, <2>2 DEF InPackets, Responses
  <2>6. moved \in Seq(Data) /\ Len(moved) = n /\ \A i \in 1 .. n : moved[i] = in[i].body
    BY <2>2, <2>5
  <2> HIDE DEF moved
  <2>7. buffer \o moved \in Seq(Data) /\ Len(buffer \o moved) = Len(buffer) + n
    BY <2>1, <2>6, Joined
  <2>8. AfterChunk \in {"data", "status"}
    BY <2>4
  <2>9. call.name = "Read"
    BY <1>1, <1>2 DEF DriverInv, CallInv, InitNames
  <2> DEFINE p == AfterChunk
             b == buffer \o moved
  <2>10. /\ p \in {"data", "status"} /\ b \in Seq(Data) /\ GoOn(p, b)
         /\ p = "data" => Len(b) < cmd.count
         /\ p = "status" => Len(b) = cmd.count
    BY <1>3, <2>2, <2>3, <2>4, <2>7, <2>8
  <2>11. UNCHANGED <<call, cmd, known>> /\ buffer' = b
    BY <2>10 DEF GoOn, replyVars
  <2>12. ~halted => QueueInv'
    BY <1>1, <1>2, <2>2, <2>6, <2>11, Received
  <2> HIDE DEF p, b
  <2>13. DriverInv'
    BY <1>1, <1>2, <2>9, <2>10, GoOnTypes
  <2>14. QTypes'
    BY <1>1, <1>2, <2>2, LessIn
  <2>15. tag' # 0
    BY <1>1 DEF Consistent, Live
  <2> QED BY <1>1, <2>10, <2>12, <2>13, <2>14, <2>15, GoneOn
<1> QED BY <1>4, <1>5 DEF ReadChunk

LEMMA WriteChunkStep == Consistent /\ WriteChunk => Consistent' /\ StoreStep
<1> SUFFICES ASSUME Consistent, WriteChunk PROVE Consistent' /\ StoreStep
  OBVIOUS
<1> DEFINE texts == NextTexts(Chunk)
           packets == [i \in 1 .. Chunk |-> Packet("sector", tag, texts[i])]
<1>1. /\ phase = "data" /\ cmd.name = "Write" /\ UNCHANGED <<tag, in, rx, disk, attention, halted>>
      /\ \/ Sent(packets) /\ GoOn(AfterChunk, buffer \o texts)
         \/ NotSent(packets) /\ GiveUp
  BY DEF WriteChunk, NextTexts
<1>2. QTypes /\ DriverInv /\ (~halted => QueueInv) /\ HasSectors /\ call.name = "Write"
  BY <1>1 DEF Consistent, HasSectors, DriverInv, CallInv, InitNames
<1>3. /\ Chunk \in Nat \ {0} /\ Len(buffer) \in Nat /\ cmd.count \in Nat
      /\ Len(buffer) + Chunk <= cmd.count
      /\ AfterChunk = IF Len(buffer) + Chunk < cmd.count THEN "data" ELSE "status"
  BY <1>1, <1>2, ChunkSize
<1>4. /\ texts \in Seq(Data) /\ Len(texts) = Chunk
      /\ \A i \in 1 .. Chunk : texts[i] = call.data[Len(buffer) + i]
  BY <1>1, <1>2, ChunkTexts
<1>5. /\ packets \in Seq(OutPackets) /\ Len(packets) = Chunk
      /\ \A i \in 1 .. Chunk :
           packets[i].kind = "sector" /\ packets[i].tag = tag /\ packets[i].body = texts[i]
  BY <1>1, <1>2, ChunkPackets
<1>6. tag \in Nat /\ tag <= tag /\ tag \in 1 .. tag
  <2>1. tag \in Nat
    BY <1>2 DEF QTypes, QueueTypes
  <2>2. tag # 0
    BY <1>1 DEF Consistent, Live
  <2> QED BY <2>1, <2>2
<1> HIDE DEF texts, packets, Chunk
<1>7. QTypes'
  <2>1. \A i \in 1 .. Len(packets) : packets[i].tag \in 1 .. tag'
    BY <1>1, <1>5, <1>6
  <2> QED BY <1>1, <1>2, <1>5, <1>6, <2>1, OutTypes
<1>8. CASE Sent(packets) /\ GoOn(AfterChunk, buffer \o texts)
  <2>1. buffer \in Seq(Data)
    BY <1>2 DEF DriverInv, CallInv
  <2> DEFINE p == AfterChunk
             b == buffer \o texts
  <2>2. /\ b \in Seq(Data) /\ Len(b) = Len(buffer) + Chunk
        /\ \A i \in 1 .. Len(buffer) : b[i] = buffer[i]
        /\ \A i \in 1 .. Chunk : b[Len(buffer) + i] = texts[i]
    <3>1. texts \in Seq(Data)
      BY <1>4
    <3>2. /\ b \in Seq(Data) /\ Len(b) = Len(buffer) + Len(texts)
          /\ \A i \in 1 .. Len(buffer) : b[i] = buffer[i]
          /\ \A i \in 1 .. Len(texts) : b[Len(buffer) + i] = texts[i]
      BY <2>1, <3>1, Joined
    <3> QED BY <1>4, <3>2
  <2>3. /\ p \in {"data", "status"} /\ GoOn(p, b)
        /\ p = "data" => Len(b) < cmd.count
        /\ p = "status" => Len(b) = cmd.count
    BY <1>3, <1>8, <2>2
  <2>4. UNCHANGED <<call, cmd, known>> /\ buffer' = b
    BY <2>3 DEF GoOn, replyVars
  <2>5. ~halted => QueueInv'
    <3>1. out' = out \o packets
      BY <1>8 DEF Sent
    <3> QED BY <1>1, <1>2, <1>4, <1>5, <2>4, <3>1, SectorsSent
  <2> HIDE DEF p, b
  <2>6. ASSUME NEW i \in 1 .. Len(b) PROVE b[i] = call.data[i]
    <3>1. CASE i \in 1 .. Len(buffer)
      BY <1>2, <2>2, <3>1 DEF DriverInv, CallInv
    <3>2. CASE i - Len(buffer) \in 1 .. Chunk
      <4> DEFINE j == i - Len(buffer)
      <4>1. j \in 1 .. Chunk /\ i = Len(buffer) + j
        BY <1>3, <2>2, <3>2
      <4> HIDE DEF j
      <4> QED BY <1>4, <2>2, <4>1
    <3> QED BY <1>3, <2>2, <3>1, <3>2
  <2>7. DriverInv'
    BY <1>1, <1>2, <2>2, <2>3, <2>6, GoOnTypes
  <2>8. tag' # 0
    BY <1>1, <1>6
  <2> QED BY <1>1, <1>7, <2>3, <2>5, <2>7, <2>8, GoneOn
<1>9. CASE NotSent(packets) /\ GiveUp
  <2>1. ASSUME Monotone, ~halted PROVE NewestIsLast' /\ PendingAllowed'
    <3>1. PICK k \in 0 .. Len(packets) : out' = out \o SubSeq(packets, 1, k)
      BY <1>9, <2>1 DEF NotSent
    <3> DEFINE some == SubSeq(packets, 1, k)
    <3>2. some \in Seq(OutPackets) /\ Len(some) = k /\ \A i \in 1 .. k : some[i] = packets[i]
      BY <1>5, Prefix
    <3>3. out' = out \o some
      BY <3>1
    <3> HIDE DEF some
    <3>4. k \in 0 .. Chunk
      BY <1>5
    <3>5. \A i \in 1 .. k : some[i].kind = "sector" /\ some[i].body = call.data[Len(buffer) + i]
      BY <1>3, <1>4, <1>5, <3>2, <3>4
    <3> QED BY <1>1, <1>2, <2>1, <3>2, <3>3, <3>4, <3>5, SectorsPending DEF QueueInv
  <2> QED BY <1>1, <1>7, <1>9, <2>1, GivenUp
<1> QED BY <1>1, <1>8, <1>9

LEMMA ReadResponseStep == Consistent /\ ReadResponse => Consistent' /\ StoreStep
<1> SUFFICES ASSUME Consistent, ReadResponse PROVE Consistent' /\ StoreStep
  OBVIOUS
<1>1. /\ phase = "data" /\ HasResponse /\ UNCHANGED <<tag, out, rx, disk, attention, halted>>
  BY DEF ReadResponse
<1>2. QTypes /\ DriverInv /\ (~halted => QueueInv) /\ ~HasSectors /\ cmd.name \notin {"Read", "Write"}
  BY <1>1 DEF Consistent, HasSectors, HasResponse
<1>3. CASE NotReceived(cmd.name, 1) /\ GiveUp
  BY <1>1, <1>3, ReceiveFails
<1>4. CASE Fits(cmd.name, 1) /\ Drop(1) /\ GoOn("status", <<>>)
  <2>1. buffer = <<>>
    BY <1>2 DEF DriverInv, CallInv
  <2>2. Len(in) \in Nat /\ 1 \in 0 .. Len(in)
    BY <1>2, <1>4 DEF Fits, QTypes, QueueTypes
  <2>3. UNCHANGED <<call, cmd, known>> /\ buffer' = <<>>
    BY <1>4 DEF GoOn, replyVars
  <2>4. <<>> \in Seq(Data) /\ buffer' = buffer \o <<>> /\ Len(<<>>) = 0
    BY <2>1, <2>3
  <2>5. ~halted => QueueInv'
    BY <1>1, <1>2, <1>4, <2>2, <2>3, <2>4, Received
  <2>6. DriverInv'
    <3>1. \A i \in 1 .. Len(<<>>) : <<>>[i] = call.data[i]
      BY <2>4
    <3> QED BY <1>1, <1>2, <1>4, <2>4, <3>1, GoOnTypes
  <2>7. QTypes'
    BY <1>1, <1>2, <1>4, <2>2, LessIn
  <2>8. tag' # 0
    BY <1>1 DEF Consistent, Live
  <2> QED BY <1>1, <1>4, <2>5, <2>6, <2>7, <2>8, GoneOn
<1> QED BY <1>1, <1>3, <1>4 DEF ReadResponse


LEMMA ReadStatusStep == Consistent /\ ReadStatus => Consistent' /\ StoreStep
<1> SUFFICES ASSUME Consistent, ReadStatus PROVE Consistent' /\ StoreStep
  OBVIOUS
<1>1. phase = "status" /\ UNCHANGED <<tag, out, rx, disk, attention, halted>>
  BY DEF ReadStatus
<1>2. /\ QTypes /\ DriverInv /\ (~halted => QueueInv) /\ DiskAllowed /\ Live
      /\ SearchTypes /\ CallInv /\ phase # "idle"
  BY <1>1 DEF Consistent, Live, DriverInv
<1>3. CASE NotReceived("csw", 1) /\ GiveUp
  BY <1>1, <1>2, <1>3, ReceiveFails
<1>4. CASE Fits("csw", 1) /\ Drop(1) /\ Return(StatusOK(Head(in)), buffer)
  <2>1. ~halted /\ Len(in) >= 1 /\ in[1].kind = "csw"
    BY <1>4 DEF Fits
  <2>2. in \in Seq(InPackets) /\ Len(in) \in Nat /\ buffer \in Seq(Data)
    BY <1>2 DEF QTypes, QueueTypes, CallInv
  <2>3. 1 \in 1 .. Len(in) /\ 1 \in 0 .. Len(in) /\ Head(in) = in[1] /\ in[1] \in InPackets
    BY <2>1, <2>2
  <2>4. in[1].body \in BOOLEAN
    BY <2>1, <2>3 DEF InPackets, Responses
  <2> DEFINE b == StatusOK(Head(in))
             d == IF HasSectors /\ cmd.name = "Read" THEN buffer
                  ELSE IF cmd.name = "Sync" THEN buffer ELSE Written
  <2>5. b \in BOOLEAN /\ (b => in[1].tag = tag /\ in[1].body = TRUE)
    BY <2>3, <2>4 DEF StatusOK
  <2>6. Return(b, buffer)
    BY <1>4
  <2>7. d \in Seq(Data)
    BY <1>2, <2>2, WrittenType
  <2> HIDE DEF b
  <2>8. DriverInv'
    BY <1>2, <2>2, <2>5, <2>6, ReturnTypes
  <2>9. Fails \/ (b /\ Ends(TRUE, d))
    <3>1. Continues \/ Ends(FALSE, Written) \/ (b /\ Ends(TRUE, d))
      BY <1>2, <2>5, <2>6, ReturnCases
    <3> QED BY <3>1 DEF Fails
  <2>10. QTypes' /\ Len(in') = Len(in) - 1
    BY <1>1, <1>2, <1>4, <2>3, LessIn
  <2>11. CASE Fails
    <3>1. Monotone /\ ~halted => NewestIsLast' /\ PendingAllowed'
      BY <1>1, <1>2, SameOut DEF QueueInv
    <3> QED BY <1>1, <1>2, <2>8, <2>10, <2>11, <3>1, FailedStep
  <2>12. CASE b /\ Ends(TRUE, d)
    <3>1. Succeeded(in[1])
      BY <2>1, <2>5, <2>12 DEF Succeeded
    <3>2. /\ Len(in) = 1 /\ out = <<>> /\ rx = NoWrite
          /\ cmd.name = "Read" => ReadIsThere
          /\ cmd.name = "Write" =>
               \A j \in 1 .. cmd.count : disk[cmd.first + j - 1] = call.data[j]
      BY <1>2, <2>1, <2>3, <3>1 DEF QueueInv, SuccessIsLast
    <3>3. in' = <<>>
      <4>1. in' \in Seq(InPackets) /\ Len(in') = 0
        BY <2>10, <3>2 DEF QTypes, QueueTypes
      <4> QED BY <4>1
    <3>4. ASSUME call.name = "Read" PROVE Succeeds(d)
      <4>1. cmd.name = "Read" /\ cmd.first = call.first /\ cmd.count = call.count
        BY <1>2, <3>4 DEF CallInv
      <4>2. d = buffer /\ Len(buffer) = cmd.count /\ cmd.count \in Nat
        BY <1>1, <1>2, <4>1 DEF CallInv, HasSectors, Commands
      <4>3. ASSUME NEW j \in 1 .. cmd.count PROVE buffer[j] = disk[cmd.first + j - 1]
        <5>1. Len(in) - 1 - cmd.count + j = j - cmd.count /\ ~(j - cmd.count >= 1)
          BY <3>2, <4>2
        <5>2. buffer[Len(buffer) + (j - cmd.count)] = disk[cmd.first + j - 1]
          BY <3>2, <4>1, <5>1 DEF ReadIsThere
        <5>3. cmd.count + (j - cmd.count) = j
          BY <4>2
        <5> QED BY <4>2, <5>2, <5>3
      <4>4. Len(d) = call.count /\ \A j \in 1 .. Len(d) : d[j] = disk[call.first + j - 1]
        BY <4>1, <4>2, <4>3
      <4> HIDE DEF d
      <4> QED BY <1>1, <3>2, <3>3, <4>4 DEF Succeeds
    <3>5. ASSUME call.name = "Write" PROVE Succeeds(d)
      <4>1. cmd.name = "Write" /\ cmd.first = call.first /\ cmd.count = call.count
            /\ Len(call.data) = call.count
        BY <1>2, <3>5 DEF CallInv
      <4>2. d = call.data
        BY <3>5, <4>1 DEF Written
      <4>3. Len(d) = call.count /\ \A j \in 1 .. Len(d) : d[j] = disk[call.first + j - 1]
        BY <3>2, <4>1, <4>2
      <4> HIDE DEF d
      <4> QED BY <1>1, <3>2, <3>3, <4>3 DEF Succeeds
    <3>6. Succeeds(d)
      <4> HIDE DEF d
      <4>1. call.name \notin {"Read", "Write"} => Succeeds(d)
        BY <1>1, <3>2, <3>3 DEF Succeeds
      <4>2. call.name \in {"Read", "Write"} => call.name = "Read" \/ call.name = "Write"
        OBVIOUS
      <4>3. call.name = "Read" => Succeeds(d)
        BY <3>4
      <4>4. call.name = "Write" => Succeeds(d)
        BY <3>5
      <4> QED BY <4>1, <4>2, <4>3, <4>4
    <3>7. QueueInv' /\ DiskAllowed' /\ InStep' /\ StoreStep
      <4> HIDE DEF d
      <4> QED BY <1>2, <2>7, <2>12, <3>6, SucceedsStore
    <3>8. ~Live'
      BY <2>12 DEF Ends, Finish, Live
    <3> QED BY <2>8, <2>10, <3>7, <3>8 DEF Consistent
  <2> QED BY <2>9, <2>11, <2>12
<1> QED BY <1>3, <1>4 DEF ReadStatus

-----------------------------------------------------------------------------
(* Calls, and steps that change nothing. *)

LEMMA CallsStep == Consistent /\ Calls => Consistent' /\ StoreStep
<1> SUFFICES ASSUME Consistent, Calls PROVE Consistent' /\ StoreStep
  OBVIOUS
<1>1. /\ phase = "idle" /\ UNCHANGED <<tag, in, out, rx, disk, attention, halted, known>>
      /\ phase' \in {"idle", "command"}
  BY DEF Calls, StartInit, InitFails, StartRead, StartWrite, StartSync, Start, Issue,
         ErrorForgotten, initVars, replyVars, driveVars
<1>2. QTypes /\ DriverInv /\ (~halted => QueueInv) /\ DiskAllowed /\ InStep
  BY DEF Consistent
<1>3. DriverInv'
  BY <1>2, CallsTypes
<1>4. QTypes'
  BY <1>1, <1>2 DEF QTypes, QueueTypes, UnitTypes
<1>5. call.name = "none" /\ ~Live'
  BY <1>1, <1>2 DEF DriverInv, CallInv, Live
<1>6. Monotone
  BY <1>1, <1>5 DEF Monotone, Permits
<1>7. ~halted' => QueueInv'
  BY <1>1, <1>2, <1>5, <1>6, SameOut, AfterTransfer DEF QueueInv
<1>8. DiskAllowed'
  BY <1>1, <1>2, <1>6, DiskStays
<1>9. \/ UNCHANGED reply /\ (phase' = "command" \/ phase' = phase)
      \/ InitFails
  BY DEF Calls, StartInit, StartRead, StartWrite, StartSync, Start, Issue,
         ErrorForgotten, replyVars
<1>10. CASE UNCHANGED reply /\ (phase' = "command" \/ phase' = phase)
  <2>1. InStep'
    BY <1>1, <1>2, <1>10 DEF InStep
  <2> QED BY <1>1, <1>3, <1>4, <1>5, <1>7, <1>8, <1>10, <2>1 DEF Consistent, StoreStep
<1>11. CASE InitFails
  <2>1. reply'.call = "Init" /\ reply'.ok = FALSE
    BY <1>11 DEF InitFails
  <2>2. InStep' /\ Store!Others
    BY <1>1, <2>1 DEF InStep, Store!Others
  <2> QED BY <1>3, <1>4, <1>5, <1>7, <1>8, <2>2 DEF Consistent, StoreStep, Store!Next
<1> QED BY <1>9, <1>10, <1>11

LEMMA StutterStep == Consistent /\ UNCHANGED vars => Consistent' /\ StoreStep
<1> SUFFICES ASSUME Consistent, UNCHANGED vars PROVE Consistent' /\ StoreStep
  OBVIOUS
<1>1. UNCHANGED <<phase, call, cmd, tag, buffer, lun, try, found, ready, error, reply, known,
                  in, out, rx, disk, attention, halted>>
  BY DEF vars, driverVars, driveVars, initVars, replyVars
<1>2. DriverInv'
  BY <1>1 DEF Consistent, DriverInv, SearchTypes, ReplyTypes, CallInv, HasSectors, HasResponse
<1>3. QTypes'
  BY <1>1 DEF Consistent, QTypes, QueueTypes, UnitTypes
<1>4. Monotone
  BY <1>1, SameAllowed
<1>5. ASSUME QueueInv PROVE QueueInv'
  <2>1. NewestIsLast' /\ PendingAllowed'
    BY <1>1, <1>4, <1>5, SameOut DEF QueueInv
  <2>2. CommandIsLast'
    BY <1>1, <1>5 DEF QueueInv, CommandIsLast, SectorsAfter, Live
  <2>3. WriteIsLast'
    BY <1>1, <1>5 DEF QueueInv, WriteIsLast, SectorsAfter, Live
  <2>4. ReadIsThere' = ReadIsThere /\ Live' = Live /\ \A i : Succeeded(in[i])' = Succeeded(in[i])
    BY <1>1 DEF ReadIsThere, Live, Succeeded
  <2>5. SuccessIsLast'
    BY <1>1, <1>5, <2>4 DEF QueueInv, SuccessIsLast
  <2> QED BY <2>1, <2>2, <2>3, <2>5 DEF QueueInv
<1>6. DiskAllowed'
  BY <1>1, <1>4, DiskStays DEF Consistent
<1>7. InStep'
  BY <1>1 DEF Consistent, InStep
<1> QED BY <1>1, <1>2, <1>3, <1>5, <1>6, <1>7 DEF Consistent, StoreStep, Live


-----------------------------------------------------------------------------
(* The drive. *)

LEMMA DriverStays ==
  ASSUME DriverInv, UNCHANGED driverVars
  PROVE  DriverInv' /\ Monotone
<1>1. UNCHANGED <<phase, call, cmd, tag, buffer, lun, try, found, ready, error, known>>
  BY DEF driverVars, initVars, replyVars
<1> QED BY <1>1, SameAllowed DEF DriverInv, SearchTypes, ReplyTypes, CallInv, HasSectors, HasResponse

\* The packet that is taken, and those left.
LEMMA Taken ==
  ASSUME QTypes, out # <<>>, out' = Tail(out)
  PROVE  /\ Len(out) \in Nat \ {0} /\ Len(out') = Len(out) - 1
         /\ out' \in Seq(OutPackets) /\ out[1] \in OutPackets /\ Head(out) = out[1]
         /\ out[1].tag \in 1 .. tag
         /\ \A i \in 1 .. Len(out') : i + 1 \in 1 .. Len(out) /\ out'[i] = out[i + 1]
<1>1. out \in Seq(OutPackets) /\ \A i \in 1 .. Len(out) : out[i].tag \in 1 .. tag
  BY DEF QTypes, QueueTypes
<1>2. /\ out' \in Seq(OutPackets) /\ Len(out') = Len(out) - 1 /\ Len(out) \in Nat \ {0}
      /\ Head(out) = out[1] /\ out[1] \in OutPackets
      /\ \A i \in 1 .. Len(out) - 1 : out'[i] = out[i + 1]
  BY <1>1, TailOf
<1> QED BY <1>1, <1>2

LEMMA DriveTypes ==
  ASSUME QTypes, out # <<>>, out' = Tail(out), UNCHANGED tag,
         in' \in Seq(InPackets), \A i \in 1 .. Len(in') : in'[i].tag \in 1 .. tag,
         rx' \in [tag : 0 .. tag, first : Nat, count : Nat, got : Seq(Data)],
         rx' # NoWrite => rx'.tag # 0,
         disk' \in [Sectors -> Data], halted' \in BOOLEAN,
         attention' \in [Luns -> 0 .. MaxAttentions]
  PROVE  QTypes'
<1>1. out' \in Seq(OutPackets) /\ \A i \in 1 .. Len(out') : out'[i].tag \in 1 .. tag
  <2>1. /\ out' \in Seq(OutPackets)
        /\ \A i \in 1 .. Len(out') : i + 1 \in 1 .. Len(out) /\ out'[i] = out[i + 1]
    BY Taken
  <2> QED BY <2>1 DEF QTypes, QueueTypes
<1> QED BY <1>1 DEF QTypes, QueueTypes, UnitTypes

\* More comes from the drive.
LEMMA MoreIn ==
  ASSUME QTypes, NEW more \in Seq(InPackets), in' = in \o more,
         \A i \in 1 .. Len(more) : more[i].tag \in 1 .. tag
  PROVE  /\ in' \in Seq(InPackets) /\ Len(in') = Len(in) + Len(more)
         /\ Len(in) \in Nat /\ Len(more) \in Nat
         /\ \A i \in 1 .. Len(in) : in'[i] = in[i]
         /\ \A i \in 1 .. Len(more) : in'[Len(in) + i] = more[i]
         /\ \A i \in 1 .. Len(in') : in'[i].tag \in 1 .. tag
<1>1. in \in Seq(InPackets) /\ \A i \in 1 .. Len(in) : in[i].tag \in 1 .. tag
  BY DEF QTypes, QueueTypes
<1>2. /\ in' \in Seq(InPackets) /\ Len(in') = Len(in) + Len(more)
      /\ \A i \in 1 .. Len(in) : in'[i] = in[i]
      /\ \A i \in 1 .. Len(more) : in'[Len(in) + i] = more[i]
  BY <1>1, Joined
<1>3. Len(in) \in Nat /\ Len(more) \in Nat
  BY <1>1
<1>4. ASSUME NEW i \in 1 .. Len(in') PROVE in'[i].tag \in 1 .. tag
  <2>1. CASE i \in 1 .. Len(in)
    BY <1>1, <1>2, <2>1
  <2>2. CASE i - Len(in) \in 1 .. Len(more)
    <3> DEFINE j == i - Len(in)
    <3>1. j \in 1 .. Len(more) /\ i = Len(in) + j
      BY <1>2, <1>3, <2>2
    <3> HIDE DEF j
    <3> QED BY <1>2, <3>1
  <2> QED BY <1>2, <1>3, <2>1, <2>2
<1> QED BY <1>2, <1>3, <1>4

\* The drive says nothing of success.
LEMMA NoSuccess ==
  ASSUME QTypes, QueueInv, out # <<>>, UNCHANGED <<phase, tag>>,
         NEW more \in Seq(InPackets), in' = in \o more,
         \A i \in 1 .. Len(more) : more[i].tag \in 1 .. tag /\ ~Succeeded(more[i])
  PROVE  SuccessIsLast'
<1>1. CASE Live
  <2>1. \A i \in 1 .. Len(in) : ~Succeeded(in[i])
    BY <1>1 DEF QueueInv, SuccessIsLast
  <2>2. /\ Len(in') = Len(in) + Len(more) /\ Len(in) \in Nat /\ Len(more) \in Nat
        /\ \A i \in 1 .. Len(in) : in'[i] = in[i]
        /\ \A i \in 1 .. Len(more) : in'[Len(in) + i] = more[i]
    BY MoreIn
  <2>3. ASSUME NEW i \in 1 .. Len(in') PROVE ~Succeeded(in'[i])
    <3>1. CASE i \in 1 .. Len(in)
      BY <2>1, <2>2, <3>1
    <3>2. CASE i - Len(in) \in 1 .. Len(more)
      <4> DEFINE j == i - Len(in)
      <4>1. j \in 1 .. Len(more) /\ i = Len(in) + j
        BY <2>2, <3>2
      <4> HIDE DEF j
      <4>2. in'[i] = more[j]
        BY <2>2, <4>1
      <4> QED BY <4>1, <4>2
    <3> QED BY <2>2, <3>1, <3>2
  <2>4. \A i \in 1 .. Len(in') : ~Succeeded(in[i])'
    BY <2>3 DEF Succeeded
  <2> QED BY <2>4 DEF SuccessIsLast
<1>2. CASE ~Live
  BY <1>2 DEF SuccessIsLast, Live
<1> QED BY <1>1, <1>2

LEMMA NothingSaid ==
  ASSUME QTypes, QueueInv, out # <<>>, UNCHANGED <<phase, tag, in>>
  PROVE  SuccessIsLast'
<1>1. in' = in \o <<>> /\ <<>> \in Seq(InPackets) /\ Len(<<>>) = 0
  BY DEF QTypes, QueueTypes
<1>2. \A i \in 1 .. Len(<<>>) : <<>>[i].tag \in 1 .. tag /\ ~Succeeded(<<>>[i])
  BY <1>1
<1> QED BY <1>1, <1>2, NoSuccess

\* The packets left keep their order.
LEMMA SectorsShift ==
  ASSUME QTypes, out # <<>>, out' = Tail(out), NEW p \in 0 .. Len(out')
  PROVE  SectorsAfter(p)' <=> SectorsAfter(p + 1)
<1>1. /\ Len(out) \in Nat \ {0} /\ Len(out') = Len(out) - 1
      /\ \A i \in 1 .. Len(out') : out'[i] = out[i + 1]
  BY Taken
<1>2. ASSUME SectorsAfter(p)', NEW r \in (p + 1) + 1 .. Len(out) PROVE out[r].kind = "sector"
  <2>1. r - 1 \in p + 1 .. Len(out') /\ r - 1 \in 1 .. Len(out') /\ (r - 1) + 1 = r
    BY <1>1
  <2>2. out'[r - 1] = out[(r - 1) + 1]
    BY <1>1, <2>1
  <2> QED BY <1>2, <2>1, <2>2 DEF SectorsAfter
<1>3. ASSUME SectorsAfter(p + 1), NEW r \in p + 1 .. Len(out') PROVE out'[r].kind = "sector"
  <2>1. r + 1 \in (p + 1) + 1 .. Len(out) /\ r \in 1 .. Len(out')
    BY <1>1
  <2> QED BY <1>1, <1>3, <2>1 DEF SectorsAfter
<1> QED BY <1>2, <1>3 DEF SectorsAfter

LEMMA CommandsShift ==
  ASSUME QTypes, DriverInv, QueueInv, out # <<>>, out' = Tail(out),
         UNCHANGED <<phase, call, cmd, tag, buffer, known>>
  PROVE  /\ \A p \in 1 .. Len(out') : out'[p].kind = "cbw" /\ out'[p].tag = tag => SectorsAfter(p)'
         /\ CommandIsLast'
         /\ \A p, q \in 1 .. Len(out') :
              p < q /\ out'[p].kind = "cbw" /\ out'[p].body.name = "Write"
                /\ (\A r \in p + 1 .. q : out'[r].kind = "sector") =>
                Permits(known, call, out'[p].body.first + (q - p) - 1, out'[q].body)
<1>1. /\ Len(out) \in Nat \ {0} /\ Len(out') = Len(out) - 1
      /\ \A i \in 1 .. Len(out') : i + 1 \in 1 .. Len(out) /\ out'[i] = out[i + 1]
  BY Taken
<1>2. Len(buffer) \in Nat
  BY DEF DriverInv, CallInv
<1>3. ASSUME NEW p \in 1 .. Len(out'), out'[p].kind = "cbw", out'[p].tag = tag
      PROVE  SectorsAfter(p)'
  <2>1. SectorsAfter(p + 1)
    BY <1>1, <1>3 DEF QueueInv, NewestIsLast
  <2> QED BY <1>1, <2>1, SectorsShift
<1>4. CommandIsLast'
  <2> DEFINE Fine(p, o) ==
         /\ o[p].body = cmd /\ o[p].tag = tag
         /\ cmd.name = "Write" => Len(o) = p + Len(buffer)
                                 /\ \A j \in 1 .. Len(buffer) : o[p + j].body = buffer[j]
         /\ cmd.name # "Write" => Len(o) = p
  <2>1. ASSUME Live, NEW p \in 1 .. Len(out'), out'[p].kind = "cbw", SectorsAfter(p)'
        PROVE  Fine(p, out')
    <3>1. SectorsAfter(p + 1) /\ p + 1 \in 1 .. Len(out) /\ out'[p] = out[p + 1]
      BY <1>1, <2>1, SectorsShift
    <3>2. out[p + 1].kind = "cbw"
      BY <2>1, <3>1
    <3>3. Fine(p + 1, out)
      BY <2>1, <3>1, <3>2 DEF QueueInv, CommandIsLast
    <3> DEFINE n == Len(out)
               b == Len(buffer)
               m == Len(out')
    <3>4. n \in Nat /\ b \in Nat /\ p \in Nat /\ m \in Nat /\ m = n - 1
      BY <1>1, <1>2
    <3>5. cmd.name = "Write" => n = (p + 1) + b /\ \A j \in 1 .. b : out[(p + 1) + j].body = buffer[j]
      BY <3>3
    <3>6. cmd.name # "Write" => n = p + 1
      BY <3>3
    <3>7. out'[p].body = cmd /\ out'[p].tag = tag
      BY <3>1, <3>3
    <3>8. \A i \in 1 .. m : out'[i] = out[i + 1]
      BY <1>1
    <3> HIDE DEF n, b, m
    <3>9. cmd.name # "Write" => m = p
      BY <3>4, <3>6
    <3>10. cmd.name = "Write" => m = p + b
      BY <3>4, <3>5
    <3>11. ASSUME cmd.name = "Write", NEW j \in 1 .. b PROVE out'[p + j].body = buffer[j]
      <4>1. p + j \in 1 .. m /\ (p + j) + 1 = (p + 1) + j
        BY <3>4, <3>10, <3>11
      <4>2. out'[p + j] = out[(p + 1) + j]
        BY <3>8, <4>1
      <4> QED BY <3>5, <3>11, <4>2
    <3> QED BY <3>7, <3>9, <3>10, <3>11 DEF m, b
  <2>2. UNCHANGED <<phase, cmd, tag, buffer>>
    OBVIOUS
  <2> QED BY <2>1, <2>2 DEF CommandIsLast, Live
<1>5. ASSUME NEW p \in 1 .. Len(out'), NEW q \in 1 .. Len(out'), p < q, out'[p].kind = "cbw",
             out'[p].body.name = "Write", \A r \in p + 1 .. q : out'[r].kind = "sector"
      PROVE  Permits(known, call, out'[p].body.first + (q - p) - 1, out'[q].body)
  <2>1. /\ p + 1 \in 1 .. Len(out) /\ q + 1 \in 1 .. Len(out) /\ p + 1 < q + 1
        /\ out'[p] = out[p + 1] /\ out'[q] = out[q + 1] /\ (q + 1) - (p + 1) = q - p
    BY <1>1, <1>5
  <2>2. ASSUME NEW r \in (p + 1) + 1 .. q + 1 PROVE out[r].kind = "sector"
    <3>1. r - 1 \in p + 1 .. q /\ r - 1 \in 1 .. Len(out') /\ (r - 1) + 1 = r
      BY <1>1
    <3>2. out'[r - 1] = out[(r - 1) + 1]
      BY <1>1, <3>1
    <3> QED BY <1>5, <3>1, <3>2
  <2>3. Allowed(out[p + 1].body.first + ((q + 1) - (p + 1)) - 1, out[q + 1].body)
    BY <1>5, <2>1, <2>2 DEF QueueInv, PendingAllowed
  <2> QED BY <2>1, <2>3 DEF Allowed
<1> QED BY <1>3, <1>4, <1>5

\* The drive takes a packet.
Takes ==
  /\ QTypes /\ DriverInv /\ QueueInv /\ DiskAllowed
  /\ ~halted /\ out # <<>> /\ out' = Tail(out)
  /\ UNCHANGED <<phase, call, cmd, tag, buffer, known>>

\* What is left once it has.
Leaves == QTypes' /\ (~halted' => QueueInv') /\ DiskAllowed'

\* Once the drive takes data for no write.
LEMMA NoRx ==
  ASSUME Takes, rx' = NoWrite
  PROVE  NewestIsLast' /\ CommandIsLast' /\ WriteIsLast' /\ PendingAllowed'
<1>1. /\ \A p \in 1 .. Len(out') : out'[p].kind = "cbw" /\ out'[p].tag = tag => SectorsAfter(p)'
      /\ CommandIsLast'
      /\ \A p, q \in 1 .. Len(out') :
           p < q /\ out'[p].kind = "cbw" /\ out'[p].body.name = "Write"
             /\ (\A r \in p + 1 .. q : out'[r].kind = "sector") =>
             Permits(known, call, out'[p].body.first + (q - p) - 1, out'[q].body)
  BY CommandsShift DEF Takes
<1>2. UNCHANGED <<tag, known, call>>
  BY DEF Takes
<1>3. NewestIsLast'
  BY <1>1, <1>2 DEF NewestIsLast
<1>4. WriteIsLast'
  BY DEF WriteIsLast
<1>5. PendingAllowed'
  BY <1>1, <1>2 DEF PendingAllowed, Allowed
<1> QED BY <1>1, <1>3, <1>4, <1>5

\* What is stored is what was allowed to be.
LEMMA StoredAllowed ==
  ASSUME QTypes, DiskAllowed, NEW first \in Nat, NEW texts \in Seq(Data),
         \A i \in 1 .. Len(texts) : Allowed(first + i - 1, texts[i]),
         disk' = Stored(first, texts), UNCHANGED <<known, call>>
  PROVE  /\ disk' \in [Sectors -> Data] /\ DiskAllowed'
         /\ \A i \in 1 .. Len(texts) : first + i - 1 \in Sectors => disk'[first + i - 1] = texts[i]
<1>1. disk \in [Sectors -> Data] /\ Sectors \subseteq Nat /\ Len(texts) \in Nat
  BY Sizes DEF QTypes, QueueTypes
<1>2. ASSUME NEW s \in Sectors, s \in first .. first + Len(texts) - 1
      PROVE  disk'[s] \in Data /\ Allowed(s, disk'[s])
  <2> DEFINE i == s - first + 1
  <2>1. i \in 1 .. Len(texts) /\ first + i - 1 = s
    BY <1>1, <1>2
  <2>2. disk'[s] = texts[i]
    BY <1>2 DEF Stored
  <2> HIDE DEF i
  <2> QED BY <2>1, <2>2
<1>3. ASSUME NEW s \in Sectors, s \notin first .. first + Len(texts) - 1
      PROVE  disk'[s] \in Data /\ Allowed(s, disk'[s])
  BY <1>1, <1>3 DEF Stored, DiskAllowed
<1>4. disk' \in [Sectors -> Data]
  BY <1>2, <1>3 DEF Stored
<1>5. DiskAllowed'
  BY <1>2, <1>3 DEF DiskAllowed, Allowed
<1>6. ASSUME NEW i \in 1 .. Len(texts), first + i - 1 \in Sectors
      PROVE  disk'[first + i - 1] = texts[i]
  <2>1. first + i - 1 \in first .. first + Len(texts) - 1 /\ (first + i - 1) - first + 1 = i
    BY <1>1
  <2> QED BY <1>6, <2>1 DEF Stored
<1> QED BY <1>4, <1>5, <1>6

LEMMA StatusType ==
  ASSUME NEW t \in Nat, NEW b \in BOOLEAN
  PROVE  /\ Status(t, b) \in Seq(InPackets) /\ Len(Status(t, b)) = 1
         /\ Status(t, b)[1] = Packet("csw", t, b)
<1>1. Packet("csw", t, b) \in InPackets
  BY DEF Packet, InPackets
<1> QED BY <1>1, SingleOf DEF Status

LEMMA ContentType ==
  ASSUME QTypes, NEW c \in Commands, NEW t \in Nat, NEW n \in Nat,
         n # 0 => c.name = "Read" /\ n <= c.count
  PROVE  /\ Content(c, n, t) \in Seq(InPackets) /\ Len(Content(c, n, t)) = n
         /\ \A i \in 1 .. n : Content(c, n, t)[i] = Packet("sector", t, disk[c.first + i - 1])
<1>1. disk \in [Sectors -> Data] /\ c.first \in Nat /\ c.count \in Nat
      /\ (c.name = "Read" => c.first .. c.first + c.count - 1 \subseteq Sectors)
  BY DEF QTypes, QueueTypes, Commands
<1>2. ASSUME NEW i \in 1 .. n PROVE Packet("sector", t, disk[c.first + i - 1]) \in InPackets
  <2>1. c.first + i - 1 \in c.first .. c.first + c.count - 1
    BY <1>1
  <2>2. disk[c.first + i - 1] \in Data
    BY <1>1, <2>1
  <2> QED BY <2>2 DEF Packet, InPackets
<1> DEFINE f == [i \in 1 .. n |-> Packet("sector", t, disk[c.first + i - 1])]
<1>3. f \in Seq(InPackets) /\ Len(f) = n /\ \A i \in 1 .. n : f[i] = Packet("sector", t, disk[c.first + i - 1])
  BY <1>2
<1> QED BY <1>3 DEF Content

\* What the drive sends: data, then a status.
LEMMA Sends ==
  ASSUME Takes, NEW data \in Seq(InPackets), NEW t \in 1 .. tag, NEW b \in BOOLEAN,
         \A i \in 1 .. Len(data) : data[i].tag = t /\ data[i].kind # "csw",
         in' = in \o data \o Status(t, b)
  PROVE  /\ in' \in Seq(InPackets) /\ Len(in') = Len(in) + Len(data) + 1
         /\ Len(in) \in Nat /\ Len(data) \in Nat
         /\ \A i \in 1 .. Len(in') : in'[i].tag \in 1 .. tag
         /\ \A i \in 1 .. Len(data) : in'[Len(in) + i] = data[i]
         /\ ~b => SuccessIsLast'
         /\ Live => \A i \in 1 .. Len(in') : Succeeded(in'[i]) => i = Len(in') /\ t = tag
<1>1. tag \in Nat /\ QTypes /\ QueueInv /\ out # <<>> /\ UNCHANGED <<phase, tag>> /\ in \in Seq(InPackets)
  BY DEF Takes, QTypes, QueueTypes
<1> DEFINE more == data \o Status(t, b)
<1>2. Status(t, b) \in Seq(InPackets) /\ Len(Status(t, b)) = 1
      /\ Status(t, b)[1] = Packet("csw", t, b)
  BY <1>1, StatusType
<1>3. /\ more \in Seq(InPackets) /\ Len(more) = Len(data) + 1
      /\ \A i \in 1 .. Len(data) : more[i] = data[i]
      /\ more[Len(data) + 1] = Packet("csw", t, b)
  <2>1. more \in Seq(InPackets) /\ Len(more) = Len(data) + Len(Status(t, b))
        /\ (\A i \in 1 .. Len(data) : more[i] = data[i])
        /\ \A i \in 1 .. Len(Status(t, b)) : more[Len(data) + i] = Status(t, b)[i]
    BY SMTT(40), <1>2, Joined
  <2> QED BY <1>2, <2>1
<1>4. in' = in \o more
  BY <1>1, <1>2
<1>5. Len(data) \in Nat /\ Len(in) \in Nat
  BY <1>1
<1> HIDE DEF more
<1>6. \A i \in 1 .. Len(more) : i \in 1 .. Len(data) \/ i = Len(data) + 1
  BY <1>3, <1>5
<1>7. \A i \in 1 .. Len(more) :
        more[i].tag \in 1 .. tag /\ (more[i].kind # "csw" \/ more[i] = Packet("csw", t, b))
  <2>1. Packet("csw", t, b).tag = t
    BY DEF Packet
  <2>2. ASSUME NEW i \in 1 .. Len(data)
        PROVE  more[i].tag \in 1 .. tag /\ more[i].kind # "csw"
    BY <1>3
  <2> QED BY <1>3, <1>6, <2>1, <2>2
<1>8. /\ in' \in Seq(InPackets) /\ Len(in') = Len(in) + Len(more)
      /\ \A i \in 1 .. Len(in) : in'[i] = in[i]
      /\ \A i \in 1 .. Len(more) : in'[Len(in) + i] = more[i]
      /\ \A i \in 1 .. Len(in') : in'[i].tag \in 1 .. tag
  BY <1>1, <1>3, <1>4, <1>7, MoreIn
<1>9. \A i \in 1 .. Len(data) : in'[Len(in) + i] = data[i]
  BY <1>3, <1>5, <1>8
<1>10. ASSUME ~b PROVE SuccessIsLast'
  <2>1. ~Succeeded(Packet("csw", t, b))
    BY <1>10 DEF Succeeded, Packet
  <2>2. \A i \in 1 .. Len(more) : ~Succeeded(more[i])
    BY <1>7, <2>1 DEF Succeeded
  <2> QED BY <1>1, <1>3, <1>4, <1>7, <2>2, NoSuccess
<1>11. ASSUME Live, NEW i \in 1 .. Len(in'), Succeeded(in'[i])
       PROVE  i = Len(in') /\ t = tag
  <2>1. i \notin 1 .. Len(in)
    BY <1>1, <1>8, <1>11 DEF QueueInv, SuccessIsLast
  <2> DEFINE j == i - Len(in)
  <2>2. j \in 1 .. Len(more) /\ i = Len(in) + j
    BY <1>3, <1>5, <1>8, <2>1
  <2> HIDE DEF j
  <2>3. in'[i] = more[j]
    BY <1>8, <2>2
  <2>4. j \notin 1 .. Len(data)
    BY <1>3, <1>11, <2>3 DEF Succeeded
  <2>5. j = Len(data) + 1
    BY <1>6, <2>2, <2>4
  <2>6. Succeeded(Packet("csw", t, b))
    BY <1>3, <1>11, <2>3, <2>5
  <2> QED BY <1>3, <1>8, <2>2, <2>5, <2>6 DEF Succeeded, Packet
<1> QED BY <1>3, <1>5, <1>8, <1>9, <1>10, <1>11

\* A command at the head of the queue.
LEMMA HeadCommand ==
  ASSUME Takes, out[1].kind = "cbw"
  PROVE  /\ out[1].body \in Commands /\ out[1].tag \in 1 .. tag
         /\ Len(out) \in Nat \ {0} /\ 1 \in 1 .. Len(out)
         /\ out[1].tag = tag => SectorsAfter(1)
         /\ Live /\ SectorsAfter(1) => out[1].body = cmd /\ out[1].tag = tag
<1>1. Len(out) \in Nat \ {0} /\ out[1] \in OutPackets /\ out[1].tag \in 1 .. tag
  BY Taken DEF Takes
<1>2. out[1].body \in Commands
  BY <1>1 DEF OutPackets
<1>3. 1 \in 1 .. Len(out)
  BY <1>1
<1>4. out[1].tag = tag => SectorsAfter(1)
  BY <1>3 DEF Takes, QueueInv, NewestIsLast
<1>5. Live /\ SectorsAfter(1) => out[1].body = cmd /\ out[1].tag = tag
  BY <1>3 DEF Takes, QueueInv, CommandIsLast
<1> QED BY <1>1, <1>2, <1>3, <1>4, <1>5

LEMMA TakesSame ==
  ASSUME Takes
  PROVE  /\ QTypes /\ DriverInv /\ QueueInv /\ DiskAllowed /\ Monotone
         /\ halted = FALSE /\ out # <<>> /\ out' = Tail(out)
         /\ UNCHANGED <<phase, call, cmd, tag, buffer, known>>
         /\ Live' = Live /\ tag \in Nat
<1>1. halted \in BOOLEAN /\ tag \in Nat
  BY DEF Takes, QTypes, QueueTypes
<1>2. UNCHANGED <<call, known>>
  BY DEF Takes
<1> QED BY <1>1, <1>2, SameAllowed DEF Takes, Live

\* A unit attention is over.
LEMMA AttentionType ==
  ASSUME Takes, NEW c,
         attention' = IF c.name = "RequestSense" /\ attention[c.lun] > 0
                      THEN [attention EXCEPT ![c.lun] = @ - 1] ELSE attention
  PROVE  attention' \in [Luns -> 0 .. MaxAttentions]
<1>1. attention \in [Luns -> 0 .. MaxAttentions] /\ MaxAttentions \in Nat
  BY DriveAssumption DEF Takes, QTypes, UnitTypes
<1>2. CASE c.name = "RequestSense" /\ attention[c.lun] > 0 /\ c.lun \in Luns
  <2>1. attention[c.lun] - 1 \in 0 .. MaxAttentions
    BY <1>1, <1>2
  <2> QED BY <1>1, <1>2, <2>1
<1> QED BY <1>1, <1>2

LEMMA ServesWrite ==
  ASSUME Takes, out[1].kind = "cbw", rx = NoWrite, out[1].body.name = "Write",
         Serves(out[1].body, out[1].tag)
  PROVE  Leaves
<1> DEFINE c == out[1].body
           t == out[1].tag
<1>1. /\ rx' = [tag |-> t, first |-> c.first, count |-> c.count, got |-> <<>>]
      /\ UNCHANGED <<in, disk, halted>>
      /\ attention' \in [Luns -> 0 .. MaxAttentions]
  BY AttentionType DEF Serves
<1>2. /\ c \in Commands /\ t \in 1 .. tag /\ Len(out) \in Nat \ {0} /\ 1 \in 1 .. Len(out)
      /\ t = tag => SectorsAfter(1)
      /\ Live /\ SectorsAfter(1) => c = cmd /\ t = tag
  BY HeadCommand
<1>3. /\ QTypes /\ DriverInv /\ QueueInv /\ DiskAllowed /\ Monotone
      /\ halted = FALSE /\ out # <<>> /\ out' = Tail(out) /\ tag \in Nat
      /\ UNCHANGED <<phase, call, cmd, tag, buffer, known>> /\ Live' = Live
  BY TakesSame
<1>4. QTypes'
  <2>1. c.first \in Nat /\ c.count \in Nat
    BY <1>2 DEF Commands
  <2>2. rx' \in [tag : 0 .. tag, first : Nat, count : Nat, got : Seq(Data)] /\ rx'.tag # 0
    BY <1>1, <1>2, <1>3, <2>1
  <2>3. in' \in Seq(InPackets) /\ (\A i \in 1 .. Len(in') : in'[i].tag \in 1 .. tag)
        /\ disk' \in [Sectors -> Data] /\ halted' \in BOOLEAN
    BY <1>1, <1>3 DEF QTypes, QueueTypes
  <2> QED BY <1>1, <1>3, <2>2, <2>3, DriveTypes
<1>5. /\ Len(out') = Len(out) - 1 /\ Len(out') \in Nat
      /\ \A i \in 1 .. Len(out') : i + 1 \in 1 .. Len(out) /\ out'[i] = out[i + 1]
  BY <1>2, <1>3, Taken
<1>6. SectorsAfter(0)' <=> SectorsAfter(1)
  <2>1. 0 \in 0 .. Len(out') /\ 0 + 1 = 1
    BY <1>5
  <2> QED BY <1>3, <2>1, SectorsShift
<1>7. /\ \A p \in 1 .. Len(out') : out'[p].kind = "cbw" /\ out'[p].tag = tag => SectorsAfter(p)'
      /\ CommandIsLast'
      /\ \A p, q \in 1 .. Len(out') :
           p < q /\ out'[p].kind = "cbw" /\ out'[p].body.name = "Write"
             /\ (\A r \in p + 1 .. q : out'[r].kind = "sector") =>
             Permits(known, call, out'[p].body.first + (q - p) - 1, out'[q].body)
  BY <1>3, CommandsShift
<1>8. rx'.tag = t /\ rx'.first = c.first /\ rx'.count = c.count /\ rx'.got = <<>> /\ Len(rx'.got) = 0
  BY <1>1
<1> HIDE DEF c, t
<1>9. NewestIsLast'
  BY <1>2, <1>3, <1>6, <1>7, <1>8 DEF NewestIsLast
<1>10. WriteIsLast'
  <2> SUFFICES ASSUME Live, SectorsAfter(1)
               PROVE  /\ cmd.name = "Write" /\ t = tag /\ c = cmd /\ Len(buffer) = Len(out')
                      /\ \A j \in 1 .. Len(out') : out'[j].body = buffer[j]
    <3> DEFINE m == Len(out')
               g == Len(rx'.got)
    <3>1. cmd' = cmd /\ tag' = tag /\ buffer' = buffer /\ Live' = Live
      BY <1>3
    <3>2. g = 0 /\ m \in Nat
      BY <1>5, <1>8
    <3> HIDE DEF m, g
    <3>3. (1 .. g = {}) /\ g + m = m /\ \A j \in 1 .. m : g + j = j
      BY <3>2
    <3>4. ASSUME Len(buffer) = m PROVE Len(buffer') = g + m
      BY <3>1, <3>3, <3>4
    <3> QED BY <1>6, <1>8, <3>1, <3>3, <3>4 DEF WriteIsLast, m, g
  <2>1. c = cmd /\ t = tag /\ cmd.name = "Write"
    BY <1>2 DEF c
  <2>2. Len(out) = 1 + Len(buffer) /\ \A j \in 1 .. Len(buffer) : out[1 + j].body = buffer[j]
    BY <1>2, <1>3, <2>1 DEF QueueInv, CommandIsLast
  <2>3. Len(buffer) \in Nat
    BY <1>3 DEF DriverInv, CallInv
  <2> DEFINE b == Len(buffer)
             m == Len(out')
  <2>4. b \in Nat /\ m = b
    BY <1>2, <1>5, <2>2, <2>3
  <2>5. ASSUME NEW j \in 1 .. m PROVE out'[j].body = buffer[j]
    <3>1. out'[j] = out[j + 1]
      BY <1>5
    <3>2. j + 1 = 1 + j /\ j \in 1 .. b
      BY <2>4
    <3> QED BY <2>2, <3>1, <3>2
  <2> QED BY <2>1, <2>4, <2>5
<1>11. PendingAllowed'
  <2>1. ASSUME NEW q \in 1 .. Len(out'), \A r \in 1 .. q : out'[r].kind = "sector"
        PROVE  Permits(known, call, c.first + 0 + q - 1, out'[q].body)
    <3>1. q + 1 \in 1 .. Len(out) /\ out'[q] = out[q + 1] /\ 1 < q + 1 /\ (q + 1) - 1 = q
          /\ 1 \in 1 .. Len(out)
      BY <1>2, <1>5
    <3>2. ASSUME NEW r \in 1 + 1 .. q + 1 PROVE out[r].kind = "sector"
      <4>1. r - 1 \in 1 .. q /\ r - 1 \in 1 .. Len(out') /\ (r - 1) + 1 = r
        BY <1>5
      <4>2. out'[r - 1] = out[(r - 1) + 1]
        BY <1>5, <4>1
      <4> QED BY <2>1, <4>1, <4>2
    <3>3. Allowed(out[1].body.first + ((q + 1) - 1) - 1, out[q + 1].body)
      BY <1>3, <3>1, <3>2 DEF QueueInv, PendingAllowed
    <3>4. c.first \in Nat
      BY <1>2 DEF Commands
    <3>5. c.first + ((q + 1) - 1) - 1 = c.first + 0 + q - 1
      BY <3>4
    <3> QED BY <3>1, <3>3, <3>5 DEF Allowed, c
  <2>2. known' = known /\ call' = call
    BY <1>3
  <2> QED BY <1>7, <1>8, <2>1, <2>2 DEF PendingAllowed, Allowed
<1>12. SuccessIsLast'
  BY <1>1, <1>3, NothingSaid
<1>13. DiskAllowed'
  BY <1>1, <1>3, DiskStays
<1> QED BY <1>4, <1>7, <1>9, <1>10, <1>11, <1>12, <1>13 DEF Leaves, QueueInv

\* Nothing is left of a command that has been answered.
LEMMA AnsweredLast ==
  ASSUME Takes, out[1].kind = "cbw", out[1].body.name # "Write", Live, out[1].tag = tag
  PROVE  out' = <<>> /\ out[1].body = cmd /\ cmd.name # "Write"
<1>1. /\ QueueInv /\ out' = Tail(out) /\ QTypes /\ out # <<>>
  BY DEF Takes
<1>2. /\ 1 \in 1 .. Len(out) /\ SectorsAfter(1) /\ out[1].body = cmd
  BY HeadCommand
<1>3. Len(out) = 1
  BY <1>1, <1>2 DEF QueueInv, CommandIsLast
<1>4. Len(out') = Len(out) - 1 /\ out' \in Seq(OutPackets)
  BY <1>1, Taken
<1>5. Len(out') = 0
  BY <1>3, <1>4
<1>6. out' = <<>>
  BY <1>4, <1>5
<1> QED BY <1>2, <1>6

LEMMA ResponseType ==
  ASSUME NEW name \in Responses, NEW t \in Nat, NEW b \in BOOLEAN
  PROVE  Packet(name, t, b) \in InPackets
BY DEF Packet, InPackets

LEMMA ServesOther ==
  ASSUME Takes, out[1].kind = "cbw", rx = NoWrite, out[1].body.name # "Write",
         Serves(out[1].body, out[1].tag)
  PROVE  Leaves
<1> DEFINE c == out[1].body
           t == out[1].tag
           data == IF c.name = "Read" THEN Content(c, c.count, t)
                   ELSE IF c.name \in {"Inquiry", "RequestSense", "ReadCapacity"}
                        THEN <<Packet(c.name, t, TRUE)>> ELSE <<>>
<1>1. /\ UNCHANGED <<rx, disk, halted>> /\ in' = in \o data \o Status(t, TRUE)
      /\ attention' \in [Luns -> 0 .. MaxAttentions]
  BY AttentionType DEF Serves
<1>2. /\ c \in Commands /\ t \in 1 .. tag /\ c.count \in Nat
      /\ Live /\ t = tag => out' = <<>> /\ c = cmd /\ cmd.name # "Write"
  BY HeadCommand, AnsweredLast DEF Commands
<1>3. /\ QTypes /\ DriverInv /\ QueueInv /\ DiskAllowed /\ Monotone
      /\ halted = FALSE /\ out # <<>> /\ out' = Tail(out) /\ tag \in Nat
      /\ UNCHANGED <<phase, call, cmd, tag, buffer, known>> /\ Live' = Live
  BY TakesSame
<1>4. /\ data \in Seq(InPackets) /\ \A i \in 1 .. Len(data) : data[i].tag = t /\ data[i].kind # "csw"
      /\ c.name = "Read" => Len(data) = c.count
           /\ \A i \in 1 .. c.count : data[i].kind = "sector" /\ data[i].body = disk[c.first + i - 1]
  <2>1. CASE c.name = "Read"
    <3> DEFINE n == c.count
    <3>1. data = Content(c, n, t) /\ n = c.count
      BY <2>1
    <3> HIDE DEF data, c, t
    <3>2. n \in Nat /\ t \in Nat /\ (n # 0 => c.name = "Read" /\ n <= c.count)
      BY <1>2, <1>3, <2>1
    <3> HIDE DEF n
    <3>3. /\ Content(c, n, t) \in Seq(InPackets) /\ Len(Content(c, n, t)) = n
          /\ \A i \in 1 .. n :
               Content(c, n, t)[i] = Packet("sector", t, disk[c.first + i - 1])
      BY <1>2, <1>3, <3>2, ContentType
    <3>4. ASSUME NEW i \in 1 .. n
          PROVE  data[i].tag = t /\ data[i].kind = "sector" /\ data[i].body = disk[c.first + i - 1]
      <4> DEFINE text == disk[c.first + i - 1]
      <4>1. data[i] = Packet("sector", t, text)
        BY <3>1, <3>3
      <4> HIDE DEF text
      <4>2. data[i].tag = t /\ data[i].kind = "sector" /\ data[i].body = text
        BY <4>1 DEF Packet
      <4> QED BY <4>2 DEF text
    <3>5. data \in Seq(InPackets) /\ Len(data) = n
      BY <3>1, <3>3
    <3>6. \A i \in 1 .. Len(data) : data[i].tag = t /\ data[i].kind # "csw"
      BY <3>4, <3>5
    <3>7. n = c.count /\ \A i \in 1 .. n : data[i].kind = "sector" /\ data[i].body = disk[c.first + i - 1]
      BY <3>1, <3>4
    <3>8. c.name = "Read" => Len(data) = c.count
           /\ \A i \in 1 .. c.count : data[i].kind = "sector" /\ data[i].body = disk[c.first + i - 1]
      BY <3>5, <3>7
    <3> QED BY <3>5, <3>6, <3>8
  <2>2. CASE c.name \in Responses
    <3>0. t \in Nat
      BY <1>2, <1>3
    <3>1. Packet(c.name, t, TRUE) \in InPackets
      BY <2>2, <3>0, ResponseType
    <3>2. data = <<Packet(c.name, t, TRUE)>> /\ c.name # "Read" /\ c.name # "csw"
      BY <2>2 DEF Responses
    <3> HIDE DEF data, c, t
    <3>3. data \in Seq(InPackets) /\ Len(data) = 1 /\ data[1] = Packet(c.name, t, TRUE)
      BY <3>1, <3>2, SingleOf
    <3> QED BY <3>2, <3>3 DEF Packet
  <2>3. CASE c.name # "Read" /\ c.name \notin Responses
    BY <2>3 DEF Responses
  <2> QED BY <2>1, <2>2, <2>3
<1>5. rx' = NoWrite
  BY <1>1
<1> HIDE DEF data, c, t
<1>6. /\ in' \in Seq(InPackets) /\ Len(in') = Len(in) + Len(data) + 1
      /\ Len(in) \in Nat /\ Len(data) \in Nat
      /\ \A i \in 1 .. Len(in') : in'[i].tag \in 1 .. tag
      /\ \A i \in 1 .. Len(data) : in'[Len(in) + i] = data[i]
      /\ Live => \A i \in 1 .. Len(in') : Succeeded(in'[i]) => i = Len(in') /\ t = tag
  BY <1>1, <1>2, <1>4, Sends
<1>7. QTypes'
  <2>1. /\ rx' \in [tag : 0 .. tag, first : Nat, count : Nat, got : Seq(Data)]
        /\ disk' \in [Sectors -> Data] /\ halted' \in BOOLEAN
    BY <1>1, <1>3 DEF QTypes, QueueTypes
  <2> QED BY <1>1, <1>3, <1>5, <1>6, <2>1, DriveTypes
<1>8. NewestIsLast' /\ CommandIsLast' /\ WriteIsLast' /\ PendingAllowed'
  BY <1>5, NoRx
<1>9. ASSUME Live, NEW i \in 1 .. Len(in'), Succeeded(in'[i])
      PROVE  i = Len(in') /\ out' = <<>> /\ cmd.name # "Write" /\ (cmd.name = "Read" => ReadIsThere')
  <2>1. i = Len(in') /\ t = tag
    BY <1>6, <1>9
  <2>2. out' = <<>> /\ c = cmd /\ cmd.name # "Write"
    BY <1>2, <1>9, <2>1
  <2>3. ASSUME cmd.name = "Read", NEW j \in 1 .. cmd.count
        PROVE  LET k == Len(in') - 1 - cmd.count + j
                   text == disk[cmd.first + j - 1]
               IN  k >= 1 /\ in'[k].kind = "sector" /\ in'[k].body = text
    <3> DEFINE n == Len(in)
               m == cmd.count
               l == Len(in')
    <3>1. n \in Nat /\ m \in Nat /\ Len(data) = m /\ l = n + m + 1 /\ j \in 1 .. m
          /\ data[j].kind = "sector" /\ data[j].body = disk[cmd.first + j - 1]
          /\ in'[n + j] = data[j]
      BY <1>2, <1>4, <1>6, <2>2, <2>3
    <3> HIDE DEF n, m, l
    <3>2. l - 1 - m + j = n + j /\ n + j >= 1
      BY <3>1
    <3> QED BY <3>1, <3>2 DEF l, m
  <2>4. UNCHANGED <<cmd, buffer, disk>>
    BY <1>1, <1>3
  <2>5. cmd.name = "Read" => ReadIsThere'
    BY <2>3, <2>4 DEF ReadIsThere
  <2> QED BY <2>1, <2>2, <2>5
<1>10. SuccessIsLast'
  <2>1. cmd' = cmd /\ \A i : Succeeded(in[i])' <=> Succeeded(in'[i])
    BY <1>3 DEF Succeeded
  <2> QED BY <1>3, <1>5, <1>9, <2>1 DEF SuccessIsLast
<1>11. DiskAllowed'
  BY <1>1, <1>3, DiskStays
<1> QED BY <1>7, <1>8, <1>10, <1>11 DEF Leaves, QueueInv

LEMMA RefusesLeaves ==
  ASSUME Takes, out[1].kind = "cbw", rx = NoWrite, Refuses(out[1].body, out[1].tag)
  PROVE  Leaves
<1> DEFINE c == out[1].body
           t == out[1].tag
<1>1. PICK n \in 0 .. (IF c.name = "Read" THEN c.count - 1 ELSE 0) :
        in' = in \o Content(c, n, t) \o Status(t, FALSE)
  BY DEF Refuses
<1>2. UNCHANGED <<rx, disk, attention, halted>> /\ rx' = NoWrite
  BY DEF Refuses
<1>3. c \in Commands /\ t \in 1 .. tag
  BY HeadCommand
<1>4. /\ QTypes /\ DriverInv /\ QueueInv /\ DiskAllowed /\ Monotone
      /\ halted = FALSE /\ out # <<>> /\ out' = Tail(out) /\ tag \in Nat
      /\ UNCHANGED <<phase, call, cmd, tag, buffer, known>>
  BY TakesSame
<1> HIDE DEF c, t
<1>5. n \in Nat /\ (n # 0 => c.name = "Read" /\ n <= c.count) /\ t \in Nat
  <2>1. c.count \in Nat /\ (c.name = "Read" => c.count # 0)
    BY <1>3 DEF Commands
  <2> QED BY <1>3, <1>4, <2>1
<1> DEFINE data == Content(c, n, t)
<1>6. /\ data \in Seq(InPackets) /\ Len(data) = n
      /\ \A i \in 1 .. n : data[i] = Packet("sector", t, disk[c.first + i - 1])
  BY <1>3, <1>4, <1>5, ContentType
<1> HIDE DEF data
<1>7. \A i \in 1 .. Len(data) : data[i].tag = t /\ data[i].kind # "csw"
  BY <1>6 DEF Packet
<1>8. /\ in' \in Seq(InPackets) /\ \A i \in 1 .. Len(in') : in'[i].tag \in 1 .. tag
      /\ SuccessIsLast'
  <2>1. in' = in \o data \o Status(t, FALSE)
    BY <1>1 DEF data
  <2> QED BY <1>3, <1>6, <1>7, <2>1, Sends
<1>9. QTypes'
  <2>1. /\ rx' \in [tag : 0 .. tag, first : Nat, count : Nat, got : Seq(Data)]
        /\ disk' \in [Sectors -> Data] /\ halted' \in BOOLEAN
        /\ attention' \in [Luns -> 0 .. MaxAttentions]
    BY <1>2, <1>4 DEF QTypes, QueueTypes, UnitTypes
  <2> QED BY <1>2, <1>4, <1>8, <2>1, DriveTypes
<1>10. NewestIsLast' /\ CommandIsLast' /\ WriteIsLast' /\ PendingAllowed'
  BY <1>2, NoRx
<1>11. DiskAllowed'
  BY <1>2, <1>4, DiskStays
<1> QED BY <1>8, <1>9, <1>10, <1>11 DEF Leaves, QueueInv

\* The drive forgets the packet, or stalls.
LEMMA ForgetsLeaves ==
  ASSUME Takes, UNCHANGED <<in, rx, disk, attention>>,
         (UNCHANGED halted /\ rx = NoWrite) \/ halted' = TRUE
  PROVE  Leaves
<1>1. /\ QTypes /\ DriverInv /\ QueueInv /\ DiskAllowed /\ Monotone
      /\ halted = FALSE /\ out # <<>> /\ out' = Tail(out) /\ tag \in Nat
      /\ UNCHANGED <<phase, call, cmd, tag, buffer, known>>
  BY TakesSame
<1>2. QTypes'
  <2>1. /\ in' \in Seq(InPackets) /\ \A i \in 1 .. Len(in') : in'[i].tag \in 1 .. tag
        /\ rx' \in [tag : 0 .. tag, first : Nat, count : Nat, got : Seq(Data)]
        /\ rx' # NoWrite => rx'.tag # 0
        /\ disk' \in [Sectors -> Data] /\ halted' \in BOOLEAN
        /\ attention' \in [Luns -> 0 .. MaxAttentions]
    BY <1>1 DEF QTypes, QueueTypes, UnitTypes
  <2> QED BY <1>1, <2>1, DriveTypes
<1>3. DiskAllowed'
  BY <1>1, DiskStays
<1>4. ASSUME ~halted' PROVE QueueInv'
  <2>1. rx' = NoWrite
    BY <1>4
  <2>2. NewestIsLast' /\ CommandIsLast' /\ WriteIsLast' /\ PendingAllowed'
    BY <2>1, NoRx
  <2>3. SuccessIsLast'
    BY <1>1, NothingSaid
  <2> QED BY <2>2, <2>3 DEF QueueInv
<1> QED BY <1>2, <1>3, <1>4 DEF Leaves

\* The data the drive has and the data in the queue, with a sector at its head.
LEMMA HeadSector ==
  ASSUME Takes, out[1].kind = "sector", rx # NoWrite
  PROVE  /\ out[1].body \in Data /\ Len(out) \in Nat \ {0}
         /\ SectorsAfter(1) => SectorsAfter(0)
         /\ rx.tag \in 1 .. tag /\ rx.first \in Nat /\ rx.count \in Nat /\ rx.got \in Seq(Data)
         /\ Len(rx.got) \in Nat
         /\ \A i \in 1 .. Len(rx.got) : Allowed(rx.first + i - 1, rx.got[i])
         /\ Allowed(rx.first + Len(rx.got), out[1].body)
<1>1. /\ QTypes /\ QueueInv /\ out # <<>> /\ out' = Tail(out)
  BY DEF Takes
<1>2. Len(out) \in Nat \ {0} /\ out[1] \in OutPackets
  BY <1>1, Taken
<1>3. out[1].body \in Data
  BY <1>2 DEF OutPackets
<1>4. SectorsAfter(1) => SectorsAfter(0)
  <2>1. \A r \in 0 + 1 .. Len(out) : r = 1 \/ r \in 1 + 1 .. Len(out)
    BY <1>2
  <2> QED BY <2>1 DEF SectorsAfter
<1>5. rx \in [tag : 0 .. tag, first : Nat, count : Nat, got : Seq(Data)] /\ rx.tag # 0 /\ tag \in Nat
  BY <1>1 DEF QTypes, QueueTypes
<1>6. /\ rx.tag \in 1 .. tag /\ rx.first \in Nat /\ rx.count \in Nat /\ rx.got \in Seq(Data)
      /\ Len(rx.got) \in Nat
  BY <1>5
<1>7. \A i \in 1 .. Len(rx.got) : Allowed(rx.first + i - 1, rx.got[i])
  BY <1>1 DEF QueueInv, PendingAllowed
<1>8. Allowed(rx.first + Len(rx.got), out[1].body)
  <2>1. 1 \in 1 .. Len(out) /\ \A r \in 1 .. 1 : out[r].kind = "sector"
    BY <1>2
  <2>2. Allowed(rx.first + Len(rx.got) + 1 - 1, out[1].body)
    BY <1>1, <2>1 DEF QueueInv, PendingAllowed
  <2>3. rx.first + Len(rx.got) + 1 - 1 = rx.first + Len(rx.got)
    BY <1>6
  <2> QED BY <2>2, <2>3
<1> QED BY <1>2, <1>3, <1>4, <1>6, <1>7, <1>8

\* The sector is added to what the drive has.
LEMMA Gets ==
  ASSUME Takes, out[1].kind = "sector", rx # NoWrite,
         NEW got, got = Append(rx.got, out[1].body)
  PROVE  /\ got \in Seq(Data) /\ Len(got) = Len(rx.got) + 1
         /\ \A i \in 1 .. Len(rx.got) : got[i] = rx.got[i]
         /\ got[Len(rx.got) + 1] = out[1].body
         /\ \A i \in 1 .. Len(got) : Allowed(rx.first + i - 1, got[i])
<1>1. /\ out[1].body \in Data /\ rx.first \in Nat /\ rx.got \in Seq(Data) /\ Len(rx.got) \in Nat
      /\ \A i \in 1 .. Len(rx.got) : Allowed(rx.first + i - 1, rx.got[i])
      /\ Allowed(rx.first + Len(rx.got), out[1].body)
  BY HeadSector
<1>2. /\ got \in Seq(Data) /\ Len(got) = Len(rx.got) + 1
      /\ \A i \in 1 .. Len(rx.got) : got[i] = rx.got[i]
      /\ got[Len(rx.got) + 1] = out[1].body
  BY <1>1
<1> DEFINE n == Len(rx.got)
           f == rx.first
<1>3. n \in Nat /\ f \in Nat /\ Len(got) = n + 1 /\ got[n + 1] = out[1].body
      /\ Allowed(f + n, out[1].body)
      /\ \A i \in 1 .. n : got[i] = rx.got[i] /\ Allowed(f + i - 1, rx.got[i])
  BY <1>1, <1>2
<1> HIDE DEF n, f
<1>4. ASSUME NEW i \in 1 .. n + 1 PROVE Allowed(f + i - 1, got[i])
  <2>1. CASE i \in 1 .. n
    BY <1>3, <2>1
  <2>2. CASE i = n + 1
    <3>1. f + i - 1 = f + n
      BY <1>3, <2>2
    <3> QED BY <1>3, <2>2, <3>1
  <2> QED BY <1>3, <2>1, <2>2
<1>5. \A i \in 1 .. Len(got) : Allowed(f + i - 1, got[i])
  BY <1>3, <1>4
<1> QED BY <1>2, <1>5 DEF f

\* A write that is over, with what is stored of it.
LEMMA WriteIsOver ==
  ASSUME Takes, rx # NoWrite, rx' = NoWrite, UNCHANGED <<attention, halted>>,
         NEW texts \in Seq(Data), \A i \in 1 .. Len(texts) : Allowed(rx.first + i - 1, texts[i]),
         disk' = Stored(rx.first, texts),
         NEW b \in BOOLEAN, in' = in \o Status(rx.tag, b),
         b => SuccessIsLast'
  PROVE  Leaves
<1>1. /\ QTypes /\ DriverInv /\ QueueInv /\ DiskAllowed /\ Monotone
      /\ halted = FALSE /\ out # <<>> /\ out' = Tail(out) /\ tag \in Nat
      /\ UNCHANGED <<phase, call, cmd, tag, buffer, known>>
  BY TakesSame
<1>2. rx.tag \in 1 .. tag /\ rx.first \in Nat
  BY <1>1 DEF QTypes, QueueTypes
<1>3. disk' \in [Sectors -> Data] /\ DiskAllowed'
  BY <1>1, <1>2, StoredAllowed
<1>4. NewestIsLast' /\ CommandIsLast' /\ WriteIsLast' /\ PendingAllowed'
  BY NoRx
<1> DEFINE data == <<>>
<1>5. data \in Seq(InPackets) /\ Len(data) = 0 /\ in' = in \o data \o Status(rx.tag, b)
  <2>1. in \in Seq(InPackets) /\ in \o <<>> = in
    BY <1>1 DEF QTypes, QueueTypes
  <2> QED BY <2>1
<1> HIDE DEF data
<1>6. /\ in' \in Seq(InPackets) /\ \A i \in 1 .. Len(in') : in'[i].tag \in 1 .. tag
      /\ ~b => SuccessIsLast'
  <2>1. \A i \in 1 .. Len(data) : data[i].tag = rx.tag /\ data[i].kind # "csw"
    BY <1>5
  <2> QED BY <1>2, <1>5, <2>1, Sends
<1>7. QTypes'
  <2>1. /\ rx' \in [tag : 0 .. tag, first : Nat, count : Nat, got : Seq(Data)]
        /\ halted' \in BOOLEAN /\ attention' \in [Luns -> 0 .. MaxAttentions]
    BY <1>1 DEF QTypes, QueueTypes, UnitTypes, NoWrite
  <2> QED BY <1>1, <1>3, <1>6, <2>1, DriveTypes
<1> QED BY <1>3, <1>4, <1>6, <1>7 DEF Leaves, QueueInv

\* So it is with the first sectors of one.
LEMMA PartStored ==
  ASSUME Takes, rx # NoWrite, rx' = NoWrite, UNCHANGED <<attention, halted>>,
         NEW texts \in Seq(Data), \A i \in 1 .. Len(texts) : Allowed(rx.first + i - 1, texts[i]),
         NEW n \in 0 .. Len(texts), disk' = Stored(rx.first, SubSeq(texts, 1, n)),
         in' = in \o Status(rx.tag, FALSE)
  PROVE  Leaves
<1> DEFINE some == SubSeq(texts, 1, n)
<1>1. some \in Seq(Data) /\ Len(some) = n /\ \A i \in 1 .. n : some[i] = texts[i]
  BY Prefix
<1>2. disk' = Stored(rx.first, some)
  OBVIOUS
<1> HIDE DEF some
<1>3. \A i \in 1 .. Len(some) : Allowed(rx.first + i - 1, some[i])
  <2>1. \A i \in 1 .. n : i \in 1 .. Len(texts)
    OBVIOUS
  <2> QED BY <1>1, <2>1
<1> QED BY <1>1, <1>2, <1>3, WriteIsOver

\* What the driver has sent of the write in progress, when no command is in the queue.
LEMMA WriteSent ==
  ASSUME Takes, out[1].kind = "sector", rx # NoWrite, Live, SectorsAfter(0),
         NEW got, got = Append(rx.got, out[1].body)
  PROVE  /\ cmd.name = "Write" /\ rx.tag = tag /\ rx.first = cmd.first /\ rx.count = cmd.count
         /\ Len(buffer) = Len(got) + Len(out')
         /\ \A j \in 1 .. Len(got) : got[j] = buffer[j]
         /\ \A j \in 1 .. Len(out') : out'[j].body = buffer[Len(got) + j]
<1>1. /\ cmd.name = "Write" /\ rx.tag = tag /\ rx.first = cmd.first /\ rx.count = cmd.count
      /\ Len(buffer) = Len(rx.got) + Len(out)
      /\ \A j \in 1 .. Len(rx.got) : rx.got[j] = buffer[j]
      /\ \A j \in 1 .. Len(out) : out[j].body = buffer[Len(rx.got) + j]
  BY DEF Takes, QueueInv, WriteIsLast
<1> DEFINE n == Len(rx.got)
           m == Len(out)
           b == Len(buffer)
           l == Len(out')
           k == Len(got)
<1>2. n \in Nat /\ m \in Nat \ {0} /\ b = n + m /\ l = m - 1 /\ k = n + 1
      /\ (\A i \in 1 .. l : i + 1 \in 1 .. m /\ out'[i] = out[i + 1])
      /\ (\A i \in 1 .. n : got[i] = rx.got[i]) /\ got[n + 1] = out[1].body
  BY <1>1, HeadSector, Taken, Gets DEF Takes
<1>3. /\ \A j \in 1 .. n : rx.got[j] = buffer[j]
      /\ \A j \in 1 .. m : out[j].body = buffer[n + j]
  BY <1>1
<1> HIDE DEF n, m, b, l, k
<1>4. b = k + l
  BY <1>2
<1>5. ASSUME NEW j \in 1 .. k PROVE got[j] = buffer[j]
  <2>1. CASE j \in 1 .. n
    BY <1>2, <1>3, <2>1
  <2>2. CASE j = n + 1
    <3>1. 1 \in 1 .. m
      BY <1>2
    <3>2. out[1].body = buffer[n + 1]
      BY <1>3, <3>1
    <3>3. got[n + 1] = out[1].body
      BY <1>2
    <3> QED BY <2>2, <3>2, <3>3
  <2>3. j \in 1 .. n \/ j = n + 1
    BY <1>2
  <2> QED BY <2>1, <2>2, <2>3
<1>6. ASSUME NEW j \in 1 .. l PROVE out'[j].body = buffer[k + j]
  <2>1. j + 1 \in 1 .. m /\ n + (j + 1) = k + j /\ out'[j] = out[j + 1]
    BY <1>2
  <2>2. out[j + 1].body = buffer[n + (j + 1)]
    BY <1>3, <2>1
  <2> QED BY <2>1, <2>2
<1> QED BY <1>1, <1>4, <1>5, <1>6 DEF b, k, l

LEMMA TakesMore ==
  ASSUME Takes, out[1].kind = "sector", rx # NoWrite,
         rx' = [rx EXCEPT !.got = Append(rx.got, out[1].body)],
         UNCHANGED <<in, disk, attention, halted>>
  PROVE  Leaves
<1> DEFINE got == Append(rx.got, out[1].body)
<1>1. /\ QTypes /\ DriverInv /\ QueueInv /\ DiskAllowed /\ Monotone
      /\ halted = FALSE /\ out # <<>> /\ out' = Tail(out) /\ tag \in Nat
      /\ UNCHANGED <<phase, call, cmd, tag, buffer, known>> /\ Live' = Live
  BY TakesSame
<1>2. /\ SectorsAfter(1) => SectorsAfter(0)
      /\ rx.tag \in 1 .. tag /\ rx.first \in Nat /\ rx.count \in Nat /\ Len(rx.got) \in Nat
  BY HeadSector
<1>3. /\ got \in Seq(Data) /\ Len(got) = Len(rx.got) + 1
      /\ \A i \in 1 .. Len(got) : Allowed(rx.first + i - 1, got[i])
  BY Gets
<1>4. rx'.tag = rx.tag /\ rx'.first = rx.first /\ rx'.count = rx.count /\ rx'.got = got
      /\ rx' \in [tag : 0 .. tag, first : Nat, count : Nat, got : Seq(Data)]
  <2>1. rx \in [tag : 0 .. tag, first : Nat, count : Nat, got : Seq(Data)]
    BY <1>1 DEF QTypes, QueueTypes
  <2> QED BY <1>3, <2>1
<1>5. Live /\ SectorsAfter(0) =>
        /\ cmd.name = "Write" /\ rx.tag = tag /\ rx.first = cmd.first /\ rx.count = cmd.count
        /\ Len(buffer) = Len(got) + Len(out')
        /\ \A j \in 1 .. Len(got) : got[j] = buffer[j]
        /\ \A j \in 1 .. Len(out') : out'[j].body = buffer[Len(got) + j]
  BY WriteSent
<1> HIDE DEF got
<1>6. QTypes'
  <2>1. /\ in' \in Seq(InPackets) /\ (\A i \in 1 .. Len(in') : in'[i].tag \in 1 .. tag)
        /\ disk' \in [Sectors -> Data] /\ halted' \in BOOLEAN
        /\ attention' \in [Luns -> 0 .. MaxAttentions]
    BY <1>1 DEF QTypes, QueueTypes, UnitTypes
  <2>2. rx'.tag # 0
    BY <1>2, <1>4
  <2> QED BY <1>1, <1>4, <2>1, <2>2, DriveTypes
<1>7. /\ Len(out') = Len(out) - 1 /\ Len(out') \in Nat
      /\ \A i \in 1 .. Len(out') : i + 1 \in 1 .. Len(out) /\ out'[i] = out[i + 1]
  BY <1>1, Taken
<1>8. SectorsAfter(0)' => SectorsAfter(0) /\ SectorsAfter(1)
  <2>1. 0 \in 0 .. Len(out') /\ 0 + 1 = 1
    BY <1>7
  <2>2. SectorsAfter(0)' <=> SectorsAfter(1)
    BY <1>1, <2>1, SectorsShift
  <2> QED BY <1>2, <2>2
<1>9. /\ \A p \in 1 .. Len(out') : out'[p].kind = "cbw" /\ out'[p].tag = tag => SectorsAfter(p)'
      /\ CommandIsLast'
      /\ \A p, q \in 1 .. Len(out') :
           p < q /\ out'[p].kind = "cbw" /\ out'[p].body.name = "Write"
             /\ (\A r \in p + 1 .. q : out'[r].kind = "sector") =>
             Permits(known, call, out'[p].body.first + (q - p) - 1, out'[q].body)
  BY <1>1, CommandsShift
<1>10. NewestIsLast'
  <2>1. ASSUME rx.tag = tag PROVE SectorsAfter(0)'
    <3>1. SectorsAfter(0)
      BY <1>1, <1>2, <2>1 DEF QueueInv, NewestIsLast, NoWrite
    <3>2. SectorsAfter(1)
      <4>1. \A r \in 1 + 1 .. Len(out) : r \in 0 + 1 .. Len(out)
        BY <1>7
      <4> QED BY <3>1, <4>1 DEF SectorsAfter
    <3>3. 0 \in 0 .. Len(out') /\ 0 + 1 = 1
      BY <1>7
    <3> QED BY <1>1, <3>2, <3>3, SectorsShift
  <2> QED BY <1>1, <1>4, <1>9, <2>1 DEF NewestIsLast
<1>11. WriteIsLast'
  <2>1. UNCHANGED <<cmd, tag, buffer>> /\ Live' = Live
    BY <1>1
  <2> QED BY <1>4, <1>5, <1>8, <2>1 DEF WriteIsLast
<1>12. PendingAllowed'
  <2>1. ASSUME NEW q \in 1 .. Len(out'), \A r \in 1 .. q : out'[r].kind = "sector"
        PROVE  Permits(known, call, rx.first + Len(got) + q - 1, out'[q].body)
    <3>1. q + 1 \in 1 .. Len(out) /\ out'[q] = out[q + 1]
      BY <1>7
    <3>2. ASSUME NEW r \in 1 .. q + 1 PROVE out[r].kind = "sector"
      <4>1. CASE r = 1
        BY <4>1
      <4>2. CASE r # 1
        <5>1. r - 1 \in 1 .. q /\ r - 1 \in 1 .. Len(out') /\ (r - 1) + 1 = r
          BY <1>7, <4>2
        <5>2. out'[r - 1] = out[(r - 1) + 1]
          BY <1>7, <5>1
        <5> QED BY <2>1, <5>1, <5>2
      <4> QED BY <4>1, <4>2
    <3>3. Allowed(rx.first + Len(rx.got) + (q + 1) - 1, out[q + 1].body)
      BY <1>1, <3>1, <3>2 DEF QueueInv, PendingAllowed
    <3> DEFINE f == rx.first
               n == Len(rx.got)
               k == Len(got)
    <3>4. f \in Nat /\ n \in Nat /\ k = n + 1
      BY <1>2, <1>3
    <3> HIDE DEF f, n, k
    <3>5. f + n + (q + 1) - 1 = f + k + q - 1
      BY <3>4
    <3>6. Allowed(f + k + q - 1, out'[q].body)
      BY <3>1, <3>3, <3>5 DEF f, n
    <3> QED BY <3>6 DEF Allowed, f, k
  <2>2. known' = known /\ call' = call
    BY <1>1
  <2>3. \A i \in 1 .. Len(got) : Permits(known, call, rx.first + i - 1, got[i])
    BY <1>3 DEF Allowed
  <2> QED BY <1>4, <1>9, <2>1, <2>2, <2>3 DEF PendingAllowed, Allowed
<1>13. SuccessIsLast'
  BY <1>1, NothingSaid
<1>14. DiskAllowed'
  BY <1>1, DiskStays
<1> QED BY <1>6, <1>9, <1>10, <1>11, <1>12, <1>13, <1>14 DEF Leaves, QueueInv

\* A write that succeeds is the one in progress, all of it.
LEMMA SuccessOfWrite ==
  ASSUME Takes, out[1].kind = "sector", rx # NoWrite,
         NEW got, got = Append(rx.got, out[1].body), ~(Len(got) < rx.count),
         rx' = NoWrite, disk' = Stored(rx.first, got), in' = in \o Status(rx.tag, TRUE)
  PROVE  SuccessIsLast'
<1>1. /\ QTypes /\ DriverInv /\ QueueInv /\ DiskAllowed /\ Monotone
      /\ halted = FALSE /\ out # <<>> /\ out' = Tail(out) /\ tag \in Nat
      /\ UNCHANGED <<phase, call, cmd, tag, buffer, known>> /\ Live' = Live
  BY TakesSame
<1>2. rx.tag \in 1 .. tag /\ rx.first \in Nat /\ rx.count \in Nat
  BY HeadSector
<1>3. /\ got \in Seq(Data) /\ Len(got) \in Nat
      /\ \A i \in 1 .. Len(got) : Allowed(rx.first + i - 1, got[i])
  <2>1. /\ got \in Seq(Data)
        /\ \A i \in 1 .. Len(got) : Allowed(rx.first + i - 1, got[i])
    BY Gets
  <2> QED BY <2>1
<1>4. \A i \in 1 .. Len(got) : rx.first + i - 1 \in Sectors => disk'[rx.first + i - 1] = got[i]
  BY <1>1, <1>2, <1>3, StoredAllowed
<1> DEFINE data == <<>>
<1>5. data \in Seq(InPackets) /\ Len(data) = 0 /\ in' = in \o data \o Status(rx.tag, TRUE)
  <2>1. in \in Seq(InPackets) /\ in \o <<>> = in
    BY <1>1 DEF QTypes, QueueTypes
  <2> QED BY <2>1
<1> HIDE DEF data
<1>6. Live => \A i \in 1 .. Len(in') : Succeeded(in'[i]) => i = Len(in') /\ rx.tag = tag
  <2>1. \A i \in 1 .. Len(data) : data[i].tag = rx.tag /\ data[i].kind # "csw"
    BY <1>5
  <2> QED BY <1>2, <1>5, <2>1, Sends
<1>7. ASSUME Live, rx.tag = tag
      PROVE  /\ out' = <<>> /\ cmd.name = "Write" /\ phase = "status"
             /\ \A j \in 1 .. cmd.count : disk'[cmd.first + j - 1] = call.data[j]
  <2>1. SectorsAfter(0)
    BY <1>1, <1>7 DEF QueueInv, NewestIsLast
  <2>2. /\ cmd.name = "Write" /\ rx.tag = tag /\ rx.first = cmd.first /\ rx.count = cmd.count
        /\ Len(buffer) = Len(got) + Len(out')
        /\ \A j \in 1 .. Len(got) : got[j] = buffer[j]
    BY <1>7, <2>1, WriteSent
  <2>3. /\ phase # "idle" /\ phase # "command" /\ HasSectors
    BY <1>7, <2>2 DEF Live, HasSectors
  <2>4. /\ cmd \in Commands /\ call.name = "Write"
        /\ phase = "data" => Len(buffer) < cmd.count
        /\ phase = "status" => Len(buffer) = cmd.count
        /\ \A i \in 1 .. Len(buffer) : buffer[i] = call.data[i]
    <3>1. call.name # "Init"
      BY <1>1, <2>2, <2>3 DEF DriverInv, CallInv, InitNames
    <3>2. cmd \in Commands /\ call.name = "Write"
      BY <1>1, <2>2, <2>3, <3>1 DEF DriverInv, CallInv
    <3> QED BY <1>1, <2>3, <3>2 DEF DriverInv, CallInv
  <2>5. Len(out') = Len(out) - 1 /\ Len(out') \in Nat /\ out' \in Seq(OutPackets)
    BY <1>1, Taken
  <2> DEFINE b == Len(buffer)
             k == Len(got)
             l == Len(out')
             m == cmd.count
  <2>6. /\ k \in Nat /\ l \in Nat /\ m \in Nat /\ ~(k < m) /\ b = k + l
        /\ phase = "data" => b < m
        /\ phase = "status" => b = m
        /\ phase = "data" \/ phase = "status"
    BY <1>2, <1>3, <1>7, <2>2, <2>4, <2>5 DEF Live
  <2>7. /\ \A j \in 1 .. k : got[j] = buffer[j]
        /\ \A j \in 1 .. b : buffer[j] = call.data[j]
    BY <2>2, <2>4
  <2> HIDE DEF b, k, l, m
  <2>8. phase = "status" /\ l = 0 /\ k = m /\ b = m
    BY <2>6
  <2>9. out' = <<>>
    BY <2>5, <2>8 DEF l
  <2>10. ASSUME NEW j \in 1 .. m PROVE disk'[cmd.first + j - 1] = call.data[j]
    <3>1. cmd.first \in Nat /\ cmd.first .. cmd.first + cmd.count - 1 \subseteq Sectors
      BY <2>2, <2>4 DEF Commands
    <3>2. cmd.first + j - 1 \in cmd.first .. cmd.first + m - 1
      BY <2>6, <3>1
    <3>3. cmd.first + j - 1 \in Sectors
      BY <3>1, <3>2 DEF m
    <3>4. disk'[cmd.first + j - 1] = got[j]
      BY <1>4, <2>2, <2>8, <3>3 DEF k
    <3>5. got[j] = buffer[j] /\ buffer[j] = call.data[j]
      BY <2>7, <2>8
    <3> QED BY <3>4, <3>5
  <2> QED BY <2>2, <2>8, <2>9, <2>10 DEF m
<1>8. cmd' = cmd /\ phase' = phase /\ call' = call /\ \A i : Succeeded(in[i])' <=> Succeeded(in'[i])
  BY <1>1 DEF Succeeded
<1> QED BY <1>1, <1>6, <1>7, <1>8 DEF SuccessIsLast

LEMMA TakesLast ==
  ASSUME Takes, out[1].kind = "sector", rx # NoWrite,
         ~(Len(Append(rx.got, out[1].body)) < rx.count), TakesSector(out[1].body)
  PROVE  Leaves
<1> DEFINE got == Append(rx.got, out[1].body)
<1>1. /\ got \in Seq(Data) /\ \A i \in 1 .. Len(got) : Allowed(rx.first + i - 1, got[i])
  BY Gets
<1>2. rx' = NoWrite /\ UNCHANGED <<attention, halted>>
  BY DEF TakesSector
<1>3. \/ disk' = Stored(rx.first, got) /\ in' = in \o Status(rx.tag, TRUE)
      \/ /\ \E n \in 0 .. Len(got) : disk' = Stored(rx.first, SubSeq(got, 1, n))
         /\ in' = in \o Status(rx.tag, FALSE)
  BY DEF TakesSector
<1>4. CASE disk' = Stored(rx.first, got) /\ in' = in \o Status(rx.tag, TRUE)
  <2>1. SuccessIsLast'
    BY <1>2, <1>4, SuccessOfWrite
  <2> HIDE DEF got
  <2> QED BY <1>1, <1>2, <1>4, <2>1, WriteIsOver
<1>5. CASE /\ \E n \in 0 .. Len(got) : disk' = Stored(rx.first, SubSeq(got, 1, n))
           /\ in' = in \o Status(rx.tag, FALSE)
  <2> HIDE DEF got
  <2> QED BY <1>1, <1>2, <1>5, PartStored
<1> QED BY <1>3, <1>4, <1>5

LEMMA CutsLeaves ==
  ASSUME Takes, rx # NoWrite, CutsWrite
  PROVE  Leaves
<1>1. rx.got \in Seq(Data) /\ \A i \in 1 .. Len(rx.got) : Allowed(rx.first + i - 1, rx.got[i])
  <2>1. rx.got \in Seq(Data)
    BY DEF Takes, QTypes, QueueTypes
  <2> QED BY <2>1 DEF Takes, QueueInv, PendingAllowed
<1>2. /\ rx' = NoWrite /\ UNCHANGED <<attention, halted>>
      /\ \E n \in 0 .. Len(rx.got) : disk' = Stored(rx.first, SubSeq(rx.got, 1, n))
      /\ in' = in \o Status(rx.tag, FALSE)
  BY DEF CutsWrite
<1> QED BY <1>1, <1>2, PartStored

LEMMA DriveStep == Consistent /\ Drive => Consistent' /\ StoreStep
<1> SUFFICES ASSUME Consistent, Drive PROVE Consistent' /\ StoreStep
  OBVIOUS
<1>1. UNCHANGED <<phase, call, cmd, tag, buffer, known, reply>> /\ UNCHANGED driverVars
  BY DEF Drive, driverVars, replyVars
<1>2. Takes
  BY <1>1 DEF Consistent, Drive, Takes
<1>3. Head(out) = out[1]
  BY <1>2, Taken DEF Takes
<1>4. Leaves
  <2>1. CASE out[1].kind = "cbw" /\ rx = NoWrite /\ Serves(out[1].body, out[1].tag)
    BY <1>2, <2>1, ServesWrite, ServesOther
  <2>2. CASE out[1].kind = "cbw" /\ rx = NoWrite /\ Refuses(out[1].body, out[1].tag)
    BY <1>2, <2>2, RefusesLeaves
  <2>3. CASE out[1].kind = "cbw" /\ rx # NoWrite /\ CutsWrite
    BY <1>2, <2>3, CutsLeaves
  <2>4. CASE out[1].kind = "sector" /\ rx # NoWrite /\ TakesSector(out[1].body)
    <3>1. CASE Len(Append(rx.got, out[1].body)) < rx.count
      <4>1. /\ rx' = [rx EXCEPT !.got = Append(rx.got, out[1].body)]
            /\ UNCHANGED <<in, disk, attention, halted>>
        BY <2>4, <3>1 DEF TakesSector
      <4> QED BY <1>2, <2>4, <4>1, TakesMore
    <3>2. CASE ~(Len(Append(rx.got, out[1].body)) < rx.count)
      BY <1>2, <2>4, <3>2, TakesLast
    <3> QED BY <3>1, <3>2
  <2>5. CASE out[1].kind = "sector" /\ rx = NoWrite
             /\ UNCHANGED <<in, rx, disk, attention, halted, faults>>
    BY <1>2, <2>5, ForgetsLeaves
  <2>6. CASE Stalls
    BY <1>2, <2>6, ForgetsLeaves DEF Stalls
  <2> QED BY <1>3, <2>1, <2>2, <2>3, <2>4, <2>5, <2>6 DEF Drive
<1>5. DriverInv'
  BY <1>1, DriverStays DEF Consistent
<1>6. (Live => tag # 0)'
  BY <1>1 DEF Consistent, Live
<1>7. InStep'
  <2>1. out # <<>>
    BY DEF Drive
  <2> QED BY <1>1, <2>1 DEF Consistent, InStep
<1>8. StoreStep
  BY <1>1 DEF StoreStep
<1> QED BY <1>4, <1>5, <1>6, <1>7, <1>8 DEF Consistent, Leaves

-----------------------------------------------------------------------------
(* The theorems. *)

LEMMA InitStep == Init => Consistent /\ Store!Init
<1> SUFFICES ASSUME Init PROVE Consistent /\ Store!Init
  OBVIOUS
<1>1. /\ phase = "idle" /\ call = NoCall /\ cmd = NoCommand /\ tag = 0 /\ buffer = <<>>
      /\ lun = 0 /\ try = 0 /\ found = FALSE /\ ready = FALSE /\ error = FALSE
      /\ reply = [call |-> "none", ok |-> FALSE, first |-> 0, data |-> <<>>]
      /\ known = [s \in Sectors |-> {InitialDisk[s]}]
      /\ in = <<>> /\ out = <<>> /\ rx = NoWrite /\ disk = InitialDisk
      /\ attention \in [Luns -> 0 .. MaxAttentions] /\ halted = FALSE
  BY DEF Init
<1>2. /\ call.name = "none" /\ call.first = 0 /\ call.count = 0 /\ cmd.name = "none"
      /\ reply.call = "none" /\ reply.ok = FALSE
  BY <1>1 DEF NoCall, NoCommand, Call, Command
<1>3. \A s \in Sectors : InitialDisk[s] \in Data
  BY DEF Data
<1>4. known \in [Sectors -> {{d} : d \in Data}] /\ known \in [Sectors -> SUBSET Data]
  BY <1>1, <1>3
<1>5. disk \in [Sectors -> Data]
  BY <1>1, DriveAssumption
<1>6. QTypes
  <2>1. rx \in [tag : 0 .. tag, first : Nat, count : Nat, got : Seq(Data)]
    <3>1. 0 \in 0 .. tag /\ 0 \in Nat /\ <<>> \in Seq(Data)
      BY <1>1
    <3>2. rx = [tag |-> 0, first |-> 0, count |-> 0, got |-> <<>>]
      BY <1>1 DEF NoWrite
    <3> QED BY <3>1, <3>2
  <2>2. in \in Seq(InPackets) /\ out \in Seq(OutPackets) /\ Len(in) = 0 /\ Len(out) = 0 /\ tag \in Nat
    BY <1>1
  <2>3. QueueTypes
    <3>1. /\ \A i \in 1 .. Len(in) : in[i].tag \in 1 .. tag
          /\ \A i \in 1 .. Len(out) : out[i].tag \in 1 .. tag
      BY <2>2
    <3>2. rx # NoWrite => rx.tag # 0
      BY <1>1
    <3>3. halted \in BOOLEAN
      BY <1>1
    <3> QED BY <1>5, <2>1, <2>2, <3>1, <3>2, <3>3 DEF QueueTypes
  <2> QED BY <1>1, <2>3 DEF QTypes, UnitTypes
<1>7. DriverInv
  <2>1. SearchTypes
    <3>1. Cardinality(Luns) \in Nat /\ 0 <= Cardinality(Luns) /\ 0 \in 0 .. Tries - 1
      BY Sizes
    <3> QED BY <1>1, <3>1 DEF SearchTypes
  <2>2. ReplyTypes
    BY <1>1, <1>4 DEF ReplyTypes
  <2>3. CallInv
    BY <1>1, <1>2 DEF CallInv, HasSectors, HasResponse
  <2> QED BY <2>1, <2>2, <2>3 DEF DriverInv
<1>8. ~Live
  BY <1>1 DEF Live
<1>9. QueueInv
  BY <1>1, <1>8 DEF QueueInv, NewestIsLast, CommandIsLast, WriteIsLast, SuccessIsLast, PendingAllowed
<1>10. DiskAllowed
  BY <1>1 DEF DiskAllowed, Allowed, Permits
<1>11. InStep
  BY <1>2 DEF InStep
<1> QED BY <1>2, <1>4, <1>6, <1>7, <1>8, <1>9, <1>10, <1>11 DEF Consistent, Store!Init

LEMMA NextStep == Consistent /\ [Next]_vars => Consistent' /\ StoreStep
<1> SUFFICES ASSUME Consistent, [Next]_vars PROVE Consistent' /\ StoreStep
  OBVIOUS
<1> QED BY CallsStep, SendCommandStep, ReadChunkStep, WriteChunkStep, ReadResponseStep,
           ReadStatusStep, DriveStep, StutterStep DEF Next, Transfer

LEMMA ConsistentTypes == Consistent => TypeOK
<1> SUFFICES ASSUME Consistent PROVE TypeOK
  OBVIOUS
<1>1. QTypes /\ DriverInv
  BY DEF Consistent
<1>2. lun \in 0 .. Cardinality(Luns)
  <2>1. Cardinality(Luns) \in Nat
    BY Sizes
  <2> QED BY <1>1, <2>1 DEF DriverInv, SearchTypes
<1>3. \A i \in 1 .. Len(in) : in[i].kind \in PacketKinds \ {"cbw"} /\ in[i].tag \in 1 .. tag
  <2>1. ASSUME NEW i \in 1 .. Len(in) PROVE in[i].kind \in PacketKinds \ {"cbw"}
    <3>1. in[i] \in InPackets
      BY <1>1 DEF QTypes, QueueTypes
    <3> QED BY <3>1 DEF InPackets, Responses, PacketKinds
  <2> QED BY <1>1, <2>1 DEF QTypes, QueueTypes
<1>4. \A i \in 1 .. Len(out) : out[i].kind \in {"cbw", "sector"} /\ out[i].tag \in 1 .. tag
  <2>1. ASSUME NEW i \in 1 .. Len(out) PROVE out[i].kind \in {"cbw", "sector"}
    <3>1. out[i] \in OutPackets
      BY <1>1 DEF QTypes, QueueTypes
    <3> QED BY <3>1 DEF OutPackets
  <2> QED BY <1>1, <2>1 DEF QTypes, QueueTypes
<1>5. rx = NoWrite \/ rx.tag \in 1 .. tag
  BY <1>1 DEF QTypes, QueueTypes
<1>6. /\ phase \in {"idle", "command", "data", "status"}
      /\ try \in 0 .. Tries - 1 /\ found \in BOOLEAN /\ ready \in BOOLEAN /\ error \in BOOLEAN
      /\ known \in [Sectors -> SUBSET Data]
  BY <1>1 DEF DriverInv, SearchTypes, ReplyTypes, CallInv
<1>7. tag \in Nat /\ disk \in [Sectors -> Data] /\ halted \in BOOLEAN
      /\ attention \in [Luns -> 0 .. MaxAttentions]
  BY <1>1 DEF QTypes, QueueTypes, UnitTypes
<1> QED BY <1>2, <1>3, <1>4, <1>5, <1>6, <1>7 DEF TypeOK

THEOREM AlwaysConsistent == Spec => []Consistent
<1>1. Init => Consistent
  BY InitStep
<1>2. Consistent /\ [Next]_vars => Consistent'
  BY NextStep
<1> QED BY <1>1, <1>2, PTL DEF Spec

\* The variables have their types, and no status, sector or command has a tag
\* SCSITransfer did not send yet (m_tag, USBStorage.cpp:68).
THEOREM TypeCorrect == Spec => []TypeOK
BY AlwaysConsistent, ConsistentTypes, PTL

\* Nothing is left behind by a command that succeeds, whatever was left behind by
\* those before it: the tag in the status (USBStorage.cpp:123) is enough.
THEOREM StaysInStep == Spec => []InStep
<1>1. Consistent => InStep
  BY DEF Consistent
<1> QED BY <1>1, AlwaysConsistent, PTL

\* What FatFS reads through disk_read is what disk_write put there (FatFS.cpp), as
\* far as the replies of the driver told it, through faults and whatever they leave
\* in the drive.
THEOREM DriveIsStore == Spec => ImplementsStore
<1>1. Init => Consistent /\ Store!Init
  BY InitStep
<1>2. Consistent /\ [Next]_vars => Consistent' /\ [Store!Next]_(Store!vars)
  BY NextStep DEF StoreStep, Store!vars
<1> QED BY <1>1, <1>2, PTL DEF Spec, ImplementsStore, Store!Spec

-----------------------------------------------------------------------------
(* The search for the disk of a drive *)

\* Nothing has failed, and FindLun makes more attempts than a unit has attentions.
Easy == faults = 0 /\ MaxAttentions < Tries

Clear == in = <<>> /\ out = <<>> /\ rx = NoWrite

\* The exchange with the drive, from the command to its status.
Asked ==
  /\ out = <<Packet("cbw", tag, cmd)>> /\ in = <<>>
  /\ phase = IF HasResponse THEN "data" ELSE "status"
Granted ==
  /\ out = <<>>
  /\ IF phase = "data"
     THEN /\ Len(in) = 2
          /\ in[1] = Packet(cmd.name, tag, TRUE) /\ in[2] = Packet("csw", tag, TRUE)
     ELSE Len(in) = 1 /\ in[1] = Packet("csw", tag, TRUE)
Refused ==
  /\ out = <<>> /\ Len(in) = 1 /\ in[1] = Packet("csw", tag, FALSE)
  /\ cmd.name \notin {"Inquiry", "RequestSense"}

Exchange ==
  IF phase = "command" THEN Clear
  ELSE rx = NoWrite /\ (Asked \/ Granted \/ Refused)

\* The units passed are no disks, and a disk has no more attentions than there are
\* attempts left.
UnitInv ==
  /\ \A l \in Luns : l < lun => Units[l] # "disk"
  /\ cmd.lun = lun
  /\ found => /\ cmd.name \in {"ReadCapacity", "TestUnitReady"}
              /\ Units[lun] = "disk" /\ attention[lun] = 0 /\ ~Refused
  /\ cmd.name = "ReadCapacity" => found
  /\ Units[lun] = "disk" =>
       /\ cmd.name = "TestUnitReady" /\ ~found =>
            /\ attention[lun] + try <= MaxAttentions
            /\ Granted => attention[lun] = 0
            /\ Refused => attention[lun] > 0
       /\ cmd.name = "Inquiry" => attention[lun] = 0
       /\ cmd.name = "RequestSense" =>
            IF Granted THEN attention[lun] + try + 1 <= MaxAttentions
            ELSE attention[lun] > 0 /\ attention[lun] + try <= MaxAttentions

SearchInv ==
  /\ ~halted
  /\ reply.call = "Init" /\ ~reply.ok => \A l \in Luns : Units[l] # "disk"
  /\ phase = "idle" /\ ~ready /\ ~error => Clear
  /\ call.name \notin {"none", "Init"} => ready
  /\ call.name = "Init" => Exchange /\ UnitInv

EasySearch == faults \in Nat /\ (Easy => SearchInv)

LEMMA FaultCounts == ASSUME faults \in Nat, NEW f, Fault(f) PROVE faults' \in Nat /\ faults' # 0
BY DEF Fault

\* What is known while Init runs.
LEMMA Searching ==
  ASSUME Consistent, EasySearch, Easy, call.name = "Init"
  PROVE  /\ phase \in {"command", "data", "status"} /\ cmd.name \in InitNames /\ cmd \in Commands
         /\ lun \in Luns /\ lun \in Nat /\ try \in 0 .. Tries - 1 /\ try \in Nat
         /\ found \in BOOLEAN
         /\ tag \in Nat /\ in \in Seq(InPackets) /\ Len(in) \in Nat
         /\ attention \in [Luns -> 0 .. MaxAttentions] /\ MaxAttentions \in Nat /\ Tries \in Nat
         /\ ~HasSectors /\ (phase = "data" => HasResponse)
         /\ ~halted /\ Exchange /\ UnitInv
<1>1. QTypes /\ DriverInv
  BY DEF Consistent
<1>2. phase \in {"command", "data", "status"} /\ phase # "idle"
  BY <1>1 DEF DriverInv, CallInv
<1>3. cmd.name \in InitNames /\ cmd \in Commands
  BY <1>1, <1>2 DEF DriverInv, CallInv
<1>4. ~HasSectors
  BY <1>3 DEF HasSectors, InitNames
<1>5. phase = "data" => HasResponse
  BY <1>1, <1>4 DEF DriverInv, CallInv
<1>6. lun \in Luns /\ lun \in Nat /\ try \in 0 .. Tries - 1 /\ found \in BOOLEAN /\ try \in Nat
  BY <1>1, <1>2 DEF DriverInv, SearchTypes
<1>7. /\ tag \in Nat /\ in \in Seq(InPackets) /\ attention \in [Luns -> 0 .. MaxAttentions]
      /\ MaxAttentions \in Nat /\ Tries \in Nat
  BY <1>1, DriveAssumption DEF QTypes, QueueTypes, UnitTypes
<1>8. Len(in) \in Nat
  BY <1>7
<1>9. ~halted /\ Exchange /\ UnitInv
  BY DEF EasySearch, SearchInv
<1> QED BY <1>2, <1>3, <1>4, <1>5, <1>6, <1>7, <1>8, <1>9

\* A command that has been answered, and the one that follows.
LEMMA Follows ==
  ASSUME NEW name, NEW l, Continue(name, l), call.name = "Init",
         in' = <<>>, out' = <<>>, rx' = NoWrite, halted' = halted,
         ~halted, Easy, EasySearch, UnitInv'
  PROVE  SearchInv'
<1>1. phase' = "command" /\ cmd' = Command(name, l, 0, 0) /\ UNCHANGED <<call, ready, error, reply>>
  BY DEF Continue, Issue, replyVars
<1>2. Exchange'
  BY <1>1 DEF Exchange, Clear
<1>3. reply'.call = "Init" /\ ~reply'.ok => \A k \in Luns : Units[k] # "disk"
  BY <1>1 DEF EasySearch, SearchInv
<1> QED BY <1>1, <1>2, <1>3 DEF SearchInv

LEMMA Unanswered ==
  ASSUME in' = <<>>
  PROVE  ~Granted' /\ ~Refused'
<1>1. Len(in') = 0
  OBVIOUS
<1> QED BY <1>1 DEF Granted, Refused

\* SCSITransfer returns to FindLun or to the rest of Init.
LEMMA ReturnFinds ==
  ASSUME Consistent, EasySearch, Easy, call.name = "Init", phase # "command",
         NEW b \in BOOLEAN, NEW d, Return(b, d), IF b THEN Granted ELSE Refused,
         in' = <<>>, out' = <<>>, rx' = NoWrite, UNCHANGED <<attention, halted>>
  PROVE  SearchInv'
<1>1. /\ phase \in {"command", "data", "status"} /\ cmd.name \in InitNames /\ cmd \in Commands
      /\ lun \in Luns /\ lun \in Nat /\ try \in 0 .. Tries - 1 /\ try \in Nat /\ found \in BOOLEAN
      /\ attention \in [Luns -> 0 .. MaxAttentions] /\ MaxAttentions \in Nat /\ Tries \in Nat
      /\ ~halted /\ UnitInv
  BY Searching
<1>2. ~Granted' /\ ~Refused' /\ attention' = attention /\ halted' = halted
  BY Unanswered
<1>3. MaxAttentions < Tries
  BY DEF Easy
<1>4. \A name, l : Command(name, l, 0, 0).name = name /\ Command(name, l, 0, 0).lun = l
  BY DEF Command
<1>5. CASE TestedUnit(b)
  <2>1. cmd.name = "TestUnitReady" /\ ~found /\ UNCHANGED <<lun, try, found>>
    BY <1>5 DEF TestedUnit, initVars
  <2>2. CASE b
    <3>1. Continue("Inquiry", lun) /\ Granted
      BY <1>5, <2>2 DEF TestedUnit
    <3>2. cmd'.name = "Inquiry" /\ cmd'.lun = lun
      BY <1>4, <3>1 DEF Continue, Issue
    <3>3. UnitInv'
      BY <1>1, <1>2, <2>1, <3>1, <3>2 DEF UnitInv
    <3> QED BY <1>1, <3>1, <3>3, Follows
  <2>3. CASE ~b
    <3>1. Continue("RequestSense", lun) /\ Refused
      BY <1>5, <2>3 DEF TestedUnit
    <3>2. cmd'.name = "RequestSense" /\ cmd'.lun = lun
      BY <1>4, <3>1 DEF Continue, Issue
    <3>3. UnitInv'
      BY <1>1, <1>2, <2>1, <3>1, <3>2 DEF UnitInv
    <3> QED BY <1>1, <3>1, <3>3, Follows
  <2> QED BY <2>2, <2>3
<1>6. CASE Inquired(b)
  <2>1. cmd.name = "Inquiry" /\ UNCHANGED <<lun, try>> /\ ~found
    BY <1>1, <1>6 DEF Inquired, UnitInv
  <2>2. b
    BY <2>1 DEF Refused
  <2>3. CASE Units[lun] = "disk"
    <3>1. Continue("ReadCapacity", lun) /\ found' = TRUE
      BY <1>6, <2>2, <2>3 DEF Inquired
    <3>2. cmd'.name = "ReadCapacity" /\ cmd'.lun = lun
      BY <1>4, <3>1 DEF Continue, Issue
    <3>3. UnitInv'
      BY <1>1, <1>2, <2>1, <2>3, <3>1, <3>2 DEF UnitInv
    <3> QED BY <1>1, <3>1, <3>3, Follows
  <2>4. CASE Units[lun] # "disk"
    <3>1. Continue("RequestSense", lun) /\ found' = found
      BY <1>6, <2>2, <2>4 DEF Inquired
    <3>2. cmd'.name = "RequestSense" /\ cmd'.lun = lun
      BY <1>4, <3>1 DEF Continue, Issue
    <3>3. UnitInv'
      BY <1>1, <1>2, <2>1, <2>4, <3>1, <3>2 DEF UnitInv
    <3> QED BY <1>1, <3>1, <3>3, Follows
  <2> QED BY <2>3, <2>4
<1>7. CASE Sensed
  <2>1. cmd.name = "RequestSense" /\ ~found /\ UNCHANGED found
    BY <1>1, <1>7 DEF Sensed, UnitInv
  <2>2. b /\ Granted
    BY <2>1 DEF Refused
  <2>3. Units[lun] = "disk" => attention[lun] + try + 1 <= MaxAttentions
    BY <1>1, <2>1, <2>2 DEF UnitInv
  <2>4. attention[lun] \in Nat
    BY <1>1
  <2>5. CASE AnotherTry
    <3>1. try' = try + 1 /\ lun' = lun /\ Continue("TestUnitReady", lun)
      BY <1>7, <2>5 DEF Sensed
    <3>2. cmd'.name = "TestUnitReady" /\ cmd'.lun = lun
      BY <1>4, <3>1 DEF Continue, Issue
    <3>3. Units[lun'] = "disk" => attention'[lun'] + try' <= MaxAttentions
      BY <1>1, <1>2, <2>3, <2>4, <3>1
    <3>4. UnitInv'
      BY <1>1, <1>2, <2>1, <3>1, <3>2, <3>3 DEF UnitInv
    <3> QED BY <1>1, <3>1, <3>4, Follows
  <2>6. CASE ~AnotherTry
    <3>1. Units[lun] # "disk"
      BY <1>1, <1>3, <2>3, <2>4, <2>6 DEF AnotherTry
    <3>2. \A l \in Luns : l < lun + 1 => Units[l] # "disk"
      <4>1. \A l \in Luns : l < lun + 1 => l < lun \/ l = lun
        BY <1>1, LunsAreNat
      <4> QED BY <1>1, <3>1, <4>1 DEF UnitInv
    <3>3. try' = 0 /\ lun' = lun + 1
      BY <1>7, <2>6 DEF Sensed
    <3>4. CASE lun + 1 \in Luns
      <4>1. Continue("TestUnitReady", lun + 1)
        BY <1>7, <2>6, <3>4 DEF Sensed
      <4>2. cmd'.name = "TestUnitReady" /\ cmd'.lun = lun'
        BY <1>4, <3>3, <4>1 DEF Continue, Issue
      <4>3. attention'[lun'] + try' <= MaxAttentions
        BY <1>1, <1>2, <3>3, <3>4
      <4>4. UnitInv'
        BY <1>2, <2>1, <3>2, <3>3, <4>2, <4>3 DEF UnitInv
      <4> QED BY <1>1, <4>1, <4>4, Follows
    <3>5. CASE lun + 1 \notin Luns
      <4>1. \A l \in Luns : l < lun + 1
        BY <1>1, <3>5, Sizes
      <4>2. Finish(FALSE, <<>>)
        BY <1>7, <2>6, <3>5 DEF Sensed
      <4>3. phase' = "idle" /\ call' = NoCall /\ error' = TRUE
        BY <4>2 DEF Finish
      <4> QED BY <1>1, <1>2, <3>2, <4>1, <4>3 DEF SearchInv, NoCall, Call
    <3> QED BY <3>4, <3>5
  <2> QED BY <2>5, <2>6
<1>8. CASE GotCapacity(b)
  <2>1. cmd.name = "ReadCapacity" /\ found /\ ~Refused /\ UNCHANGED <<lun, try, found>>
    BY <1>1, <1>8 DEF GotCapacity, UnitInv, initVars
  <2>2. b /\ Continue("TestUnitReady", lun)
    BY <1>8, <2>1 DEF GotCapacity
  <2>3. cmd'.name = "TestUnitReady" /\ cmd'.lun = lun
    BY <1>4, <2>2 DEF Continue, Issue
  <2>4. UnitInv'
    BY <1>1, <1>2, <2>1, <2>3 DEF UnitInv
  <2> QED BY <1>1, <2>2, <2>4, Follows
<1>9. CASE TestedLast(b)
  <2>1. found /\ ~Refused /\ Finish(b, <<>>)
    BY <1>1, <1>9 DEF TestedLast, UnitInv
  <2>2. b = TRUE
    BY <2>1
  <2>3. phase' = "idle" /\ call' = NoCall /\ reply'.ok = TRUE
    BY <2>1, <2>2 DEF Finish
  <2> QED BY <1>1, <1>2, <2>3 DEF SearchInv, NoCall, Call, Clear
<1>10. CASE MovedSectors(b, d)
  BY <1>1, <1>10 DEF MovedSectors, InitNames
<1> QED BY <1>5, <1>6, <1>7, <1>8, <1>9, <1>10 DEF Return

-----------------------------------------------------------------------------
(* The transfers of Init. *)

LEMMA GoesOn ==
  ASSUME EasySearch, Easy, NEW next, NEW b, GoOn(next, b), next # "idle", ~halted',
         call.name = "Init" => Exchange' /\ UnitInv'
  PROVE  SearchInv'
<1>1. phase' = next /\ UNCHANGED <<call, ready, reply>>
  BY DEF GoOn, replyVars
<1>2. SearchInv
  BY DEF EasySearch
<1> QED BY <1>1, <1>2 DEF SearchInv

LEMMA SendFinds ==
  ASSUME Consistent, EasySearch, Easy, call.name = "Init", SendCommand, faults' = 0
  PROVE  SearchInv'
<1>1. /\ cmd.name \in InitNames /\ try \in Nat /\ tag \in Nat /\ MaxAttentions \in Nat
      /\ attention \in [Luns -> 0 .. MaxAttentions] /\ lun \in Luns
      /\ ~HasSectors /\ ~halted /\ Exchange /\ UnitInv
  BY Searching
<1>2. phase = "command" /\ tag' = tag + 1 /\ UNCHANGED <<in, rx, attention, halted>>
  BY DEF SendCommand
<1>3. in = <<>> /\ out = <<>> /\ rx = NoWrite
  BY <1>1, <1>2 DEF Exchange, Clear
<1>4. Len(in) = 0
  BY <1>3
<1>5. ~Granted /\ ~Refused
  BY <1>2, <1>4 DEF Granted, Refused
<1>6. ~Granted' /\ ~Refused'
  BY <1>2, <1>3, Unanswered
<1> DEFINE block == <<Packet("cbw", tag + 1, cmd)>>
           next == IF HasSectors \/ HasResponse THEN "data" ELSE "status"
<1>7. Sent(block) /\ GoOn(next, <<>>)
  <2>1. ~NotSent(block)
    BY <1>1, FaultCounts DEF NotSent, EasySearch
  <2> QED BY <2>1 DEF SendCommand
<1>8. out' = block
  BY <1>3, <1>7 DEF Sent
<1>9. phase' = next /\ UNCHANGED <<cmd, lun, try, found>>
  BY <1>7 DEF GoOn, initVars
<1>10. Exchange'
  <2>1. phase' = (IF HasResponse' THEN "data" ELSE "status")
    BY <1>1, <1>9 DEF HasResponse
  <2>2. Asked'
    BY <1>2, <1>3, <1>8, <1>9, <2>1 DEF Asked
  <2> QED BY <1>2, <1>3, <2>1, <2>2 DEF Exchange
<1>11. UnitInv'
  BY <1>1, <1>2, <1>5, <1>6, <1>9 DEF UnitInv
<1> QED BY <1>1, <1>2, <1>7, <1>10, <1>11, GoesOn

LEMMA ResponseFinds ==
  ASSUME Consistent, EasySearch, Easy, call.name = "Init", ReadResponse, faults' = 0
  PROVE  SearchInv'
<1>1. /\ cmd.name \in InitNames /\ try \in Nat /\ tag \in Nat /\ MaxAttentions \in Nat
      /\ attention \in [Luns -> 0 .. MaxAttentions] /\ lun \in Luns
      /\ in \in Seq(InPackets) /\ Len(in) \in Nat
      /\ ~halted /\ Exchange /\ UnitInv
  BY Searching
<1>2. phase = "data" /\ HasResponse /\ UNCHANGED <<tag, out, rx, attention, halted>>
  BY DEF ReadResponse
<1>3. rx = NoWrite /\ (Asked \/ Granted \/ Refused)
  BY <1>1, <1>2 DEF Exchange
<1>4. cmd.name # "csw" /\ cmd.name # "TestUnitReady"
  BY <1>2 DEF HasResponse
<1>5. CASE Fits(cmd.name, 1) /\ Drop(1) /\ GoOn("status", <<>>)
  <2>1. 1 <= Len(in) /\ in[1].kind = cmd.name
    BY <1>5 DEF Fits
  <2>2. ~Asked
    <3>1. Asked => Len(in) = 0
      BY DEF Asked
    <3> QED BY <2>1, <3>1
  <2>3. ~Refused
    BY <1>4, <2>1 DEF Refused, Packet
  <2>4. Granted
    BY <1>3, <2>2, <2>3
  <2>5. Len(in) = 2 /\ out = <<>> /\ in[2] = Packet("csw", tag, TRUE)
    BY <1>2, <2>4 DEF Granted
  <2>6. Len(in') = 1 /\ in'[1] = in[2]
    <3>1. 1 \in 0 .. Len(in) /\ in' = SubSeq(in, 1 + 1, Len(in))
      BY <1>5, <2>5 DEF Drop
    <3>2. Len(in') = Len(in) - 1 /\ \A i \in 1 .. Len(in) - 1 : in'[i] = in[i + 1]
      BY <1>1, <3>1, Dropped
    <3>3. 1 \in 1 .. Len(in) - 1 /\ 1 + 1 = 2 /\ Len(in') = 1
      BY <2>5, <3>2
    <3>4. in'[1] = in[1 + 1]
      BY <3>2, <3>3
    <3> QED BY <3>3, <3>4
  <2>7. phase' = "status" /\ UNCHANGED <<cmd, lun, try, found>>
    BY <1>5 DEF GoOn, initVars
  <2>8. Granted'
    BY <1>2, <2>5, <2>6, <2>7 DEF Granted
  <2>9. ~Refused'
    BY <1>2, <2>5, <2>6 DEF Refused, Packet
  <2>10. Exchange'
    BY <1>2, <1>3, <2>7, <2>8 DEF Exchange
  <2>11. UnitInv'
    BY <1>1, <1>2, <1>4, <2>4, <2>7, <2>8, <2>9 DEF UnitInv
  <2> QED BY <1>1, <1>2, <1>5, <2>10, <2>11, GoesOn
<1>6. CASE NotReceived(cmd.name, 1) /\ GiveUp
  <2>1. ~\E f : Fault(f)
    BY FaultCounts DEF EasySearch
  <2>2. Asked => out # <<>> /\ Len(in) = 0
    BY DEF Asked
  <2>3. Granted \/ Refused => Len(in) >= 1
    <3>1. Granted => Len(in) = 2
      BY <1>2 DEF Granted
    <3>2. Refused => Len(in) = 1
      BY DEF Refused
    <3> QED BY <3>1, <3>2
  <2>4. PICK k \in 1 .. LeastOf(1, Len(in)) : in[k].kind # cmd.name /\ Drop(k)
    BY <1>1, <1>3, <1>6, <2>1, <2>2, <2>3 DEF NotReceived
  <2>5. k = 1 /\ Len(in) >= 1
    BY <1>1, <2>4 DEF LeastOf
  <2>6. ~Granted
    BY <1>2, <2>4, <2>5 DEF Granted, Packet
  <2>7. Refused
    BY <1>3, <2>2, <2>5, <2>6
  <2>8. in' = <<>>
    <3>1. Len(in) = 1 /\ 1 \in 0 .. Len(in) /\ in' = SubSeq(in, 1 + 1, Len(in))
      BY <2>4, <2>5, <2>7 DEF Drop, Refused
    <3>2. Len(in') = Len(in) - 1 /\ in' \in Seq(InPackets)
      BY <1>1, <3>1, Dropped
    <3> QED BY <3>1, <3>2, EmptySeq
  <2>9. out' = <<>> /\ rx' = NoWrite
    BY <1>2, <1>3, <2>7 DEF Refused
  <2>10. Return(FALSE, <<>>)
    BY <1>6 DEF GiveUp
  <2> QED BY <1>2, <2>7, <2>8, <2>9, <2>10, ReturnFinds
<1> QED BY <1>5, <1>6 DEF ReadResponse

LEMMA StatusFinds ==
  ASSUME Consistent, EasySearch, Easy, call.name = "Init", ReadStatus, faults' = 0
  PROVE  SearchInv'
<1>1. /\ tag \in Nat /\ in \in Seq(InPackets) /\ Len(in) \in Nat
      /\ ~halted /\ Exchange /\ UnitInv
  BY Searching
<1>2. phase = "status" /\ UNCHANGED <<tag, out, rx, attention, halted>>
  BY DEF ReadStatus
<1>3. rx = NoWrite /\ (Asked \/ Granted \/ Refused)
  BY <1>1, <1>2 DEF Exchange
<1>4. Asked => out # <<>> /\ Len(in) = 0
  BY DEF Asked
<1>5. Granted \/ Refused => Len(in) = 1 /\ in[1].kind = "csw"
  BY <1>2 DEF Granted, Refused, Packet
<1>6. ~NotReceived("csw", 1)
  <2>1. ~\E f : Fault(f)
    BY FaultCounts DEF EasySearch
  <2>2. ~\E k \in 1 .. LeastOf(1, Len(in)) : in[k].kind # "csw"
    BY <1>3, <1>4, <1>5 DEF LeastOf
  <2> QED BY <1>1, <1>3, <1>4, <1>5, <2>1, <2>2 DEF NotReceived
<1>7. Fits("csw", 1) /\ Drop(1) /\ Return(StatusOK(Head(in)), buffer)
  BY <1>6 DEF ReadStatus
<1>8. Len(in) = 1
  BY <1>3, <1>4, <1>5, <1>7 DEF Fits
<1>9. in' = <<>>
  <2>1. 1 \in 0 .. Len(in) /\ in' = SubSeq(in, 1 + 1, Len(in))
    BY <1>7, <1>8 DEF Drop
  <2>2. Len(in') = Len(in) - 1 /\ in' \in Seq(InPackets)
    BY <1>1, <2>1, Dropped
  <2> QED BY <1>8, <2>2, EmptySeq
<1>10. Head(in) = in[1]
  BY <1>1, <1>8
<1>11. out' = <<>> /\ rx' = NoWrite /\ (Granted \/ Refused)
  <2>1. Granted \/ Refused
    BY <1>3, <1>4, <1>8
  <2>2. out = <<>>
    BY <2>1 DEF Granted, Refused
  <2> QED BY <1>2, <1>3, <2>1, <2>2
<1>12. CASE Granted
  <2>1. in[1] = Packet("csw", tag, TRUE)
    BY <1>2, <1>12 DEF Granted
  <2>2. StatusOK(in[1]) = TRUE
    BY <2>1 DEF StatusOK, Packet
  <2>3. Return(TRUE, buffer)
    BY <1>7, <1>10, <2>2
  <2> QED BY <1>2, <1>9, <1>11, <1>12, <2>3, ReturnFinds
<1>13. CASE Refused
  <2>1. in[1] = Packet("csw", tag, FALSE)
    BY <1>13 DEF Refused
  <2>2. StatusOK(in[1]) = FALSE
    BY <2>1 DEF StatusOK, Packet
  <2>3. Return(FALSE, buffer)
    BY <1>7, <1>10, <2>2
  <2> QED BY <1>2, <1>9, <1>11, <1>13, <2>3, ReturnFinds
<1> QED BY <1>11, <1>12, <1>13
-----------------------------------------------------------------------------
(* The drive answers. *)

LEMMA Answered ==
  ASSUME NEW S, NEW x \in Seq(S), NEW s \in S
  PROVE  LET r == <<>> \o x \o <<s>>
         IN  /\ r \in Seq(S) /\ Len(r) = Len(x) + 1 /\ r[Len(x) + 1] = s
             /\ \A i \in 1 .. Len(x) : r[i] = x[i]
<1>1. <<>> \o x = x
  BY ConcatEmptySeq
<1>2. <<s>> \in Seq(S) /\ Len(<<s>>) = 1 /\ <<s>>[1] = s
  BY SingleOf
<1>3. /\ x \o <<s>> \in Seq(S) /\ Len(x \o <<s>>) = Len(x) + Len(<<s>>)
      /\ \A i \in 1 .. Len(x) : (x \o <<s>>)[i] = x[i]
      /\ \A i \in 1 .. Len(<<s>>) : (x \o <<s>>)[Len(x) + i] = <<s>>[i]
  BY <1>2, Joined
<1>4. 1 \in 1 .. Len(<<s>>)
  BY <1>2
<1>5. (x \o <<s>>)[Len(x) + 1] = s
  BY <1>2, <1>3, <1>4
<1> QED BY <1>1, <1>2, <1>3, <1>5

\* What is known when the drive takes a command of Init.
LEMMA Takeable ==
  ASSUME Consistent, EasySearch, Easy, call.name = "Init", Drive, faults' = 0
  PROVE  /\ Asked /\ out' = <<>> /\ rx = NoWrite /\ UNCHANGED driverVars
         /\ Serves(cmd, tag) \/ Refuses(cmd, tag)
<1>1. tag \in Nat /\ ~halted /\ Exchange /\ phase \in {"command", "data", "status"}
  BY Searching
<1>2. out # <<>> /\ out' = Tail(out) /\ UNCHANGED driverVars
  BY DEF Drive
<1>3. phase # "command" /\ rx = NoWrite /\ Asked
  BY <1>1, <1>2 DEF Exchange, Clear, Granted, Refused
<1>4. out = <<Packet("cbw", tag, cmd)>>
  BY <1>3 DEF Asked
<1>5. out' = <<>> /\ Head(out) = Packet("cbw", tag, cmd)
  BY <1>2, <1>4
<1>6. Head(out).kind = "cbw" /\ Head(out).body = cmd /\ Head(out).tag = tag
  BY <1>5 DEF Packet
<1>7. ~Stalls
  BY FaultCounts DEF Stalls, EasySearch
<1>8. Serves(cmd, tag) \/ Refuses(cmd, tag)
  BY <1>3, <1>6, <1>7 DEF Drive
<1> QED BY <1>2, <1>3, <1>5, <1>8

\* The drive does what it was asked for.
LEMMA ServesFinds ==
  ASSUME Consistent, EasySearch, Easy, call.name = "Init", UNCHANGED driverVars,
         Asked, out' = <<>>, rx = NoWrite, phase # "command", Serves(cmd, tag)
  PROVE  SearchInv'
<1>1. /\ cmd.name \in InitNames /\ cmd \in Commands /\ tag \in Nat
      /\ lun \in Luns /\ lun \in Nat /\ try \in Nat
      /\ attention \in [Luns -> 0 .. MaxAttentions] /\ MaxAttentions \in Nat
      /\ ~halted /\ UnitInv /\ phase \in {"command", "data", "status"}
  BY Searching
<1>2. UNCHANGED <<phase, call, cmd, tag, lun, try, found, ready, error, reply>>
  BY DEF driverVars, initVars, replyVars
<1>3. in = <<>> /\ phase = IF HasResponse THEN "data" ELSE "status"
  BY DEF Asked
<1>4. /\ Able(cmd) /\ UNCHANGED <<rx, halted>>
      /\ attention' = IF cmd.name = "RequestSense" /\ attention[cmd.lun] > 0
                      THEN [attention EXCEPT ![cmd.lun] = @ - 1] ELSE attention
  BY <1>1 DEF Serves, InitNames
<1> DEFINE x == IF HasResponse THEN <<Packet(cmd.name, tag, TRUE)>> ELSE <<>>
           s == Packet("csw", tag, TRUE)
<1>5. in' = <<>> \o x \o <<s>>
  BY <1>1, <1>3 DEF Serves, Status, HasResponse, InitNames
<1>6. x \in Seq(InPackets) /\ s \in InPackets
  <2>1. HasResponse => <<Packet(cmd.name, tag, TRUE)>> \in Seq(InPackets)
    <3>1. HasResponse => Packet(cmd.name, tag, TRUE) \in InPackets
      BY <1>1, ResponseType DEF HasResponse, Responses
    <3> QED BY <3>1, SingleOf
  <2>2. <<>> \in Seq(InPackets)
    OBVIOUS
  <2>3. x \in Seq(InPackets)
    BY <2>1, <2>2, Zenon
  <2>4. s \in InPackets
    BY <1>1 DEF Packet, InPackets
  <2> QED BY <2>3, <2>4
<1>7. /\ Len(x) = (IF HasResponse THEN 1 ELSE 0)
      /\ HasResponse => x[1] = Packet(cmd.name, tag, TRUE)
  OBVIOUS
<1> HIDE DEF x, s
<1>8. /\ Len(in') = Len(x) + 1 /\ in'[Len(x) + 1] = s
      /\ \A i \in 1 .. Len(x) : in'[i] = x[i]
  BY <1>5, <1>6, Answered
<1>9. Granted' /\ ~Refused'
  <2>1. CASE HasResponse
    <3>1. Len(in') = 2 /\ in'[2] = s /\ in'[1] = x[1]
      <4>1. Len(x) = 1 /\ 1 \in 1 .. Len(x)
        BY <1>7, <2>1
      <4> QED BY <1>8, <4>1
    <3>2. Granted'
      BY <1>2, <1>3, <1>7, <2>1, <3>1 DEF Granted, s
    <3>3. ~Refused'
      BY <3>1 DEF Refused
    <3> QED BY <3>2, <3>3
  <2>2. CASE ~HasResponse
    <3>1. Len(in') = 1 /\ in'[1] = s
      <4>1. Len(x) = 0
        BY <1>7, <2>2
      <4> QED BY <1>8, <4>1
    <3>2. Granted'
      BY <1>2, <1>3, <2>2, <3>1 DEF Granted, s
    <3>3. ~Refused'
      BY <1>2, <3>1 DEF Refused, Packet, s
    <3> QED BY <3>2, <3>3
  <2> QED BY <2>1, <2>2
<1>10. Exchange'
  BY <1>2, <1>4, <1>9 DEF Exchange
<1>11. ~Granted
  BY DEF Granted, Asked
<1>12. cmd.lun = lun /\ attention[lun] \in Nat
  BY <1>1 DEF UnitInv
<1>13. UnitInv'
  <2>1. CASE cmd.name = "RequestSense"
    <3>1. /\ ~found
          /\ Units[lun] = "disk" => attention[lun] > 0 /\ attention[lun] + try <= MaxAttentions
      <4>1. ~found
        BY <1>1, <2>1 DEF UnitInv
      <4>2. Units[lun] = "disk" => attention[lun] > 0 /\ attention[lun] + try <= MaxAttentions
        <5>1. Units[lun] = "disk" /\ cmd.name = "RequestSense" /\ ~Granted =>
                attention[lun] > 0 /\ attention[lun] + try <= MaxAttentions
          BY <1>1 DEF UnitInv
        <5> QED BY <1>11, <2>1, <5>1
      <4> QED BY <4>1, <4>2
    <3>2. attention[lun] > 0 => attention'[lun] = attention[lun] - 1
      BY <1>1, <1>4, <1>12, <2>1
    <3>3. Units[lun] = "disk" => attention'[lun] + try + 1 <= MaxAttentions
      BY <1>1, <1>12, <3>1, <3>2
    <3> QED BY <1>1, <1>2, <1>9, <2>1, <3>1, <3>3 DEF UnitInv
  <2>2. CASE cmd.name # "RequestSense"
    <3>1. attention' = attention
      BY <1>4, <2>2
    <3>2. cmd.name = "TestUnitReady" => attention[lun] = 0
      BY <1>4, <1>12 DEF Able
    <3> QED BY <1>1, <1>2, <1>9, <2>2, <3>1, <3>2 DEF UnitInv
  <2> QED BY <2>1, <2>2
<1>14. reply'.call = "Init" /\ ~reply'.ok => \A l \in Luns : Units[l] # "disk"
  BY <1>2 DEF EasySearch, SearchInv
<1> QED BY <1>1, <1>2, <1>4, <1>10, <1>13, <1>14 DEF SearchInv

\* The unit is not ready.
LEMMA RefusesFinds ==
  ASSUME Consistent, EasySearch, Easy, call.name = "Init", UNCHANGED driverVars,
         Asked, out' = <<>>, rx = NoWrite, phase # "command", Refuses(cmd, tag), faults' = 0
  PROVE  SearchInv'
<1>1. /\ cmd.name \in InitNames /\ cmd \in Commands /\ tag \in Nat
      /\ lun \in Luns /\ lun \in Nat /\ try \in Nat
      /\ attention \in [Luns -> 0 .. MaxAttentions] /\ MaxAttentions \in Nat
      /\ ~halted /\ UnitInv /\ phase \in {"command", "data", "status"}
  BY Searching
<1>2. UNCHANGED <<phase, call, cmd, tag, lun, try, found, ready, error, reply>>
  BY DEF driverVars, initVars, replyVars
<1>3. in = <<>>
  BY DEF Asked
<1>4. ~Able(cmd) /\ UNCHANGED <<rx, attention, halted>>
  BY FaultCounts DEF Refuses, EasySearch
<1>5. cmd.name \in {"TestUnitReady", "ReadCapacity"} /\ cmd.name # "Read"
  BY <1>1, <1>4 DEF Able, InitNames
<1> DEFINE x == Content(cmd, 0, tag)
           s == Packet("csw", tag, FALSE)
<1>6. in' = <<>> \o x \o <<s>>
  <2>1. PICK n \in 0 .. (IF cmd.name = "Read" THEN cmd.count - 1 ELSE 0) :
          in' = in \o Content(cmd, n, tag) \o Status(tag, FALSE)
    BY DEF Refuses
  <2>2. n = 0
    BY <1>5, <2>1
  <2> QED BY <1>3, <2>1, <2>2 DEF Status
<1>7. x \in Seq(InPackets) /\ Len(x) = 0 /\ s \in InPackets
  <2>1. QTypes
    BY DEF Consistent
  <2>2. 0 \in Nat /\ (0 # 0 => cmd.name = "Read" /\ 0 <= cmd.count)
    OBVIOUS
  <2>3. x \in Seq(InPackets) /\ Len(x) = 0
    BY <1>1, <2>1, <2>2, ContentType
  <2>4. s \in InPackets
    BY <1>1 DEF Packet, InPackets
  <2> QED BY <2>3, <2>4
<1> HIDE DEF x, s
<1>8. Len(in') = 1 /\ in'[1] = s
  <2>1. Len(in') = Len(x) + 1 /\ in'[Len(x) + 1] = s
    BY <1>6, <1>7, Answered
  <2> QED BY <1>7, <2>1
<1>9. Refused'
  BY <1>2, <1>5, <1>8 DEF Refused, s
<1>10. ~Granted'
  BY <1>2, <1>8 DEF Granted, Packet, s
<1>11. Exchange'
  BY <1>2, <1>4, <1>9 DEF Exchange
<1>12. cmd.lun = lun /\ attention[lun] \in Nat /\ (Units[lun] = "disk" => attention[lun] > 0)
  BY <1>1, <1>4 DEF UnitInv, Able
<1>13. ~found
  BY <1>1, <1>12 DEF UnitInv
<1>14. UnitInv'
  BY <1>1, <1>2, <1>4, <1>5, <1>9, <1>10, <1>12, <1>13 DEF UnitInv
<1>15. reply'.call = "Init" /\ ~reply'.ok => \A l \in Luns : Units[l] # "disk"
  BY <1>2 DEF EasySearch, SearchInv
<1> QED BY <1>1, <1>2, <1>4, <1>11, <1>14, <1>15 DEF SearchInv

LEMMA DriveFinds ==
  ASSUME Consistent, EasySearch, Easy, Drive, faults' = 0
  PROVE  SearchInv'
<1>1. CASE call.name = "Init"
  <2>1. /\ Asked /\ out' = <<>> /\ rx = NoWrite /\ UNCHANGED driverVars
        /\ Serves(cmd, tag) \/ Refuses(cmd, tag)
    BY <1>1, Takeable
  <2>2. phase # "command"
    <3>1. phase = "command" => out = <<>>
      BY <1>1 DEF EasySearch, SearchInv, Exchange, Clear
    <3> QED BY <3>1 DEF Drive
  <2> QED BY <1>1, <2>1, <2>2, ServesFinds, RefusesFinds
<1>2. CASE call.name # "Init"
  <2>1. UNCHANGED <<phase, call, ready, error, reply>> /\ out # <<>>
    BY DEF Drive, driverVars, replyVars
  <2>2. ~Stalls
    BY FaultCounts DEF Stalls, EasySearch
  <2>3. halted' = halted
    BY <2>2 DEF Drive, Serves, Refuses, CutsWrite, TakesSector
  <2>4. SearchInv
    BY DEF EasySearch
  <2> QED BY <1>2, <2>1, <2>3, <2>4 DEF SearchInv, Clear
<1> QED BY <1>1, <1>2
-----------------------------------------------------------------------------
(* The other calls, and the theorem. *)

LEMMA OtherTransfers ==
  ASSUME Consistent, EasySearch, Easy, call.name # "Init", Transfer, faults' = 0
  PROVE  SearchInv'
<1>1. DriverInv /\ SearchInv /\ halted' = halted
  BY DEF Consistent, EasySearch, Transfer, SendCommand, ReadChunk, WriteChunk, ReadResponse,
         ReadStatus
<1>2. phase # "idle"
  BY DEF Transfer, SendCommand, ReadChunk, WriteChunk, ReadResponse, ReadStatus
<1>3. cmd.name \notin InitNames /\ call.name \notin {"none", "Init"} /\ ready /\ ~halted
  BY <1>1, <1>2 DEF DriverInv, CallInv, SearchInv, InitNames
<1>4. ASSUME NEW next, NEW b, GoOn(next, b), next # "idle" PROVE SearchInv'
  BY <1>1, <1>3, <1>4, GoesOn
<1>5. ASSUME NEW b \in BOOLEAN, NEW d, Return(b, d) PROVE SearchInv'
  <2>1. MovedSectors(b, d)
    BY <1>3, <1>5 DEF Return, TestedUnit, Inquired, Sensed, GotCapacity, TestedLast, InitNames
  <2>2. phase' = "idle" /\ call' = NoCall /\ ready' = TRUE /\ reply'.call = call.name
    BY <1>3, <2>1 DEF MovedSectors, Finish
  <2> QED BY <1>1, <1>3, <2>2 DEF SearchInv, NoCall, Call
<1>6. SearchInv' \/ ~GiveUp
  BY <1>5 DEF GiveUp
<1>7. CASE SendCommand
  BY <1>4, <1>6, <1>7 DEF SendCommand
<1>8. CASE ReadChunk
  BY <1>4, <1>6, <1>8 DEF ReadChunk, AfterChunk
<1>9. CASE WriteChunk
  BY <1>4, <1>6, <1>9 DEF WriteChunk, AfterChunk
<1>10. CASE ReadResponse
  BY <1>4, <1>6, <1>10 DEF ReadResponse
<1>11. CASE ReadStatus
  <2>1. CASE Fits("csw", 1) /\ Drop(1) /\ Return(StatusOK(Head(in)), buffer)
    <3>1. in \in Seq(InPackets) /\ Len(in) >= 1
      BY <2>1 DEF Fits, Consistent, QTypes, QueueTypes
    <3>2. Head(in) \in InPackets /\ Head(in).kind = "csw"
      BY <2>1, <3>1 DEF Fits
    <3>3. StatusOK(Head(in)) \in BOOLEAN
      BY <3>2 DEF StatusOK, InPackets, Responses
    <3> QED BY <1>5, <2>1, <3>3
  <2> QED BY <1>6, <1>11, <2>1 DEF ReadStatus
<1> QED BY <1>7, <1>8, <1>9, <1>10, <1>11 DEF Transfer

LEMMA TransferFinds ==
  ASSUME Consistent, EasySearch, Easy, Transfer, faults' = 0
  PROVE  SearchInv'
<1>1. CASE call.name = "Init"
  <2>1. cmd.name \in InitNames
    BY <1>1, Searching
  <2>2. ~ReadChunk /\ ~WriteChunk
    BY <2>1 DEF ReadChunk, WriteChunk, InitNames
  <2> QED BY <1>1, <2>2, SendFinds, ResponseFinds, StatusFinds DEF Transfer
<1> QED BY <1>1, OtherTransfers

\* A call begins where nothing is left behind.
LEMMA CallsFind ==
  ASSUME Consistent, EasySearch, Easy, Calls, faults' = 0
  PROVE  SearchInv'
<1>1. QTypes /\ DriverInv /\ SearchInv /\ phase = "idle"
  BY DEF Consistent, EasySearch, Calls, StartInit, InitFails, StartRead, StartWrite, StartSync,
         Start, ErrorForgotten
<1>2. ~InitFails /\ ~ErrorForgotten
  BY FaultCounts DEF InitFails, ErrorForgotten, EasySearch
<1>3. CASE StartInit
  <2>1. /\ lun' = 0 /\ try' = 0 /\ found' = FALSE /\ phase' = "command"
        /\ cmd' = Command("TestUnitReady", 0, 0, 0) /\ call' = Call("Init", 0, 0, <<>>)
        /\ UNCHANGED <<ready, error, reply, in, out, rx, attention, halted>>
    BY <1>3 DEF StartInit, Issue, replyVars, driveVars
  <2>2. Clear
    BY <1>1, <1>3 DEF SearchInv, StartInit
  <2>3. in' = <<>> /\ Exchange'
    BY <2>1, <2>2 DEF Exchange, Clear
  <2>4. ~Granted' /\ ~Refused'
    BY <2>3, Unanswered
  <2>5. \A l \in Luns : l \in Nat /\ 0 \in Luns
    BY LunsAreNat
  <2>6. attention'[lun'] + try' <= MaxAttentions
    <3>1. attention'[0] \in Nat /\ attention'[0] <= MaxAttentions
      BY <1>1, <2>1, <2>5, DriveAssumption DEF QTypes, UnitTypes
    <3> QED BY <2>1, <3>1
  <2>7. cmd'.name = "TestUnitReady" /\ cmd'.lun = 0
    BY <2>1 DEF Command
  <2>8. \A l \in Luns : ~(l < lun')
    BY <2>1, <2>5
  <2>9. UnitInv'
    BY <2>1, <2>4, <2>6, <2>7, <2>8 DEF UnitInv
  <2>10. call'.name = "Init"
    BY <2>1 DEF Call
  <2>11. reply'.call = "Init" /\ ~reply'.ok => \A l \in Luns : Units[l] # "disk"
    BY <1>1, <2>1 DEF SearchInv
  <2>12. ~halted' /\ phase' = "command"
    BY <1>1, <2>1 DEF SearchInv
  <2> QED BY <2>3, <2>9, <2>10, <2>11, <2>12 DEF SearchInv
<1>4. ASSUME NEW c, NEW name, Start(c, name), c.name \in {"Read", "Write", "Sync"} PROVE SearchInv'
  <2>1. /\ ready /\ phase' = "command" /\ call' = c
        /\ UNCHANGED <<ready, error, reply, halted>>
    BY <1>4 DEF Start, Issue, replyVars, driveVars
  <2> QED BY <1>1, <1>4, <2>1 DEF SearchInv
<1>5. CASE StartRead
  BY <1>4, <1>5 DEF StartRead, Call
<1>6. CASE StartWrite
  BY <1>4, <1>6 DEF StartWrite, Call
<1>7. CASE StartSync
  BY <1>4, <1>7 DEF StartSync, Call
<1> QED BY <1>2, <1>3, <1>5, <1>6, <1>7 DEF Calls

LEMMA FaultsStay == EasySearch /\ [Next]_vars => faults' \in Nat /\ (faults' = 0 => faults = 0)
<1> SUFFICES ASSUME EasySearch, [Next]_vars PROVE faults' \in Nat /\ (faults' = 0 => faults = 0)
  OBVIOUS
<1>1. faults' = faults \/ \E f : Fault(f)
  <2>1. Calls => faults' = faults \/ \E f : Fault(f)
    BY DEF Calls, StartInit, InitFails, StartRead, StartWrite, StartSync, Start, ErrorForgotten
  <2>2. Transfer => faults' = faults \/ \E f : Fault(f)
    BY DEF Transfer, SendCommand, ReadChunk, WriteChunk, ReadResponse, ReadStatus, Sent, NotSent,
           Fits, NotReceived
  <2>3. Drive => faults' = faults \/ \E f : Fault(f)
    <3>1. \A c, t : Serves(c, t) => faults' = faults
      BY DEF Serves
    <3>2. \A c, t : Refuses(c, t) => faults' = faults \/ \E f : Fault(f)
      BY DEF Refuses
    <3>3. \A text : TakesSector(text) => faults' = faults \/ \E f : Fault(f)
      BY DEF TakesSector
    <3> QED BY <3>1, <3>2, <3>3 DEF Drive, CutsWrite, Stalls
  <2> QED BY <2>1, <2>2, <2>3 DEF Next, vars
<1> QED BY <1>1, FaultCounts DEF EasySearch

LEMMA NextFinds == Consistent /\ EasySearch /\ [Next]_vars => EasySearch'
<1> SUFFICES ASSUME Consistent, EasySearch, [Next]_vars PROVE EasySearch'
  OBVIOUS
<1>1. faults' \in Nat /\ (faults' = 0 => faults = 0)
  BY FaultsStay
<1>2. ASSUME Easy' PROVE SearchInv'
  <2>1. Easy /\ faults' = 0
    BY <1>1, <1>2 DEF Easy
  <2>2. CASE UNCHANGED vars
    <3>1. UNCHANGED <<phase, call, cmd, tag, lun, try, found, ready, error, reply,
                      in, out, rx, attention, halted>>
      BY <2>2 DEF vars, driverVars, driveVars, initVars, replyVars
    <3>2. Granted' = Granted /\ Refused' = Refused /\ Asked' = Asked
      BY <3>1 DEF Granted, Refused, Asked, HasResponse
    <3>3. SearchInv
      BY <2>1 DEF EasySearch
    <3>4. UnitInv' = UnitInv /\ Exchange' = Exchange
      BY <3>1, <3>2 DEF UnitInv, Exchange, Clear
    <3> QED BY <3>1, <3>3, <3>4 DEF SearchInv, Clear
  <2> QED BY <2>1, <2>2, CallsFind, TransferFinds, DriveFinds DEF Next
<1> QED BY <1>1, <1>2 DEF EasySearch

\* FindLun reaches the disk of a drive of several units: RequestSense "can clear a
\* UNIT ATTENTION condition" (USBStorage.cpp:198), so attempts of which there are
\* more than attentions are enough, as long as no message fails.
THEOREM SearchCorrect == Spec => []InitFindsTheDisk
<1>1. Init => Consistent /\ EasySearch
  <2>1. Init => EasySearch
    BY DEF Init, EasySearch, SearchInv, Clear, NoCall, Call
  <2> QED BY <2>1, InitStep
<1>2. Consistent /\ EasySearch /\ [Next]_vars => (Consistent /\ EasySearch)'
  BY NextStep, NextFinds
<1>3. EasySearch => InitFindsTheDisk
  BY DEF EasySearch, Easy, SearchInv, InitFindsTheDisk
<1> QED BY <1>1, <1>2, <1>3, PTL DEF Spec

=============================================================================
