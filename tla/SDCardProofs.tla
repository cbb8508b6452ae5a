---------------------------- MODULE SDCardProofs ----------------------------
(***************************************************************************)
(* Proofs about the SD card driver, for any set of cards of any kind and   *)
(* any number of them taken out and put in, at any request.                *)
(*                                                                         *)
(* First, that it serves a volume only from the card it started up for it, *)
(* counting sectors or bytes as that card does.  This holds because a card *)
(* that is put in answers to nothing until it is started up; the invariant *)
(* says from where on in a start, and in which calls, what the driver      *)
(* remembers is about the card in the slot.                                *)
(*                                                                         *)
(* Then that the driver implements BlockStore: what replies say of the     *)
(* sectors is what the cards hold.  Last, that what the invariants say of  *)
(* a start and a transfer leaves a call no reason to fail but a fault.     *)
(***************************************************************************)
EXTENDS SDCard, SequenceTheorems, TLAPS

Addressed == mode \in {"standby", "selected"}

\* A card that is not there has no mode.
Placed == mode # "idle" => slot # None

\* Phases only Startup goes through.
Starting == {"reset", "status", "close", "open", "host", "condition", "address",
             "setup", "length", "abandon", "reopen"}

StartsOnce ==
  /\ phase \in Starting => call.name = "Init"
  /\ call.name = "Init" => ~ready

\* From "setup" on in a start, and as long as the volume is up, __sd0_sdhc is the
\* card's.
Counting ==
  /\ phase = "address" /\ mode = "ready" => sdhc = (slot \in HighCapacity)
  /\ (ready \/ phase \in {"setup", "select", "length", "data", "deselect"}) /\ Addressed =>
       sdhc = (slot \in HighCapacity)

\* From "length" on in a start, and in every read and write, the card that answers
\* is the one that was started.
Known ==
  (\/ ready \/ phase \in {"length", "data", "deselect"}
   \/ phase = "select" /\ call.name # "Init") /\ Addressed =>
    slot = started

Inv == Placed /\ StartsOnce /\ Counting /\ Known

USE DEF Placed, StartsOnce, Counting, Known, Addressed, Starting

LEMMA InitInv == Init => Inv
BY DEF Init, Inv, NoCall, Call

\* The slot changes only between no card and an idle one.
LEMMA WorldInv == Inv /\ World => Inv'
<1> SUFFICES ASSUME Inv, World PROVE Inv'
  OBVIOUS
<1>1. CASE Eject
  BY <1>1 DEF Eject, Inv, callVars, sdVars, mgrVars, replyVars
<1>2. CASE Insert
  BY <1>2 DEF Insert, Inv, callVars, sdVars, mgrVars, replyVars
<1>3. CASE Poll
  BY <1>3 DEF Poll, Inv, callVars, sdVars, slotVars, replyVars
<1>4. CASE ErrorForgotten
  BY <1>4 DEF ErrorForgotten, Inv, callVars, sdVars, slotVars, replyVars
<1> QED BY <1>1, <1>2, <1>3, <1>4 DEF World

LEMMA CallsInv == Inv /\ Calls => Inv'
<1> SUFFICES ASSUME Inv, Calls PROVE Inv'
  OBVIOUS
<1>1. CASE StartInit
  BY <1>1 DEF StartInit, Begin, Call, Inv, sdVars, mgrVars, slotVars, replyVars
<1>2. CASE StartRead
  BY <1>2 DEF StartRead, Begin, Call, Inv, sdVars, mgrVars, slotVars, replyVars
<1>3. CASE StartWrite
  BY <1>3 DEF StartWrite, Begin, Call, Inv, sdVars, mgrVars, slotVars, replyVars
<1> QED BY <1>1, <1>2, <1>3 DEF Calls

\* How a call ends, of the variables the invariant is about.
LEMMA FinishFacts ==
  ASSUME NEW s, Finish(s)
  PROVE  /\ phase' = "idle" /\ call'.name = "none"
         /\ ready' = (ready \/ (s /\ call.name = "Init"))
BY DEF Finish, NoCall, Call

LEMMA GotoFacts ==
  ASSUME NEW p, Goto(p)
  PROVE  phase' = p /\ call' = call /\ ready' = ready
BY DEF Goto, mgrVars

LEMMA StartupInv == Inv /\ Startup => Inv'
<1> SUFFICES ASSUME Inv, Startup PROVE Inv'
  OBVIOUS
<1>1. CASE ResetCard
  <2>1. ~ready /\ phase' = "status" /\ UNCHANGED <<call, ready, slot>>
    BY <1>1, GotoFacts DEF ResetCard, Inv
  <2>2. mode' # "idle" => slot # None
    BY <1>1, CardAssumption DEF ResetCard
  <2>3. phase' = "status" /\ ~ready' /\ call'.name = "Init"
    BY <2>1, <1>1 DEF ResetCard, Inv
  <2> QED BY <2>1, <2>2, <2>3 DEF Inv
<1>2. CASE GetStatus
  <2>1. CASE Finish(FALSE) /\ UNCHANGED sdhc
    BY <1>2, <2>1, FinishFacts DEF GetStatus, Inv, slotVars
  <2>2. CASE Goto("close") /\ UNCHANGED sdhc
    BY <1>2, <2>2, GotoFacts DEF GetStatus, Inv, slotVars
  <2>3. CASE Goto("setup") /\ sdhc' = CountsSectors
    BY <1>2, <2>3, GotoFacts DEF GetStatus, Inv, slotVars, CountsSectors
  <2> QED BY <1>2, <2>1, <2>2, <2>3 DEF GetStatus
<1>3. CASE Close
  BY <1>3, GotoFacts DEF Close, Inv
<1>4. CASE Open
  BY <1>4, GotoFacts DEF Open, Inv, slotVars
<1>5. CASE Reopen
  BY <1>5, FinishFacts DEF Reopen, Inv, slotVars
<1>6. CASE HostUp
  <2>1. ~ready /\ phase' \in {"abandon", "condition"} /\ UNCHANGED <<call, ready, slot, mode>>
    BY <1>6, GotoFacts DEF HostUp, Inv, slotVars
  <2> QED BY <2>1, <1>6 DEF Inv, HostUp
<1>7. CASE OpCond
  <2>1. CASE Goto("abandon") /\ UNCHANGED <<sdhc, mode>>
    BY <1>7, <2>1, GotoFacts DEF OpCond, Inv
  <2>2. CASE Goto("condition") /\ UNCHANGED <<sdhc, mode>>
    BY <1>7, <2>2, GotoFacts DEF OpCond, Inv
  <2>3. CASE In("idle") /\ sdhc' = CountsSectors /\ mode' = "ready" /\ Goto("address")
    BY <1>7, <2>3, GotoFacts DEF OpCond, Inv, In, CountsSectors
  <2> QED BY <1>7, <2>1, <2>2, <2>3 DEF OpCond
<1>8. CASE GetAddress
  <2>1. CASE Goto("abandon") /\ UNCHANGED <<rca, mode>>
    BY <1>8, <2>1, GotoFacts DEF GetAddress, Inv
  <2>2. CASE In("ready") /\ mode' = "standby" /\ Goto("setup")
    BY <1>8, <2>2, GotoFacts DEF GetAddress, Inv, In
  <2> QED BY <1>8, <2>1, <2>2 DEF GetAddress
<1>9. CASE SetUp
  <2>1. CASE Finish(FALSE)
    BY <1>9, <2>1, FinishFacts DEF SetUp, Inv, sdVars, slotVars
  <2>2. CASE Goto("select")
    BY <1>9, <2>2, GotoFacts DEF SetUp, Inv, sdVars, slotVars
  <2> QED BY <1>9, <2>1, <2>2 DEF SetUp
<1>10. CASE SetLength
  BY <1>10 DEF SetLength, Result, Inv, sdVars, mgrVars, slotVars
<1> QED BY <1>1, <1>2, <1>3, <1>4, <1>5, <1>6, <1>7, <1>8, <1>9, <1>10 DEF Startup

LEMMA TransferInv == Inv /\ Transfer => Inv'
<1> SUFFICES ASSUME Inv, Transfer PROVE Inv'
  OBVIOUS
<1>1. CASE Startup
  BY <1>1, StartupInv
<1>2. CASE Select
  <2>1. CASE Finish(FALSE) /\ UNCHANGED <<mode, started>>
    BY <1>2, <2>1, FinishFacts DEF Select, Inv, sdVars
  <2>2. CASE /\ Answers /\ mode' = "selected"
             /\ started' = IF call.name = "Init" THEN slot ELSE started
             /\ Goto(IF call.name = "Init" THEN "length" ELSE "data")
    BY <1>2, <2>2, GotoFacts DEF Select, Inv, Answers, In, sdVars
  <2> QED BY <1>2, <2>1, <2>2 DEF Select
<1>3. CASE ReadChunk
  <2>1. UNCHANGED <<call, ready, sdhc, slot, mode, started>>
    BY <1>3 DEF ReadChunk, AfterChunk, ChunkFails, Result, mgrVars, sdVars, slotVars
  <2>2. phase = "data" /\ phase' \in {"data", "deselect"}
    BY <1>3 DEF ReadChunk, AfterChunk, ChunkFails, Result
  <2> QED BY <2>1, <2>2 DEF Inv
<1>4. CASE WriteChunk
  <2>1. UNCHANGED <<call, ready, sdhc, slot, mode, started>>
    BY <1>4 DEF WriteChunk, AfterChunk, ChunkFails, Result, mgrVars, sdVars, slotVars
  <2>2. phase = "data" /\ phase' \in {"data", "deselect"}
    BY <1>4 DEF WriteChunk, AfterChunk, ChunkFails, Result
  <2> QED BY <2>1, <2>2 DEF Inv
<1>5. CASE Deselect
  <2>1. phase = "deselect" /\ Finish(ok) /\ UNCHANGED <<sdhc, slot, started>>
    BY <1>5 DEF Deselect, sdVars
  <2>2. mode' = mode \/ (mode = "selected" /\ mode' = "standby")
    BY <1>5 DEF Deselect
  <2> QED BY <2>1, <2>2, FinishFacts DEF Inv
<1> QED BY <1>1, <1>2, <1>3, <1>4, <1>5 DEF Transfer

LEMMA NextInv == Inv /\ [Next]_vars => Inv'
<1> SUFFICES ASSUME Inv, [Next]_vars PROVE Inv'
  OBVIOUS
<1>1. CASE UNCHANGED vars
  BY <1>1 DEF vars, callVars, sdVars, mgrVars, slotVars, Inv
<1> QED BY <1>1, WorldInv, CallsInv, TransferInv DEF Next

LEMMA Invariant == Spec => []Inv
BY InitInv, NextInv, PTL DEF Spec

\* A read or write that is about to succeed was served by the card that was started
\* up (SDCard.cpp:595-694), whatever cards came and went.
THEOREM ServedCorrect == Spec => []ServedByStarted
<1>1. Inv => ServedByStarted
  BY DEF Inv, ServedByStarted
<1> QED BY <1>1, Invariant, PTL

\* A write changes only the card that was started up: a card that was put in its
\* place keeps what it holds.
WritesStayOnCard ==
  [][\A c \in Cards : disk'[c] # disk[c] => c = started]_vars

THEOREM WritesCorrect == Spec => WritesStayOnCard
<1> DEFINE Kept == \A c \in Cards : disk'[c] # disk[c] => c = started
<1>1. ASSUME Inv, [Next]_vars PROVE [Kept]_vars
  <2> SUFFICES ASSUME Next, NEW c \in Cards, disk'[c] # disk[c] PROVE c = started
    BY <1>1
  <2>1. WriteChunk
    BY DEF Next, World, Calls, Startup, Transfer, Eject, Insert, Poll, ErrorForgotten, StartInit,
       StartRead, StartWrite, Begin, ResetCard, GetStatus, Close, Open, Reopen, HostUp, OpCond,
       GetAddress, SetUp, SetLength, Select, ReadChunk, Deselect
  <2>2. \E t, n : Served /\ Stores(t, n)
    BY <2>1 DEF WriteChunk
  <2>3. phase = "data" /\ Addressed /\ c = slot
    BY <2>1, <2>2 DEF WriteChunk, Served, In, Stores
  <2> QED BY <1>1, <2>3 DEF Inv
<1> QED BY <1>1, Invariant, PTL DEF Spec, WritesStayOnCard

-----------------------------------------------------------------------------
(* The calls: what they ask for, and how far they are. *)

Moving == call.name \in {"Read", "Write"}

\* The call in progress, and how far it is.
CallInv ==
  /\ phase \in Phases
  /\ call.name \in {"none", "Init", "Read", "Write"}
  /\ phase = "idle" => call.name = "none"
  /\ phase # "idle" => call.name # "none"
  /\ call.first \in Nat /\ call.count \in Nat
  /\ Moving => call.count > 0 /\ call.first + call.count <= SectorCount
  /\ call.name = "Write" => call.data \in Seq(Data) /\ Len(call.data) = call.count
  /\ Len(buffer) <= call.count
  /\ phase = "data" => Moving /\ Len(buffer) < call.count
  /\ phase \notin {"data", "deselect"} => buffer = <<>>
  /\ phase = "data" /\ call.aligned => Len(buffer) = 0
  /\ phase = "deselect" /\ ok /\ Moving => Len(buffer) = call.count

\* A volume in use was started up from a card.
StartedInv ==
  /\ ready \/ Moving \/ phase = "length" \/ (phase = "deselect" /\ call.name = "Init") =>
       started \in Cards
  /\ started \in Cards \cup {None} /\ slot \in Cards \cup {None}

DataTypes ==
  /\ buffer \in Seq(Data)
  /\ known \in [AllSectors -> SUBSET Data]
  /\ disk \in [Cards -> [Sectors -> Data]]

\* A sector holds what the replies allow, or what the write in progress has put there.
HoldsKnown ==
  \A c \in Cards, s \in Sectors :
    \/ disk[c][s] \in known[Base(c) + s]
    \/ /\ call.name = "Write" /\ c = started
       /\ s \in call.first .. call.first + call.count - 1
       /\ disk[c][s] = call.data[s - call.first + 1]

\* What was moved is what the card that was started up holds.
MovedIsHeld ==
  Moving =>
    \A i \in 1 .. Len(buffer) :
      /\ buffer[i] = disk[started][call.first + i - 1]
      /\ call.name = "Write" => buffer[i] = call.data[i]

CInv == Inv /\ CallInv /\ StartedInv
StoreInv == CInv /\ DataTypes /\ HoldsKnown /\ MovedIsHeld

-----------------------------------------------------------------------------
(* The numbers of sectors. *)

LEMMA Sizes ==
  /\ SectorCount \in Nat \ {0} /\ SectorBytes \in Nat \ {0}
  /\ ChunkSectors \in Nat \ {0} /\ Cards \subseteq Nat /\ None \notin Cards
  /\ HighCapacity \subseteq Cards
BY CardAssumption

LEMMA BaseType ==
  ASSUME NEW c \in Cards, NEW s \in Sectors
  PROVE  Base(c) \in Nat /\ Base(c) + s \in AllSectors
<1>1. c \in Nat /\ SectorCount \in Nat
  BY Sizes
<1>2. Base(c) \in Nat
  BY <1>1 DEF Base
<1>3. Base(c) + s \in Base(c) .. Base(c) + SectorCount - 1
  BY <1>1, <1>2 DEF Sectors
<1> QED BY <1>2, <1>3 DEF AllSectors

LEMMA Apart ==
  ASSUME NEW a \in Nat, NEW b \in Nat, NEW n \in Nat, a < b
  PROVE  a * n + n <= b * n
<1>1. (a + 1) * n <= b * n
  <2>1. b - (a + 1) \in Nat
    OBVIOUS
  <2>2. (b - (a + 1)) * n \in Nat
    BY <2>1
  <2>3. b * n = (a + 1) * n + (b - (a + 1)) * n
    OBVIOUS
  <2> QED BY <2>2, <2>3
<1> QED BY <1>1

\* Sectors of different cards have different numbers.
LEMMA Distinct ==
  ASSUME NEW c \in Cards, NEW d \in Cards, NEW s \in Sectors, NEW t \in Sectors,
         Base(c) + s = Base(d) + t
  PROVE  c = d /\ s = t
<1>1. c \in Nat /\ d \in Nat /\ SectorCount \in Nat
  BY Sizes
<1>2. s \in 0 .. SectorCount - 1 /\ t \in 0 .. SectorCount - 1
  BY DEF Sectors
<1> DEFINE x == c * SectorCount  y == d * SectorCount
<1>3. x \in Nat /\ y \in Nat /\ x + s = y + t
  BY <1>1 DEF Base
<1>4. c < d => x + SectorCount <= y
  BY <1>1, Apart
<1>5. d < c => y + SectorCount <= x
  BY <1>1, Apart
<1>6. c = d => x = y
  OBVIOUS
<1> HIDE DEF x, y
<1> QED BY <1>1, <1>2, <1>3, <1>4, <1>5, <1>6

LEMMA Quotient ==
  ASSUME NEW d \in Nat \ {0}, NEW n \in Nat
  PROVE  /\ n \div d \in Nat /\ n % d \in 0 .. d - 1
         /\ n = d * (n \div d) + (n % d)
  OBVIOUS

\* The first sectors are numbered as InitialData is.
LEMMA Numbered ==
  ASSUME NEW c \in Cards, NEW s \in Sectors
  PROVE  (Base(c) + s) \div SectorCount = c /\ (Base(c) + s) % SectorCount = s
<1>1. c \in Nat /\ SectorCount \in Nat \ {0} /\ s \in 0 .. SectorCount - 1
  BY Sizes DEF Sectors
<1> DEFINE n == Base(c) + s  q == n \div SectorCount  r == n % SectorCount
<1>2. n \in Nat
  BY BaseType, <1>1
<1>3. q \in Nat /\ r \in 0 .. SectorCount - 1 /\ n = SectorCount * q + r
  <2> HIDE DEF n
  <2> QED BY <1>1, <1>2, Quotient
<1>4. n = c * SectorCount + s
  BY DEF Base
<1> DEFINE x == c * SectorCount  y == q * SectorCount
<1>5. x \in Nat /\ y \in Nat /\ x + s = y + r
  <2> HIDE DEF q, r, n
  <2>1. SectorCount * q = q * SectorCount
    BY <1>1, <1>3
  <2>2. x \in Nat /\ y \in Nat
    BY <1>1, <1>3
  <2>3. n = x + s
    BY <1>4
  <2> HIDE DEF x
  <2> QED BY <2>1, <2>2, <2>3, <1>1, <1>3
<1>6. c < q => x + SectorCount <= y
  BY <1>1, <1>3, Apart
<1>7. q < c => y + SectorCount <= x
  BY <1>1, <1>3, Apart
<1>8. c = q => x = y
  OBVIOUS
<1> HIDE DEF x, y, n, q, r
<1>9. c = q /\ s = r
  BY <1>1, <1>3, <1>5, <1>6, <1>7, <1>8
<1> QED BY <1>9 DEF q, r, n

-----------------------------------------------------------------------------
(* The call. *)

LEMMA InitCInv == Init => CInv
<1> SUFFICES ASSUME Init PROVE CallInv /\ StartedInv
  BY InitInv DEF CInv
<1>1. phase = "idle" /\ ok = FALSE /\ call = NoCall /\ buffer = <<>> /\ ready = FALSE
      /\ started = None /\ slot \in Cards \cup {None}
  BY DEF Init
<1>2. call.name = "none" /\ call.first = 0 /\ call.count = 0
  BY <1>1 DEF NoCall, Call
<1>3. CallInv
  BY <1>1, <1>2 DEF CallInv, Moving, Phases
<1> QED BY <1>1, <1>2, <1>3 DEF StartedInv, Moving

LEMMA WorldCInv == CInv /\ World => CInv'
<1> SUFFICES ASSUME CInv, World PROVE CallInv' /\ StartedInv'
  BY WorldInv DEF CInv
<1>1. /\ UNCHANGED <<phase, call, ok, buffer, started>>
      /\ (ready' => ready) /\ slot' \in Cards \cup {None}
  <2>1. CASE Eject
    BY <2>1 DEF Eject, callVars, mgrVars
  <2>2. CASE Insert
    BY <2>2 DEF Insert, callVars, mgrVars
  <2>3. CASE Poll
    BY <2>3 DEF Poll, Seen, callVars, slotVars, CInv, StartedInv
  <2>4. CASE ErrorForgotten
    BY <2>4 DEF ErrorForgotten, callVars, slotVars, CInv, StartedInv
  <2> QED BY <2>1, <2>2, <2>3, <2>4 DEF World
<1> QED BY <1>1 DEF CInv, CallInv, StartedInv, Moving

LEMMA CallsCInv ==
  CInv /\ Calls => CInv' /\ UNCHANGED <<disk, known, reply, started>> /\ buffer' = <<>>
<1> SUFFICES ASSUME CInv, Calls
             PROVE  /\ CallInv' /\ StartedInv'
                    /\ UNCHANGED <<disk, known, reply, started>> /\ buffer' = <<>>
  BY CallsInv DEF CInv
<1>1. phase = "idle" /\ ok' = FALSE /\ buffer' = <<>>
      /\ UNCHANGED <<ready, disk, known, reply, started, slot>>
  BY DEF Calls, StartInit, StartRead, StartWrite, Begin, mgrVars, slotVars, replyVars
<1>2. CASE StartInit
  <2>1. /\ call'.name = "Init" /\ call'.first = 0 /\ call'.count = 0 /\ call'.aligned = TRUE
        /\ phase' = "reset"
    BY <1>2 DEF StartInit, Begin, Call
  <2> QED BY <1>1, <2>1 DEF CInv, CallInv, StartedInv, Moving, Phases
<1>3. CASE StartRead
  <2> PICK r \in Reads, aligned \in BOOLEAN :
        Begin(Call("Read", r[1], r[2], <<>>, aligned), "select")
    BY <1>3 DEF StartRead
  <2>1. r[1] \in Nat /\ r[2] \in Nat \ {0} /\ r[1] .. r[1] + r[2] - 1 \subseteq Sectors
    BY CardAssumption
  <2>2. r[1] \in Nat /\ r[1] + r[2] <= SectorCount
    <3>1. r[1] + r[2] - 1 \in r[1] .. r[1] + r[2] - 1
      BY <2>1
    <3> QED BY <2>1, <3>1, Sizes DEF Sectors
  <2>3. /\ call'.name = "Read" /\ call'.first = r[1] /\ call'.count = r[2]
        /\ call'.aligned = aligned /\ phase' = "select" /\ ready
    BY <1>3 DEF StartRead, Begin, Call
  <2> QED BY <1>1, <2>1, <2>2, <2>3 DEF CInv, CallInv, StartedInv, Moving, Phases
<1>4. CASE StartWrite
  <2> PICK w \in Writes, aligned \in BOOLEAN :
        Begin(Call("Write", w[1], Len(w[2]), w[2], aligned), "select")
    BY <1>4 DEF StartWrite
  <2>1. /\ w[1] \in Nat /\ w[2] \in Seq(Texts) /\ w[2] # <<>>
        /\ w[1] .. w[1] + Len(w[2]) - 1 \subseteq Sectors
    BY CardAssumption
  <2>2. Len(w[2]) \in Nat \ {0} /\ w[2] \in Seq(Data)
    BY <2>1 DEF Data
  <2>3. w[1] \in Nat /\ w[1] + Len(w[2]) <= SectorCount
    <3>1. w[1] + Len(w[2]) - 1 \in w[1] .. w[1] + Len(w[2]) - 1
      BY <2>1, <2>2
    <3> QED BY <2>1, <2>2, <3>1, Sizes DEF Sectors
  <2>4. /\ call'.name = "Write" /\ call'.first = w[1] /\ call'.count = Len(w[2])
        /\ call'.data = w[2] /\ call'.aligned = aligned /\ phase' = "select" /\ ready
    BY <1>4 DEF StartWrite, Begin, Call
  <2> QED BY <1>1, <2>2, <2>3, <2>4 DEF CInv, CallInv, StartedInv, Moving, Phases
<1> QED BY <1>2, <1>3, <1>4 DEF Calls

\* What Goto and Result leave alone.
LEMMA GotoKeeps ==
  ASSUME NEW p, Goto(p)
  PROVE  phase' = p /\ UNCHANGED <<call, ok, buffer, ready, known, reply>>
BY DEF Goto, mgrVars, replyVars

LEMMA FinishCall ==
  ASSUME NEW s \in BOOLEAN, Finish(s), CInv, s => started \in Cards,
         slot' \in Cards \cup {None}, UNCHANGED started
  PROVE  CallInv' /\ StartedInv'
<1>1. /\ phase' = "idle" /\ call' = NoCall /\ ok' = FALSE /\ buffer' = <<>>
      /\ ready' = (ready \/ (s /\ call.name = "Init"))
  BY DEF Finish
<1>2. call'.name = "none" /\ call'.first = 0 /\ call'.count = 0
  BY <1>1 DEF NoCall, Call
<1>3. CallInv'
  BY <1>1, <1>2 DEF CallInv, Moving, Phases
<1>4. ready' => started \in Cards
  BY <1>1 DEF CInv, StartedInv
<1>5. started' \in Cards \cup {None}
  BY DEF CInv, StartedInv
<1> QED BY <1>1, <1>2, <1>3, <1>4, <1>5 DEF StartedInv, Moving

USE DEF Starting, StartsOnce

\* Startup moves no data: it ends in a call that has failed, or goes on.
Starts ==
  \/ /\ phase' \in Phases \ {"idle", "data", "length"}
     /\ phase' = "deselect" => started \in Cards
     /\ UNCHANGED <<call, buffer, ready, known, reply>>
  \/ Finish(FALSE)

LEMMA GotoStarts ==
  ASSUME NEW p \in Phases \ {"idle", "data", "length", "deselect"}, Goto(p)
  PROVE  Starts
BY GotoKeeps DEF Starts

LEMMA StartupSteps ==
  CInv /\ Startup => Starts /\ UNCHANGED <<disk, started, slot>> /\ phase \in Starting
<1> SUFFICES ASSUME CInv, Startup
             PROVE  Starts /\ UNCHANGED <<disk, started, slot>> /\ phase \in Starting
  OBVIOUS
<1>1. CASE ResetCard
  BY <1>1, GotoStarts DEF ResetCard, Phases
<1>2. CASE GetStatus
  <2>1. Finish(FALSE) => Starts
    BY DEF Starts
  <2> QED BY <2>1, <1>2, GotoStarts DEF GetStatus, Phases, slotVars
<1>3. CASE Close
  BY <1>3, GotoStarts DEF Close, Phases
<1>4. CASE Open
  BY <1>4, GotoStarts DEF Open, Phases, slotVars
<1>5. CASE Reopen
  BY <1>5 DEF Reopen, Starts, slotVars
<1>6. CASE HostUp
  BY <1>6, GotoStarts DEF HostUp, Phases, slotVars
<1>7. CASE OpCond
  BY <1>7, GotoStarts DEF OpCond, Phases
<1>8. CASE GetAddress
  BY <1>8, GotoStarts DEF GetAddress, Phases
<1>9. CASE SetUp
  <2>1. Finish(FALSE) => Starts
    BY DEF Starts
  <2> QED BY <2>1, <1>9, GotoStarts DEF SetUp, Phases, slotVars
<1>10. CASE SetLength
  BY <1>10 DEF SetLength, Result, Starts, Phases, slotVars, mgrVars, replyVars, CInv, StartedInv
<1> QED BY <1>1, <1>2, <1>3, <1>4, <1>5, <1>6, <1>7, <1>8, <1>9, <1>10 DEF Startup

LEMMA StartupCInv == CInv /\ Startup => CInv'
<1> SUFFICES ASSUME CInv, Startup PROVE CallInv' /\ StartedInv'
  BY StartupInv DEF CInv
<1>1. Starts /\ UNCHANGED <<disk, started, slot>> /\ phase \in Starting
  BY StartupSteps
<1>2. CASE Finish(FALSE)
  BY <1>1, <1>2, FinishCall DEF CInv, StartedInv
<1>3. CASE /\ phase' \in Phases \ {"idle", "data", "length"}
           /\ phase' = "deselect" => started \in Cards
           /\ UNCHANGED <<call, buffer, ready, known, reply>>
  <2>1. call.name = "Init" /\ ~ready
    BY <1>1 DEF CInv, Inv
  <2>2. buffer = <<>>
    BY <1>1 DEF CInv, CallInv
  <2>3. CallInv'
    BY <1>1, <1>3, <2>1, <2>2 DEF CInv, CallInv, Moving
  <2>4. ~ready' /\ ~Moving' /\ UNCHANGED <<started, slot>>
    BY <1>1, <1>3, <2>1 DEF Moving
  <2>5. phase' # "length" /\ (phase' = "deselect" => started \in Cards)
    BY <1>3
  <2> QED BY <2>3, <2>4, <2>5 DEF CInv, StartedInv
<1> QED BY <1>1, <1>2, <1>3 DEF Starts

\* What Select and the data commands do to the call.
LEMMA SelectCInv == CInv /\ Select => CInv'
<1> SUFFICES ASSUME CInv, Select PROVE CallInv' /\ StartedInv'
  BY TransferInv DEF CInv, Transfer
<1>1. phase = "select" /\ slot' = slot /\ buffer = <<>>
  BY DEF Select, CInv, CallInv
<1>2. CASE Finish(FALSE) /\ UNCHANGED <<mode, started>>
  BY <1>1, <1>2, FinishCall DEF CInv, StartedInv
<1>3. CASE /\ Answers
           /\ started' = IF call.name = "Init" THEN slot ELSE started
           /\ Goto(IF call.name = "Init" THEN "length" ELSE "data")
  <2>1. /\ phase' = IF call.name = "Init" THEN "length" ELSE "data"
        /\ UNCHANGED <<call, buffer, ready>>
    BY <1>3, GotoKeeps
  <2>2. slot \in Cards
    BY <1>3 DEF Answers, In, CInv, StartedInv
  <2>3. CallInv'
    BY <1>1, <2>1 DEF CInv, CallInv, Moving, Phases
  <2>4. call.name # "Init" => Moving
    BY <1>1 DEF CInv, CallInv, Moving
  <2> QED BY <1>1, <1>3, <2>1, <2>2, <2>3, <2>4 DEF CInv, StartedInv, Moving
<1> QED BY <1>2, <1>3 DEF Select

-----------------------------------------------------------------------------
(* A chunk. *)

LEMMA Places ==
  ASSUME CInv, buffer \in Seq(Data), phase = "data"
  PROVE  /\ Len(buffer) \in Nat /\ call.first \in Nat /\ call.count \in Nat /\ SectorCount \in Nat
         /\ Chunk \in 1 .. call.count - Len(buffer)
         /\ call.first + call.count <= SectorCount
<1>1. /\ Len(buffer) \in Nat /\ call.first \in Nat /\ call.count \in Nat
      /\ Len(buffer) < call.count /\ call.first + call.count <= SectorCount
      /\ call.aligned => Len(buffer) = 0
  BY DEF CInv, CallInv
<1> QED BY <1>1, Sizes DEF Chunk, LeastOf

LEMMA ByteAddress ==
  ASSUME NEW s \in Nat, NEW n \in Nat \ {0}
  PROVE  (s * n) % n = 0 /\ (s * n) \div n = s
<1> DEFINE x == s * n  q == x \div n  r == x % n
<1>1. x \in Nat
  OBVIOUS
<1>2. q \in Nat /\ r \in 0 .. n - 1 /\ x = n * q + r
  <2> HIDE DEF x
  <2> QED BY <1>1, Quotient
<1> DEFINE y == q * n
<1>3. y \in Nat /\ x = y + r
  <2> HIDE DEF x, q, r
  <2>1. n * q = q * n
    BY <1>2
  <2> QED BY <1>2, <2>1
<1>4. s < q => x + n <= y
  BY <1>2, Apart
<1>5. q < s => y + n <= x
  BY <1>2, Apart
<1>6. q = s => x = y
  OBVIOUS
<1> HIDE DEF x, y, q, r
<1>7. q = s /\ r = 0
  BY <1>1, <1>2, <1>3, <1>4, <1>5, <1>6
<1> QED BY <1>7 DEF x, q, r

LEMMA FirstOf ==
  ASSUME NEW s \in Nat, NEW n \in Nat \ {0}, Targets = s .. s + n - 1
  PROVE  FirstTarget = s
<1>1. s \in Targets /\ \A t \in Targets : s <= t
  OBVIOUS
<1>2. ASSUME NEW u \in Targets, \A t \in Targets : u <= t PROVE u = s
  BY <1>1, <1>2
<1> QED BY <1>1, <1>2 DEF FirstTarget

\* The sectors a command for a chunk names, if they are counted as the card does.
LEMMA TargetsCounted ==
  ASSUME CInv, buffer \in Seq(Data), phase = "data", sdhc = (slot \in HighCapacity)
  PROVE  Targets = call.first + Len(buffer) .. call.first + Len(buffer) + Chunk - 1
<1> DEFINE s == call.first + Len(buffer)
<1>1. s \in Nat /\ Chunk \in Nat \ {0}
  BY Places
<1> HIDE DEF s
<1>2. BlockAddress = IF sdhc THEN s ELSE s * SectorBytes
  BY DEF BlockAddress, s
<1>3. (s * SectorBytes) % SectorBytes = 0 /\ (s * SectorBytes) \div SectorBytes = s
  BY <1>1, Sizes, ByteAddress
<1>4. Targets = s .. s + Chunk - 1
  BY <1>2, <1>3 DEF Targets
<1> QED BY <1>4 DEF s

\* The card counts as the driver believes: the sectors a command reaches are the
\* call's next ones.
LEMMA Reached ==
  ASSUME CInv, buffer \in Seq(Data), phase = "data", Served
  PROVE  /\ slot = started /\ slot \in Cards /\ Moving
         /\ FirstTarget = call.first + Len(buffer)
<1>1. slot = started /\ slot \in Cards /\ sdhc = (slot \in HighCapacity) /\ Moving
  BY DEF Served, In, CInv, Inv, Known, Counting, Addressed, StartedInv, CallInv
<1> DEFINE s == call.first + Len(buffer)
<1>2. s \in Nat /\ Chunk \in Nat \ {0}
  BY Places
<1>3. Targets = s .. s + Chunk - 1
  BY <1>1, TargetsCounted
<1> HIDE DEF s
<1> QED BY <1>1, <1>2, <1>3, FirstOf DEF s

\* The call after a command that moved sectors, or did not.
LEMMA ChunkCInv ==
  ASSUME CInv, buffer \in Seq(Data), phase = "data", Inv',
         NEW moved \in Seq(Data), Len(moved) = Chunk,
         AfterChunk(moved) \/ ChunkFails, UNCHANGED <<slot, started>>
  PROVE  CInv' /\ buffer' \in Seq(Data) /\ UNCHANGED <<call, known, reply>>
<1>1. UNCHANGED <<call, known, reply, ready>>
  BY DEF AfterChunk, ChunkFails, Result, mgrVars, replyVars
<1>2. Moving /\ started \in Cards /\ ~(phase = "idle") /\ slot \in Cards \cup {None}
  BY DEF CInv, CallInv, StartedInv
<1>3. CASE AfterChunk(moved)
  <2>1. buffer' = buffer \o moved /\ buffer' \in Seq(Data) /\ Len(buffer') = Len(buffer) + Chunk
    BY <1>3, ConcatProperties DEF AfterChunk
  <2>2. Len(buffer') <= call.count /\ (call.aligned => Len(buffer') = call.count)
    BY <2>1, Places DEF CInv, CallInv, Chunk
  <2>3. \/ phase' = "data" /\ Len(buffer') < call.count
        \/ phase' = "deselect" /\ Len(buffer') = call.count
    BY SMTT(40), <1>3, <2>1, <2>2, Places DEF AfterChunk, Result
  <2>4. CallInv'
    BY <1>1, <1>2, <2>1, <2>2, <2>3, Places DEF CInv, CallInv, Moving, Phases
  <2> QED BY <1>1, <1>2, <2>1, <2>3, <2>4 DEF CInv, StartedInv, Moving
<1>4. CASE ChunkFails
  <2>1. buffer' = buffer /\ phase' = "deselect" /\ ok' = FALSE
    BY <1>4 DEF ChunkFails, Result
  <2>2. CallInv'
    BY <1>1, <1>2, <2>1, Places DEF CInv, CallInv, Moving, Phases
  <2> QED BY <1>1, <1>2, <2>1, <2>2 DEF CInv, StartedInv, Moving
<1> QED BY <1>3, <1>4

-----------------------------------------------------------------------------
(* What the sectors hold. *)

\* A step that moves no sector and answers nothing.
LEMMA StillStore ==
  ASSUME StoreInv, CInv', UNCHANGED <<disk, known, call, buffer>>, UNCHANGED started \/ ~Moving
  PROVE  StoreInv'
<1>1. DataTypes'
  BY DEF StoreInv, DataTypes
<1>2. HoldsKnown'
  BY DEF StoreInv, HoldsKnown, Moving
<1>3. MovedIsHeld'
  BY DEF StoreInv, MovedIsHeld, Moving
<1> QED BY <1>1, <1>2, <1>3 DEF StoreInv

\* The sectors a reply is about, and what it says of them.
Told == IF call.name = "Write" THEN call.data ELSE buffer
Start == Base(started) + call.first
ToldSpan == Start .. Start + Len(Told) - 1

LEMMA ToldSectors ==
  ASSUME StoreInv, Moving, call.name = "Read" => Len(buffer) = call.count
  PROVE  /\ Told \in Seq(Data) /\ Len(Told) = call.count /\ Start \in Nat
         /\ \A c \in Cards, t \in Sectors :
              Base(c) + t \in ToldSpan <=>
                c = started /\ t \in call.first .. call.first + call.count - 1
         /\ \A t \in call.first .. call.first + call.count - 1 :
              t \in Sectors /\ Base(started) + t - Start = t - call.first
<1>1. Told \in Seq(Data) /\ Len(Told) = call.count /\ call.count \in Nat /\ call.first \in Nat
  BY DEF Told, StoreInv, CInv, CallInv, DataTypes, Moving
<1>2. /\ call.first + call.count <= SectorCount /\ started \in Cards
      /\ SectorCount \in Nat /\ call.count > 0
  BY Sizes DEF StoreInv, CInv, CallInv, StartedInv
<1>3. call.first \in Sectors
  BY <1>1, <1>2 DEF Sectors
<1>4. Base(started) \in Nat /\ Start \in Nat
  BY <1>1, <1>2, <1>3, BaseType DEF Start
<1>5. ASSUME NEW t \in call.first .. call.first + call.count - 1
      PROVE  t \in Sectors /\ Base(started) + t - Start = t - call.first
  BY SMTT(40), <1>1, <1>2, <1>4 DEF Sectors, Start
<1>6. ASSUME NEW c \in Cards, NEW t \in Sectors, Base(c) + t \in ToldSpan
      PROVE  c = started /\ t \in call.first .. call.first + call.count - 1
  <2> DEFINE b == Base(c) + t
             u == b - Base(started)
  <2>1. Base(c) \in Nat /\ t \in Nat
    BY BaseType, Sizes DEF Sectors
  <2>2. u \in call.first .. call.first + call.count - 1
    <3>1. b \in Base(started) + call.first .. Base(started) + call.first + call.count - 1
      BY <1>1, <1>6 DEF ToldSpan, Start
    <3>2. b \in Nat /\ Base(started) \in Nat
      BY <1>4, <2>1
    <3> HIDE DEF b
    <3> QED BY SMTT(40), <1>1, <3>1, <3>2
  <2>3. u \in Sectors /\ Base(started) + u = Base(c) + t
    BY <1>4, <1>5, <2>1, <2>2
  <2> HIDE DEF u
  <2>4. c = started /\ t = u
    BY <1>2, <2>3, Distinct
  <2> QED BY <2>2, <2>4
<1>7. ASSUME NEW t \in call.first .. call.first + call.count - 1
      PROVE  Base(started) + t \in ToldSpan
  BY SMTT(40), <1>1, <1>4 DEF ToldSpan, Start
<1> QED BY <1>1, <1>4, <1>5, <1>6, <1>7

\* The reply to a read or a write, as BlockStore sees it.
LEMMA Replied ==
  ASSUME NEW s \in BOOLEAN, Finish(s), Moving
  PROVE  /\ reply'.call = call.name /\ reply'.ok = s
         /\ call.name = "Write" \/ s =>
              /\ reply'.first = Start /\ reply'.data = Told
              /\ known' = [n \in AllSectors |->
                            IF n \in ToldSpan
                            THEN (IF s THEN {} ELSE known[n]) \cup {Told[n - Start + 1]}
                            ELSE known[n]]
<1>1. call.name # "Init"
  BY DEF Moving
<1>2. reply'.call = call.name /\ reply'.ok = s
  BY DEF Finish
<1>3. ASSUME call.name = "Write" \/ s
      PROVE  reply'.first = Start /\ reply'.data = Told /\ known' = KnownAfter(s, Told)
  BY <1>1, <1>3 DEF Finish, Start, Told
<1> QED BY <1>1, <1>2, <1>3 DEF KnownAfter, ToldSpan, Start

LEMMA ReadFailed ==
  ASSUME StoreInv, Finish(FALSE), call.name = "Read"
  PROVE  known' = known
<1>1. known' = KnownAfter(FALSE, <<>>)
  BY DEF Finish
<1>2. call.first \in Nat /\ started \in Cards /\ call.first \in Sectors
  BY Sizes DEF StoreInv, CInv, CallInv, StartedInv, Moving, Sectors
<1>3. Start \in Nat
  BY <1>2, BaseType DEF Start
<1>4. Start .. Start + Len(<<>>) - 1 = {}
  BY <1>3
<1> QED BY <1>1, <1>4 DEF KnownAfter, Start, StoreInv, DataTypes

LEMMA StartFinished ==
  ASSUME StoreInv, NEW s \in BOOLEAN, Finish(s), call.name = "Init"
  PROVE  known' = known /\ reply'.call = "Init"
BY DEF Finish, KnownAfter, StoreInv, DataTypes

\* The end of a call: the sectors hold what the reply says, or may still say.
LEMMA FinishHolds ==
  ASSUME StoreInv, NEW s \in BOOLEAN, Finish(s), Moving, UNCHANGED <<disk, started>>,
         call.name = "Write" \/ s, s => Len(buffer) = call.count
  PROVE  /\ known' \in [AllSectors -> SUBSET Data]
         /\ \A c \in Cards, t \in Sectors : disk[c][t] \in known'[Base(c) + t]
         /\ s => \A n \in ToldSpan : Told[n - Start + 1] \in known[n] \/ call.name = "Write"
<1>1. /\ Told \in Seq(Data) /\ Len(Told) = call.count /\ Start \in Nat
      /\ \A c \in Cards, t \in Sectors :
           Base(c) + t \in ToldSpan <=>
             c = started /\ t \in call.first .. call.first + call.count - 1
      /\ \A t \in call.first .. call.first + call.count - 1 :
           t \in Sectors /\ Base(started) + t - Start = t - call.first
  BY ToldSectors DEF Moving
<1>2. known' = [n \in AllSectors |->
                 IF n \in ToldSpan
                 THEN (IF s THEN {} ELSE known[n]) \cup {Told[n - Start + 1]}
                 ELSE known[n]]
  BY Replied
<1>3. /\ started \in Cards /\ call.first \in Nat /\ call.count \in Nat
      /\ known \in [AllSectors -> SUBSET Data]
      /\ call.first + call.count <= SectorCount /\ SectorCount \in Nat
  BY Sizes DEF StoreInv, CInv, CallInv, StartedInv, DataTypes
<1>0. Base(started) \in Nat
  <2>1. 0 \in Sectors
    BY Sizes DEF Sectors
  <2> QED BY <1>3, <2>1, BaseType
<1>4. \A n \in ToldSpan : n - Start + 1 \in 1 .. call.count /\ Told[n - Start + 1] \in Data
  BY <1>1, <1>3 DEF ToldSpan
<1>5. known' \in [AllSectors -> SUBSET Data]
  <2>1. ASSUME NEW n \in AllSectors
        PROVE (IF n \in ToldSpan
                 THEN (IF s THEN {} ELSE known[n]) \cup {Told[n - Start + 1]}
                 ELSE known[n]) \in SUBSET Data
    BY <1>3, <1>4
  <2> QED BY <1>2, <2>1
\* What the buffer or the write in progress says of the sector.
<1>6. ASSUME NEW t \in call.first .. call.first + call.count - 1
      PROVE  /\ Base(started) + t - Start + 1 = t - call.first + 1
             /\ t - call.first + 1 \in 1 .. call.count
             /\ t = call.first + (t - call.first + 1) - 1
  BY SMTT(40), <1>1, <1>3
<1>7. ASSUME s, NEW t \in call.first .. call.first + call.count - 1
      PROVE  disk[started][t] = Told[t - call.first + 1]
  <2> DEFINE i == t - call.first + 1
  <2>1. i \in 1 .. Len(buffer) /\ t = call.first + i - 1
    BY <1>6, <1>7
  <2> HIDE DEF i
  <2>2. buffer[i] = disk[started][t] /\ (call.name = "Write" => buffer[i] = call.data[i])
    BY <2>1 DEF StoreInv, MovedIsHeld
  <2> QED BY <2>2 DEF Told, i
<1>8. ASSUME NEW c \in Cards, NEW t \in Sectors
      PROVE  disk[c][t] \in known'[Base(c) + t]
  <2> DEFINE n == Base(c) + t
  <2>1. n \in AllSectors
    BY BaseType
  <2>2. CASE n \in ToldSpan
    <3>1. c = started /\ t \in call.first .. call.first + call.count - 1
      BY <1>1, <2>2
    <3>2. Told[n - Start + 1] = Told[t - call.first + 1]
      <4>1. n = Base(started) + t
        BY <3>1
      <4>2. Base(started) + t - Start + 1 = t - call.first + 1
        BY <1>6, <3>1
      <4>3. n - Start + 1 = t - call.first + 1
        <5> HIDE DEF n
        <5> QED BY <1>1, <1>3, <1>0, <3>1, <4>1, <4>2
      <4> QED BY <4>3
    <3>3. CASE s
      BY <1>2, <1>7, <2>1, <2>2, <3>1, <3>2, <3>3
    <3>4. CASE ~s
      <4>1. known'[n] = known[n] \cup {Told[t - call.first + 1]}
        BY <1>2, <2>1, <2>2, <3>2, <3>4
      <4>2. disk[c][t] \in known[n] \/ disk[c][t] = call.data[t - call.first + 1]
        BY DEF StoreInv, HoldsKnown
      <4>3. Told = call.data
        BY <3>4 DEF Told
      <4> QED BY <4>1, <4>2, <4>3
    <3> QED BY <3>3, <3>4
  <2>3. CASE n \notin ToldSpan
    <3>1. known'[n] = known[n]
      BY <1>2, <2>1, <2>3
    <3>2. ~(c = started /\ t \in call.first .. call.first + call.count - 1)
      BY <1>1, <2>3
    <3>3. disk[c][t] \in known[n]
      BY <3>2 DEF StoreInv, HoldsKnown
    <3> QED BY <3>1, <3>3
  <2> QED BY <2>2, <2>3
<1>9. ASSUME s, call.name # "Write", NEW n \in ToldSpan
      PROVE  Told[n - Start + 1] \in known[n]
  <2> DEFINE t == n - Base(started)
  <2>2. t \in call.first .. call.first + call.count - 1 /\ n = Base(started) + t
    BY SMTT(40), <1>1, <1>3, <1>0 DEF ToldSpan, Start
  <2> HIDE DEF t
  <2>3. t \in Sectors /\ n - Start + 1 = t - call.first + 1
    <3>1. Base(started) + t - Start + 1 = t - call.first + 1
      BY <1>6, <2>2
    <3> QED BY <1>1, <1>3, <1>0, <2>2, <3>1
  <2>4. disk[started][t] \in known[n]
    BY <1>3, <1>9, <2>2, <2>3 DEF StoreInv, HoldsKnown
  <2>5. disk[started][t] = Told[t - call.first + 1]
    BY <1>7, <1>9, <2>2
  <2> QED BY <2>3, <2>4, <2>5
<1> QED BY <1>5, <1>8, <1>9

LEMMA FinishStore ==
  ASSUME StoreInv, NEW s \in BOOLEAN, Finish(s), CInv', UNCHANGED <<disk, started>>,
         phase # "idle", s /\ Moving => Len(buffer) = call.count
  PROVE  StoreInv' /\ Store!Next
<1>1. buffer' = <<>> /\ call'.name = "none" /\ ~Moving'
  BY DEF Finish, NoCall, Call, Moving
<1>2. call.name \in {"Init", "Read", "Write"}
  BY DEF StoreInv, CInv, CallInv
<1>3. ASSUME \/ known' = known /\ call.name # "Write"
             \/ /\ known' \in [AllSectors -> SUBSET Data]
                /\ \A c \in Cards, t \in Sectors : disk[c][t] \in known'[Base(c) + t]
      PROVE  StoreInv'
  <2>1. /\ known' \in [AllSectors -> SUBSET Data]
        /\ \A c \in Cards, t \in Sectors : disk[c][t] \in known'[Base(c) + t]
    BY <1>3 DEF StoreInv, DataTypes, HoldsKnown
  <2>2. DataTypes'
    BY <1>1, <2>1 DEF StoreInv, DataTypes
  <2> QED BY <1>1, <2>1, <2>2 DEF StoreInv, HoldsKnown, MovedIsHeld
<1>4. CASE call.name = "Init"
  <2>1. known' = known /\ reply'.call = "Init"
    BY <1>4, StartFinished
  <2> QED BY <1>3, <1>4, <2>1 DEF Store!Next, Store!Others
<1>5. CASE call.name = "Read" /\ ~s
  <2>1. known' = known
    BY <1>5, ReadFailed
  <2>2. reply'.call = "Read" /\ ~reply'.ok
    BY <1>5, Replied DEF Moving
  <2> QED BY <1>3, <1>5, <2>1, <2>2 DEF Store!Next, Store!Others
<1>6. CASE call.name = "Write" \/ (call.name = "Read" /\ s)
  <2>1. Moving /\ (call.name = "Write" \/ s)
    BY <1>6 DEF Moving
  <2>2. /\ known' \in [AllSectors -> SUBSET Data]
        /\ \A c \in Cards, t \in Sectors : disk[c][t] \in known'[Base(c) + t]
        /\ s => \A n \in ToldSpan : Told[n - Start + 1] \in known[n] \/ call.name = "Write"
    BY <2>1, FinishHolds
  <2>3. /\ reply'.call = call.name /\ reply'.ok = s
        /\ reply'.first = Start /\ reply'.data = Told
        /\ known' = [n \in AllSectors |->
                      IF n \in ToldSpan
                      THEN (IF s THEN {} ELSE known[n]) \cup {Told[n - Start + 1]}
                      ELSE known[n]]
    BY <2>1, Replied
  <2>4. Store!Span(reply') = ToldSpan /\ \A n : Store!Said(reply', n) = Told[n - Start + 1]
    BY <2>3 DEF Store!Span, Store!Said, ToldSpan
  <2>5. CASE s
    <3>1. Store!Settled(reply')
      BY <2>3, <2>4, <2>5 DEF Store!Settled
    <3>2. Store!Read \/ Store!Write
      BY <1>6, <2>2, <2>3, <2>4, <2>5, <3>1 DEF Store!Read, Store!Write
    <3> QED BY <1>3, <2>2, <3>2 DEF Store!Next
  <2>6. CASE ~s
    <3>1. Store!WriteFails
      BY <1>6, <2>3, <2>4, <2>6 DEF Store!WriteFails
    <3> QED BY <1>3, <2>2, <3>1 DEF Store!Next
  <2> QED BY <2>5, <2>6
<1> QED BY <1>2, <1>4, <1>5, <1>6

LEMMA ReadStore ==
  ASSUME StoreInv, ReadChunk, Inv'
  PROVE  StoreInv' /\ UNCHANGED <<known, reply>>
<1>1. phase = "data" /\ call.name = "Read" /\ UNCHANGED <<disk, started, slot>>
  BY DEF ReadChunk, slotVars
<1>2. CInv /\ DataTypes /\ buffer \in Seq(Data) /\ Chunk \in 1 .. call.count - Len(buffer)
      /\ Len(buffer) \in Nat /\ call.first \in Nat /\ call.count \in Nat
      /\ call.first + call.count <= SectorCount /\ SectorCount \in Nat
  BY <1>1, Places DEF StoreInv, DataTypes
<1>3. CASE ChunkFails
  <2>1. UNCHANGED <<call, known, reply, buffer>> /\ phase' = "deselect" /\ ok' = FALSE
        /\ ready' = ready
    BY <1>3 DEF ChunkFails, Result, mgrVars, replyVars
  <2>2. CInv'
    BY <1>1, <1>2, <2>1 DEF CInv, CallInv, StartedInv, Moving, Phases
  <2> QED BY <1>1, <2>1, <2>2, StillStore
<1>4. CASE Served /\ AfterChunk([i \in 1 .. Chunk |-> disk[slot][FirstTarget + i - 1]])
  <2> DEFINE moved == [i \in 1 .. Chunk |-> disk[slot][FirstTarget + i - 1]]
  <2>1. slot = started /\ slot \in Cards /\ FirstTarget = call.first + Len(buffer)
    BY <1>1, <1>2, <1>4, Reached
  <2>2. \A i \in 1 .. Chunk : FirstTarget + i - 1 \in Sectors
    BY SMTT(40), <1>2, <2>1 DEF Sectors
  <2>3. moved \in Seq(Data) /\ Len(moved) = Chunk
    BY <1>2, <2>1, <2>2 DEF DataTypes
  <2>4. CInv' /\ buffer' \in Seq(Data) /\ UNCHANGED <<call, known, reply>>
    <3> HIDE DEF moved
    <3> QED BY <1>1, <1>2, <1>4, <2>3, ChunkCInv DEF moved
  <2>5. buffer' = buffer \o moved
    BY <1>4 DEF AfterChunk
  <2>6. /\ Len(buffer') = Len(buffer) + Chunk
        /\ \A i \in 1 .. Len(buffer') :
             buffer'[i] = IF i <= Len(buffer) THEN buffer[i] ELSE moved[i - Len(buffer)]
    <3> HIDE DEF moved
    <3> QED BY ZenonT(60), <1>2, <2>3, <2>5, ConcatProperties
  <2>7. MovedIsHeld'
    <3> SUFFICES ASSUME NEW i \in 1 .. Len(buffer')
                 PROVE  buffer'[i] = disk[started][call.first + i - 1]
      BY <1>1, <2>4 DEF MovedIsHeld
    <3>0. Moving /\ Len(buffer) \in Nat /\ Chunk \in Nat /\ Len(buffer') = Len(buffer) + Chunk
          /\ i \in Nat /\ i >= 1
      BY <1>1, <1>2, <2>6 DEF Moving
    <3>1. CASE i <= Len(buffer)
      <4>1. i \in 1 .. Len(buffer)
        BY <3>0, <3>1
      <4>2. buffer[i] = disk[started][call.first + i - 1]
        BY <3>0, <4>1 DEF StoreInv, MovedIsHeld
      <4>3. buffer'[i] = buffer[i]
        BY <2>6, <3>1
      <4> QED BY <4>2, <4>3
    <3>2. CASE i > Len(buffer)
      <4> DEFINE j == i - Len(buffer)
      <4>0. i <= Len(buffer')
        OBVIOUS
      <4>1. j \in 1 .. Chunk /\ call.first + Len(buffer) + j - 1 = call.first + i - 1
        <5> HIDE DEF moved
        <5> QED BY <1>2, <3>0, <3>2, <4>0
      <4>2. buffer'[i] = moved[j]
        <5> HIDE DEF moved
        <5>1. ~(i <= Len(buffer))
          BY <3>0, <3>2
        <5> QED BY <2>6, <5>1
      <4> HIDE DEF j
      <4> QED BY <2>1, <4>1, <4>2
    <3> QED BY <3>0, <3>1, <3>2
  <2>8. HoldsKnown'
    BY <1>1, <2>4 DEF StoreInv, HoldsKnown
  <2>9. DataTypes'
    BY <1>1, <1>2, <2>4 DEF DataTypes
  <2> QED BY <2>4, <2>7, <2>8, <2>9 DEF StoreInv
<1> QED BY <1>3, <1>4 DEF ReadChunk


\* The texts of a chunk are the call's next ones.
LEMMA ChunkTexts ==
  ASSUME CInv, buffer \in Seq(Data), phase = "data", call.name = "Write",
         NEW texts, texts = SubSeq(call.data, Len(buffer) + 1, Len(buffer) + Chunk)
  PROVE  /\ texts \in Seq(Data) /\ Len(texts) = Chunk
         /\ \A j \in 1 .. Chunk : texts[j] = call.data[Len(buffer) + j]
         /\ \A i \in 1 .. call.count : call.data[i] \in Data
<1>1. call.data \in Seq(Data) /\ Len(call.data) = call.count
  BY DEF CInv, CallInv
<1>2. /\ Len(buffer) \in Nat /\ call.count \in Nat
      /\ Chunk \in 1 .. call.count - Len(buffer)
  BY Places
<1> DEFINE m == Len(buffer) + 1  n == Len(buffer) + Chunk
<1>3. m \in 1 .. Len(call.data) + 1 /\ n \in m - 1 .. Len(call.data) /\ n - m + 1 = Chunk
  BY <1>1, <1>2
<1>4. \A j \in 1 .. Chunk : m + j - 1 = Len(buffer) + j
  BY <1>2
<1>5. texts = SubSeq(call.data, m, n)
  OBVIOUS
<1> HIDE DEF m, n
<1>6. /\ SubSeq(call.data, m, n) \in Seq(Data) /\ Len(SubSeq(call.data, m, n)) = n - m + 1
      /\ \A i \in 1 .. n - m + 1 : SubSeq(call.data, m, n)[i] = call.data[m + i - 1]
  BY <1>1, <1>3, SubSeqProperties
<1>7. \A i \in 1 .. call.count : call.data[i] \in Data
  BY <1>1
<1> QED BY <1>3, <1>4, <1>5, <1>6, <1>7

\* Where the n sectors of a chunk lie in a call, from f on.
Within(first, f, count, len, n, chunk) ==
  /\ \A s \in f .. f + n - 1 :
       /\ s - f + 1 \in 1 .. chunk /\ s - first + 1 \in 1 .. count
       /\ s \in first .. first + count - 1
       /\ len + (s - f + 1) = s - first + 1
  /\ \A i \in 1 .. len :
       first + i - 1 \in first .. first + len - 1 /\ first + i - 1 \notin f .. f + n - 1
  /\ \A j \in 1 .. n :
       f + j - 1 \in f .. f + n - 1 /\ f + j - 1 - first + 1 = len + j

LEMMA Positions ==
  ASSUME NEW first \in Nat, NEW count \in Nat, NEW len \in Nat, NEW n \in Nat, NEW chunk \in Nat,
         NEW f, f = first + len, n <= chunk, n + len <= count
  PROVE  Within(first, f, count, len, n, chunk)
BY DEF Within

LEMMA InSectors ==
  ASSUME NEW first \in Nat, NEW count \in Nat, NEW s \in first .. first + count - 1,
         first + count <= SectorCount
  PROVE  s \in Sectors
BY Sizes DEF Sectors

\* A card that takes the first n texts of a chunk.
LEMMA StoresHolds ==
  ASSUME StoreInv, phase = "data", call.name = "Write", Served,
         NEW texts, texts = SubSeq(call.data, Len(buffer) + 1, Len(buffer) + Chunk),
         NEW n \in 0 .. Chunk, Stores(texts, n), UNCHANGED <<call, known, started>>
  PROVE  /\ disk' \in [Cards -> [Sectors -> Data]] /\ HoldsKnown'
         /\ \A i \in 1 .. Len(buffer) :
              disk'[started][call.first + i - 1] = disk[started][call.first + i - 1]
         /\ \A j \in 1 .. n :
              disk'[started][call.first + Len(buffer) + j - 1] = call.data[Len(buffer) + j]
<1>1. CInv /\ buffer \in Seq(Data) /\ disk \in [Cards -> [Sectors -> Data]]
  BY DEF StoreInv, DataTypes
<1>2. /\ Len(buffer) \in Nat /\ call.first \in Nat /\ call.count \in Nat /\ SectorCount \in Nat
      /\ Chunk \in 1 .. call.count - Len(buffer) /\ call.first + call.count <= SectorCount
      /\ n \in Nat /\ n <= Chunk /\ Chunk \in Nat /\ n + Len(buffer) <= call.count
  BY <1>1, Places
<1> DEFINE f == call.first + Len(buffer)
<1>3. slot = started /\ slot \in Cards /\ FirstTarget = f
  BY <1>1, Reached
<1>4. /\ \A j \in 1 .. Chunk : texts[j] = call.data[Len(buffer) + j]
      /\ \A i \in 1 .. call.count : call.data[i] \in Data
  BY <1>1, ChunkTexts
<1> DEFINE after == [s \in Sectors |-> IF s \in f .. f + n - 1
                                       THEN texts[s - f + 1] ELSE disk[started][s]]
<1>5. disk' = [disk EXCEPT ![started] = after]
  BY <1>3 DEF Stores
<1>6. Within(call.first, f, call.count, Len(buffer), n, Chunk)
  <2>1. f = call.first + Len(buffer)
    OBVIOUS
  <2> HIDE DEF f, after
  <2> QED BY <1>2, <2>1, Positions
<1>7. ASSUME NEW s \in Sectors, s \in f .. f + n - 1
      PROVE  /\ s - f + 1 \in 1 .. Chunk /\ s - call.first + 1 \in 1 .. call.count
             /\ s \in call.first .. call.first + call.count - 1
             /\ Len(buffer) + (s - f + 1) = s - call.first + 1
  <2> HIDE DEF f, after
  <2> QED BY <1>6, <1>7 DEF Within
<1>8. ASSUME NEW s \in Sectors
      PROVE  after[s] = IF s \in f .. f + n - 1
                        THEN call.data[s - call.first + 1] ELSE disk[started][s]
  <2>1. CASE s \in f .. f + n - 1
    <3>1. texts[s - f + 1] = call.data[Len(buffer) + (s - f + 1)]
      <4> HIDE DEF f
      <4> QED BY <1>4, <1>7, <2>1
    <3>2. texts[s - f + 1] = call.data[s - call.first + 1]
      BY <1>7, <2>1, <3>1
    <3> QED BY <2>1, <3>2
  <2>2. CASE s \notin f .. f + n - 1
    BY <2>2
  <2> QED BY <2>1, <2>2
<1>9. after \in [Sectors -> Data]
  <2>1. ASSUME NEW s \in Sectors
        PROVE  after[s] \in Data
    <3>1. CASE s \in f .. f + n - 1
      <4> HIDE DEF after, f
      <4> QED BY <1>4, <1>7, <1>8, <3>1
    <3>2. CASE s \notin f .. f + n - 1
      <4> HIDE DEF after, f
      <4> QED BY <1>1, <1>3, <1>8, <3>2
    <3> QED BY <3>1, <3>2
  <2> QED BY <2>1
<1> HIDE DEF after
<1>10. /\ disk' \in [Cards -> [Sectors -> Data]] /\ disk'[started] = after
      /\ \A c \in Cards : c # started => disk'[c] = disk[c]
  BY <1>1, <1>3, <1>5, <1>9
<1>11. HoldsKnown'
  <2> SUFFICES ASSUME NEW c \in Cards, NEW s \in Sectors
               PROVE  \/ disk'[c][s] \in known[Base(c) + s]
                      \/ /\ call.name = "Write" /\ c = started
                         /\ s \in call.first .. call.first + call.count - 1
                         /\ disk'[c][s] = call.data[s - call.first + 1]
    BY DEF HoldsKnown
  <2>1. CASE c = started /\ s \in f .. f + n - 1
    <3> HIDE DEF f
    <3> QED BY <1>7, <1>8, <1>10, <2>1
  <2>2. CASE ~(c = started /\ s \in f .. f + n - 1)
    <3>1. disk'[c][s] = disk[c][s]
      BY <1>8, <1>10, <2>2
    <3> QED BY <3>1 DEF StoreInv, HoldsKnown
  <2> QED BY <2>1, <2>2
<1>12. ASSUME NEW i \in 1 .. Len(buffer)
       PROVE  disk'[started][call.first + i - 1] = disk[started][call.first + i - 1]
  <2> HIDE DEF f
  <2>1. /\ call.first + i - 1 \in call.first .. call.first + Len(buffer) - 1
        /\ call.first + i - 1 \notin f .. f + n - 1
    BY <1>6 DEF Within
  <2> DEFINE s == call.first + i - 1
  <2>2. call.first + Len(buffer) <= SectorCount
    BY <1>2
  <2>3. s \in Sectors /\ s \notin f .. f + n - 1
    <3>1. s \in call.first .. call.first + Len(buffer) - 1 /\ s \notin f .. f + n - 1
      BY <2>1
    <3> HIDE DEF s
    <3> QED BY <1>2, <2>2, <3>1, InSectors
  <2> HIDE DEF s
  <2>4. disk'[started][s] = disk[started][s]
    BY <1>8, <1>10, <2>3
  <2> QED BY <2>4 DEF s
<1>13. ASSUME NEW j \in 1 .. n
       PROVE  disk'[started][call.first + Len(buffer) + j - 1] = call.data[Len(buffer) + j]
  <2>1. call.first + Len(buffer) + j - 1 = f + j - 1 /\ f \in Nat /\ j \in Nat
    BY <1>2
  <2> HIDE DEF f
  <2>2. f + j - 1 \in f .. f + n - 1 /\ f + j - 1 - call.first + 1 = Len(buffer) + j
    BY <1>6 DEF Within
  <2> DEFINE s == f + j - 1
  <2>3. s \in f .. f + n - 1 /\ s - call.first + 1 = Len(buffer) + j
    BY <1>2, <2>1, <2>2
  <2> HIDE DEF s
  <2>4. s \in call.first .. call.first + call.count - 1
    BY <1>6, <2>3 DEF Within
  <2>5. s \in Sectors
    BY <1>2, <2>4, InSectors
  <2>6. disk'[started][s] = call.data[s - call.first + 1]
    BY <1>8, <1>10, <2>3, <2>5
  <2> QED BY <2>1, <2>3, <2>6 DEF s
<1> QED BY <1>10, <1>11, <1>12, <1>13


LEMMA WriteStore ==
  ASSUME StoreInv, WriteChunk, Inv'
  PROVE  StoreInv' /\ UNCHANGED <<known, reply>>
<1> DEFINE texts == SubSeq(call.data, Len(buffer) + 1, Len(buffer) + Chunk)
<1>1. phase = "data" /\ call.name = "Write" /\ UNCHANGED <<started, slot>> /\ Moving
  BY DEF WriteChunk, slotVars, Moving
<1>2. CInv /\ DataTypes /\ buffer \in Seq(Data) /\ Chunk \in 1 .. call.count - Len(buffer)
      /\ Len(buffer) \in Nat /\ call.first \in Nat /\ call.count \in Nat
  BY <1>1, Places DEF StoreInv, DataTypes
<1>3. /\ texts \in Seq(Data) /\ Len(texts) = Chunk
      /\ \A j \in 1 .. Chunk : texts[j] = call.data[Len(buffer) + j]
  BY <1>1, <1>2, ChunkTexts
<1>4. \/ Served /\ Stores(texts, Chunk) /\ AfterChunk(texts)
      \/ Served /\ (\E n \in 0 .. Chunk : Stores(texts, n)) /\ ChunkFails
      \/ ChunkFails /\ UNCHANGED disk
  BY DEF WriteChunk
<1>5. texts = SubSeq(call.data, Len(buffer) + 1, Len(buffer) + Chunk)
  OBVIOUS
<1> HIDE DEF texts
<1>6. CInv' /\ buffer' \in Seq(Data) /\ UNCHANGED <<call, known, reply>>
  BY <1>1, <1>2, <1>3, <1>4, ChunkCInv
<1>7. CASE ChunkFails /\ UNCHANGED disk
  <2>1. buffer' = buffer
    BY <1>7 DEF ChunkFails
  <2> QED BY <1>1, <1>6, <1>7, <2>1, StillStore
<1>8. CASE Served /\ (\E n \in 0 .. Chunk : Stores(texts, n)) /\ ChunkFails
  <2> PICK n \in 0 .. Chunk : Stores(texts, n)
    BY <1>8
  <2>1. /\ disk' \in [Cards -> [Sectors -> Data]] /\ HoldsKnown'
        /\ \A i \in 1 .. Len(buffer) :
             disk'[started][call.first + i - 1] = disk[started][call.first + i - 1]
    BY <1>1, <1>5, <1>6, <1>8, StoresHolds
  <2>2. buffer' = buffer
    BY <1>8 DEF ChunkFails
  <2>3. MovedIsHeld'
    BY <1>1, <1>6, <2>1, <2>2 DEF StoreInv, MovedIsHeld, Moving
  <2>4. DataTypes'
    BY <1>2, <1>6, <2>1 DEF DataTypes
  <2> QED BY <1>6, <2>1, <2>3, <2>4 DEF StoreInv
<1>9. CASE Served /\ Stores(texts, Chunk) /\ AfterChunk(texts)
  <2>0. Chunk \in 0 .. Chunk
    BY <1>2
  <2>1. /\ disk' \in [Cards -> [Sectors -> Data]] /\ HoldsKnown'
        /\ \A i \in 1 .. Len(buffer) :
             disk'[started][call.first + i - 1] = disk[started][call.first + i - 1]
        /\ \A j \in 1 .. Chunk :
             disk'[started][call.first + Len(buffer) + j - 1] = call.data[Len(buffer) + j]
    BY <1>1, <1>5, <1>6, <1>9, <2>0, StoresHolds
  <2>2. buffer' = buffer \o texts
    BY <1>9 DEF AfterChunk
  <2>3. /\ Len(buffer') = Len(buffer) + Chunk
        /\ \A i \in 1 .. Len(buffer') :
             buffer'[i] = IF i <= Len(buffer) THEN buffer[i] ELSE texts[i - Len(buffer)]
    BY <1>2, <1>3, <2>2, ConcatProperties
  <2>4. MovedIsHeld'
    <3> SUFFICES ASSUME NEW i \in 1 .. Len(buffer')
                 PROVE  buffer'[i] = disk'[started][call.first + i - 1]
                        /\ buffer'[i] = call.data[i]
      BY <1>1, <1>6 DEF MovedIsHeld
    <3>0. Len(buffer) \in Nat /\ Chunk \in Nat /\ Len(buffer') = Len(buffer) + Chunk
          /\ i \in Nat /\ i >= 1 /\ i <= Len(buffer')
      BY <1>2, <2>3
    <3>1. CASE i <= Len(buffer)
      <4>1. i \in 1 .. Len(buffer)
        BY <3>0, <3>1
      <4>2. buffer[i] = disk[started][call.first + i - 1] /\ buffer[i] = call.data[i]
        BY <1>1, <4>1 DEF StoreInv, MovedIsHeld
      <4>3. buffer'[i] = buffer[i]
        BY <2>3, <3>1
      <4> QED BY <2>1, <4>1, <4>2, <4>3
    <3>2. CASE i > Len(buffer)
      <4> DEFINE j == i - Len(buffer)
      <4>1. j \in 1 .. Chunk /\ call.first + Len(buffer) + j - 1 = call.first + i - 1
            /\ Len(buffer) + j = i
        BY <1>2, <3>0, <3>2
      <4>2. buffer'[i] = texts[j]
        BY <2>3, <3>0, <3>2
      <4> HIDE DEF j
      <4>3. texts[j] = call.data[i] /\ disk'[started][call.first + i - 1] = call.data[i]
        BY <1>3, <2>1, <4>1
      <4> QED BY <4>2, <4>3
    <3> QED BY <3>0, <3>1, <3>2
  <2>5. DataTypes'
    BY <1>2, <1>6, <2>1 DEF DataTypes
  <2> QED BY <1>6, <2>1, <2>4, <2>5 DEF StoreInv
<1> QED BY <1>4, <1>7, <1>8, <1>9


-----------------------------------------------------------------------------
(* The refinement. *)

LEMMA InitStore == Init => StoreInv /\ Store!Init
<1> SUFFICES ASSUME Init PROVE StoreInv /\ Store!Init
  OBVIOUS
<1>1. /\ disk = InitialData /\ buffer = <<>> /\ call.name = "none" /\ reply.call = "none"
      /\ known = [n \in AllSectors |-> {InitialData[n \div SectorCount][n % SectorCount]}]
  BY DEF Init, NoCall, Call
<1>2. \A c \in Cards, s \in Sectors : InitialData[c][s] \in Data
  BY DEF Data
<1>3. ASSUME NEW n \in AllSectors
      PROVE  \E c \in Cards, s \in Sectors : n = Base(c) + s
  <2>1. PICK c \in Cards : n \in Base(c) .. Base(c) + SectorCount - 1
    BY DEF AllSectors
  <2>2. SectorCount \in Nat \ {0} /\ 0 \in Sectors
    BY Sizes DEF Sectors
  <2>3. Base(c) \in Nat
    BY <2>2, BaseType
  <2>4. n - Base(c) \in Sectors /\ n = Base(c) + (n - Base(c))
    BY <2>1, <2>2, <2>3 DEF Sectors
  <2> QED BY <2>4
<1>4. \A n \in AllSectors : known[n] \in {{d} : d \in Data}
  <2> SUFFICES ASSUME NEW n \in AllSectors PROVE known[n] \in {{d} : d \in Data}
    OBVIOUS
  <2>1. PICK c \in Cards, s \in Sectors : n = Base(c) + s
    BY <1>3
  <2>2. n \div SectorCount = c /\ n % SectorCount = s
    BY <2>1, Numbered
  <2> QED BY <1>1, <1>2, <2>2
<1>5. known \in [AllSectors -> {{d} : d \in Data}]
  BY <1>1, <1>4
<1>6. known \in [AllSectors -> SUBSET Data]
  BY <1>5
<1>7. disk \in [Cards -> [Sectors -> Data]]
  <2>1. InitialData = [c \in Cards |-> [s \in Sectors |-> InitialData[c][s]]]
    BY CardAssumption
  <2>2. \A c \in Cards : [s \in Sectors |-> InitialData[c][s]] \in [Sectors -> Data]
    BY <1>2
  <2> DEFINE initial == [c \in Cards |-> [s \in Sectors |-> InitialData[c][s]]]
  <2>3. initial \in [Cards -> [Sectors -> Data]]
    BY <2>2
  <2> QED BY <1>1, <2>1, <2>3
<1>8. HoldsKnown
  <2> SUFFICES ASSUME NEW c \in Cards, NEW s \in Sectors
               PROVE  disk[c][s] \in known[Base(c) + s]
    BY DEF HoldsKnown
  <2>1. Base(c) + s \in AllSectors
    BY BaseType
  <2>2. (Base(c) + s) \div SectorCount = c /\ (Base(c) + s) % SectorCount = s
    BY Numbered
  <2> QED BY <1>1, <2>1, <2>2
<1>9. MovedIsHeld
  BY <1>1 DEF MovedIsHeld, Moving
<1>10. DataTypes
  BY <1>1, <1>6, <1>7 DEF DataTypes
<1> QED BY <1>1, <1>5, <1>8, <1>9, <1>10, InitCInv DEF StoreInv, Store!Init

LEMMA OkBoolean == ok \in BOOLEAN /\ [Next]_vars => ok' \in BOOLEAN
<1> SUFFICES ASSUME ok \in BOOLEAN, [Next]_vars PROVE ok' \in BOOLEAN
  OBVIOUS
<1>1. \A p : Goto(p) => ok' = ok
  BY DEF Goto
<1>2. \A s : Finish(s) => ok' = FALSE
  BY DEF Finish
<1>3. ASSUME NEW s \in BOOLEAN, Result(s) PROVE ok' \in BOOLEAN
  BY <1>3 DEF Result
<1>4. CASE World
  BY <1>4 DEF World, Eject, Insert, Poll, ErrorForgotten, callVars
<1>5. CASE Calls
  BY <1>5 DEF Calls, StartInit, StartRead, StartWrite, Begin
<1>6. CASE ResetCard \/ GetStatus \/ Close \/ Open \/ Reopen \/ HostUp
  BY <1>1, <1>2, <1>6 DEF ResetCard, GetStatus, Close, Open, Reopen, HostUp
<1>7. CASE OpCond \/ GetAddress \/ SetUp \/ Select \/ Deselect
  BY <1>1, <1>2, <1>7 DEF OpCond, GetAddress, SetUp, Select, Deselect
<1>8. CASE SetLength
  BY <1>3, <1>8 DEF SetLength
<1>9. ChunkFails => ok' \in BOOLEAN
  BY <1>3 DEF ChunkFails
<1>10. \A moved : AfterChunk(moved) => ok' \in BOOLEAN
  BY <1>3 DEF AfterChunk
<1>11. CASE ReadChunk
  BY <1>9, <1>10, <1>11 DEF ReadChunk
<1>12. CASE WriteChunk
  BY <1>9, <1>10, <1>12 DEF WriteChunk
<1>13. CASE UNCHANGED vars
  BY <1>13 DEF vars, callVars
<1> QED BY <1>4, <1>5, <1>6, <1>7, <1>8, <1>11, <1>12, <1>13 DEF Next, Transfer, Startup

\* Every step of the driver is one of the store's, or none.
LEMMA NextStore ==
  ASSUME StoreInv, ok \in BOOLEAN, [Next]_vars
  PROVE  StoreInv' /\ (Store!Next \/ UNCHANGED <<known, reply>>)
<1>1. CInv /\ Inv
  BY DEF StoreInv, CInv
<1>2. CASE World
  <2>1. UNCHANGED <<disk, known, reply, call, buffer, started>>
    BY <1>2 DEF World, Eject, Insert, Poll, ErrorForgotten, callVars, replyVars
  <2> QED BY <1>1, <1>2, <2>1, WorldCInv, StillStore
<1>3. CASE Calls
  <2>1. CInv' /\ UNCHANGED <<disk, known, reply, started>> /\ buffer' = <<>>
    BY <1>1, <1>3, CallsCInv
  <2>2. call.name = "none"
    BY <1>1, <1>3 DEF CInv, CallInv, Calls, StartInit, StartRead, StartWrite, Begin
  <2>3. DataTypes'
    BY <2>1 DEF StoreInv, DataTypes
  <2>4. \A c \in Cards, s \in Sectors : disk[c][s] \in known[Base(c) + s]
    BY <2>2 DEF StoreInv, HoldsKnown
  <2>5. HoldsKnown'
    BY <2>1, <2>4 DEF HoldsKnown
  <2>6. MovedIsHeld'
    BY <2>1 DEF MovedIsHeld
  <2> QED BY <2>1, <2>3, <2>5, <2>6 DEF StoreInv
<1>4. CASE Startup
  <2>1. Starts /\ UNCHANGED <<disk, started, slot>> /\ phase # "idle" /\ CInv'
    BY <1>1, <1>4, StartupSteps, StartupCInv
  <2>2. CASE Finish(FALSE)
    BY <2>1, <2>2, FinishStore
  <2>3. CASE UNCHANGED <<call, buffer, ready, known, reply>>
    BY <2>1, <2>3, StillStore
  <2> QED BY <2>1, <2>2, <2>3 DEF Starts
<1>5. CASE Select
  <2>1. CInv' /\ UNCHANGED disk /\ phase = "select"
    BY <1>1, <1>5, SelectCInv DEF Select
  <2>2. CASE Finish(FALSE) /\ UNCHANGED started
    BY <2>1, <2>2, FinishStore
  <2>3. CASE /\ started' = IF call.name = "Init" THEN slot ELSE started
             /\ Goto(IF call.name = "Init" THEN "length" ELSE "data")
    <3>1. UNCHANGED <<call, buffer, known, reply>> /\ (UNCHANGED started \/ ~Moving)
      BY <2>3, GotoKeeps DEF Moving
    <3> QED BY <2>1, <3>1, StillStore
  <2> QED BY <1>5, <2>2, <2>3 DEF Select
<1>6. CASE ReadChunk \/ WriteChunk
  <2>1. Inv'
    BY <1>1, <1>6, TransferInv DEF Transfer
  <2> QED BY <1>6, <2>1, ReadStore, WriteStore
<1>7. CASE Deselect
  <2>1. phase = "deselect" /\ Finish(ok) /\ UNCHANGED <<slot, disk, started>>
    BY <1>7 DEF Deselect
  <2>2. /\ started \in Cards /\ slot' \in Cards \cup {None}
        /\ ok /\ Moving => Len(buffer) = call.count
    BY <1>1, <2>1 DEF CInv, CallInv, StartedInv, Moving
  <2>3. CInv'
    BY <1>1, <1>7, <2>1, <2>2, TransferInv, FinishCall DEF CInv, Transfer
  <2> QED BY <2>1, <2>2, <2>3, FinishStore
<1>8. CASE UNCHANGED vars
  <2>1. UNCHANGED <<phase, call, ok, buffer, ready, started, slot, known, reply, disk>>
    BY <1>8 DEF vars, callVars, mgrVars, replyVars, slotVars
  <2>2. Inv'
    BY <1>1, <1>8, NextInv
  <2>3. CInv'
    BY <1>1, <2>1, <2>2 DEF CInv, CallInv, StartedInv, Moving
  <2> QED BY <2>1, <2>3, StillStore
<1> QED BY <1>2, <1>3, <1>4, <1>5, <1>6, <1>7, <1>8 DEF Next, Transfer

\* Whatever cards come and go, and whichever requests fail, the replies of the
\* driver (SDCard.cpp:595-720, FatFS.cpp:34-66) are those of a store of sectors.
THEOREM CardIsStore == Spec => ImplementsStore
<1> DEFINE SInv == StoreInv /\ ok \in BOOLEAN
<1>1. Init => SInv /\ Store!Init
  <2>1. Init => ok \in BOOLEAN
    BY DEF Init
  <2> QED BY <2>1, InitStore
<1>2. SInv /\ [Next]_vars => SInv' /\ [Store!Next]_(Store!vars)
  BY NextStore, OkBoolean DEF Store!vars
<1> QED BY <1>1, <1>2, PTL DEF Spec, ImplementsStore, Store!Spec

-----------------------------------------------------------------------------
(* Types *)

MgrTypes == mounted \in BOOLEAN /\ error \in BOOLEAN /\ ready \in BOOLEAN

SdTypes ==
  /\ fd \in BOOLEAN /\ sdhc \in BOOLEAN
  /\ rca \in {0} \cup {Address(c) : c \in Cards}
  /\ tries \in 0 .. Tries /\ (phase = "condition" => tries # 0)

SlotTypes ==
  /\ mode \in {"idle", "ready", "standby", "selected"}
  /\ busy \in 0 .. MaxBusy /\ accepted \in BOOLEAN

\* Of the manager's variables a call changes what Finish does.
LEMMA NextMgrTypes == ok \in BOOLEAN /\ MgrTypes /\ [Next]_vars => MgrTypes'
<1> SUFFICES ASSUME ok \in BOOLEAN, MgrTypes, [Next]_vars PROVE MgrTypes'
  OBVIOUS
<1>1. ASSUME NEW s \in BOOLEAN, Finish(s) PROVE MgrTypes'
  BY <1>1 DEF Finish, MgrTypes
<1>2. ASSUME NEW p, Goto(p) PROVE MgrTypes'
  BY <1>2 DEF Goto, mgrVars, MgrTypes
<1>3. ASSUME NEW s, Result(s) PROVE MgrTypes'
  BY <1>3 DEF Result, mgrVars, MgrTypes
<1>4. CASE World
  BY <1>4 DEF World, Eject, Insert, Poll, Seen, ErrorForgotten, mgrVars, MgrTypes
<1>5. CASE Calls
  BY <1>5 DEF Calls, StartInit, StartRead, StartWrite, Begin, mgrVars, MgrTypes
<1>6. CASE ResetCard \/ GetStatus \/ Close \/ Open \/ Reopen \/ HostUp
  BY <1>1, <1>2, <1>6 DEF ResetCard, GetStatus, Close, Open, Reopen, HostUp
<1>7. CASE OpCond \/ GetAddress \/ SetUp \/ Select \/ Deselect
  BY <1>1, <1>2, <1>7 DEF OpCond, GetAddress, SetUp, Select, Deselect
<1>8. CASE SetLength
  BY <1>3, <1>8 DEF SetLength
<1>9. ChunkFails => MgrTypes'
  BY <1>3 DEF ChunkFails
<1>10. \A moved : AfterChunk(moved) => MgrTypes'
  BY <1>3 DEF AfterChunk, mgrVars, MgrTypes
<1>11. CASE ReadChunk
  BY <1>9, <1>10, <1>11 DEF ReadChunk
<1>12. CASE WriteChunk
  BY <1>9, <1>10, <1>12 DEF WriteChunk
<1>13. CASE UNCHANGED vars
  BY <1>13 DEF vars, mgrVars, MgrTypes
<1> QED BY <1>4, <1>5, <1>6, <1>7, <1>8, <1>11, <1>12, <1>13 DEF Next, Transfer, Startup

LEMMA NextSdTypes == CInv /\ SdTypes /\ SlotTypes /\ [Next]_vars => SdTypes'
<1> SUFFICES ASSUME CInv, SdTypes, SlotTypes, [Next]_vars PROVE SdTypes'
  OBVIOUS
<1>1. slot # None => Address(slot) \in {Address(c) : c \in Cards}
  BY DEF CInv, StartedInv
<1>10. CountsSectors \in BOOLEAN
  BY DEF CountsSectors
<1>2. CASE World \/ Calls
  BY <1>2 DEF World, Eject, Insert, Poll, ErrorForgotten, Calls, StartInit, StartRead, StartWrite,
              Begin, callVars, sdVars, SdTypes
<1>3. CASE ResetCard
  <2>1. slot \in Accepted => Address(slot) \in {Address(c) : c \in Cards}
    BY <1>1, CardAssumption
  <2> QED BY <1>3, <2>1 DEF ResetCard, Goto, SdTypes
<1>4. CASE GetStatus \/ Close \/ Open \/ Reopen
  <2>1. fd' \in BOOLEAN /\ sdhc' \in BOOLEAN
    BY <1>4, <1>10 DEF GetStatus, Close, Open, Reopen, OpenFails, OpenAgain, SdTypes
  <2>2. UNCHANGED <<rca, tries>> /\ phase' # "condition"
    BY <1>4 DEF GetStatus, Close, Open, Reopen, Goto, Finish
  <2> QED BY <2>1, <2>2 DEF SdTypes
<1>5. CASE HostUp
  <2>1. Tries \in 0 .. Tries /\ Tries # 0
    BY CardAssumption
  <2>2. sdhc' \in BOOLEAN /\ UNCHANGED <<fd, rca>>
    BY <1>5 DEF HostUp, SdTypes
  <2>3. (phase' = "abandon" /\ tries' = tries) \/ tries' = Tries
    BY <1>5 DEF HostUp, Goto
  <2> QED BY <2>1, <2>2, <2>3 DEF SdTypes
<1>6. CASE OpCond
  <2>1. CASE /\ tries' = tries - 1 /\ sdhc' = sdhc
             /\ Goto(IF AnotherRound THEN "condition" ELSE "abandon")
    <3>1. phase = "condition" /\ UNCHANGED <<fd, rca, sdhc>>
      BY <1>6, <2>1 DEF OpCond
    <3>2. tries \in Nat /\ tries # 0 /\ tries <= Tries /\ Tries \in Nat
      BY <3>1, CardAssumption DEF SdTypes
    <3>3. tries - 1 \in 0 .. Tries /\ (phase' = "condition" => tries - 1 # 0)
      BY <2>1, <3>2 DEF Goto, AnotherRound
    <3> QED BY <2>1, <3>1, <3>3 DEF SdTypes
  <2>2. CASE UNCHANGED tries /\ (Goto("abandon") \/ Goto("address"))
    <3>1. sdhc' \in BOOLEAN /\ UNCHANGED <<fd, rca, tries>> /\ phase' # "condition"
      BY <1>6, <1>10, <2>2 DEF OpCond, Goto, SdTypes
    <3> QED BY <3>1 DEF SdTypes
  <2> QED BY <1>6, <2>1, <2>2 DEF OpCond
<1>7. CASE GetAddress
  <2>1. In("ready") => Address(slot) \in {Address(c) : c \in Cards}
    BY <1>1 DEF In
  <2> QED BY <1>7, <2>1 DEF GetAddress, Goto, SdTypes
<1>8. CASE SetUp \/ SetLength \/ Select \/ Deselect \/ ReadChunk \/ WriteChunk
  BY <1>8 DEF SetUp, SetLength, Select, Deselect, ReadChunk, WriteChunk, AfterChunk, ChunkFails,
              Result, Finish, Goto, sdVars, SdTypes
<1>9. CASE UNCHANGED vars
  BY <1>9 DEF vars, callVars, sdVars, SdTypes
<1> QED BY <1>2, <1>3, <1>4, <1>5, <1>6, <1>7, <1>8, <1>9 DEF Next, Transfer, Startup

LEMMA NextSlotTypes == SlotTypes /\ [Next]_vars => SlotTypes'
<1> SUFFICES ASSUME SlotTypes, [Next]_vars PROVE SlotTypes'
  OBVIOUS
<1>1. CASE World \/ Calls
  BY <1>1 DEF World, Eject, Insert, Poll, ErrorForgotten, Calls, StartInit, StartRead, StartWrite,
              Begin, slotVars, SlotTypes
<1>2. CASE OpCond
  BY <1>2, CardAssumption DEF OpCond, SlotTypes
<1>3. CASE Startup /\ ~OpCond
  BY <1>3 DEF Startup, ResetCard, GetStatus, Close, Open, Reopen, HostUp, GetAddress, SetUp,
              SetLength, slotVars, SlotTypes
<1>4. CASE Select \/ Deselect \/ ReadChunk \/ WriteChunk
  BY <1>4 DEF Select, Deselect, ReadChunk, WriteChunk, slotVars, SlotTypes
<1>5. CASE UNCHANGED vars
  BY <1>5 DEF vars, slotVars, SlotTypes
<1> QED BY <1>1, <1>2, <1>3, <1>4, <1>5 DEF Next, Transfer

\* All that holds of the driver whichever requests fail.
TypedInv == StoreInv /\ ok \in BOOLEAN /\ MgrTypes /\ SdTypes /\ SlotTypes

LEMMA TypedInvariant == Spec => []TypedInv
<1>1. Init => TypedInv
  <2>1. Init => MgrTypes /\ SlotTypes /\ ok \in BOOLEAN
    BY DEF Init, MgrTypes, SlotTypes
  <2>2. Init => SdTypes
    <3>1. 0 \in 0 .. Tries
      BY CardAssumption
    <3> QED BY <3>1 DEF Init, SdTypes
  <2> QED BY <2>1, <2>2, InitStore DEF TypedInv
<1>2. TypedInv /\ [Next]_vars => TypedInv'
  <2>1. StoreInv => CInv
    BY DEF StoreInv
  <2> QED BY <2>1, NextStore, OkBoolean, NextMgrTypes, NextSdTypes, NextSlotTypes DEF TypedInv
<1> QED BY <1>1, <1>2, PTL DEF Spec

\* The driver's variables keep their types: no start goes on past the last round of
\* ACMD41, no call moves more sectors than it was asked for (SDCard.cpp:594-720), and what
\* replies say of a sector is what some text or card held.
THEOREM TypeCorrect == Spec => []TypeOK
<1>1. TypedInv => TypeOK
  BY DEF TypedInv, StoreInv, CInv, CallInv, StartedInv, DataTypes, MgrTypes, SdTypes, SlotTypes,
         TypeOK
<1> QED BY <1>1, TypedInvariant, PTL

-----------------------------------------------------------------------------
(* Calls that succeed *)

\* How the driver and the card stand while no request has failed.
Smooth ==
  /\ reply.call = "none" \/ reply.ok
  /\ ~error /\ (phase # "open" => fd) /\ phase \notin {"abandon", "reopen"}
  /\ phase # "idle" \/ mounted \/ ready => slot # None
  /\ (phase = "status" /\ accepted) => mode = "standby" /\ rca = Address(slot)
  /\ phase \in {"open", "host", "condition"} => mode = "idle"
  /\ phase = "condition" => busy < tries
  /\ phase = "address" => mode = "ready"
  /\ phase \in {"setup", "select"} \/ (ready /\ phase = "idle") =>
       mode = "standby" /\ rca = Address(slot)
  /\ phase \in {"length", "data", "deselect"} => mode = "selected" /\ rca = Address(slot)
  /\ phase = "deselect" => ok

QuietInv == faults \in Nat /\ (faults = 0 /\ MaxBusy < Tries => Smooth)

\* A step is one fault or none.
LEMMA OneFault == [Next]_vars => faults' \in {faults, faults + 1}
<1> SUFFICES ASSUME [Next]_vars PROVE faults' \in {faults, faults + 1}
  OBVIOUS
<1>1. CASE World \/ Calls
  BY <1>1 DEF World, Eject, Insert, Poll, ErrorForgotten, Calls, StartInit, StartRead, StartWrite,
              Begin, NoFault, Fault
<1>2. CASE Startup
  BY <1>2 DEF Startup, ResetCard, GetStatus, Close, Open, Reopen, HostUp, OpCond, GetAddress, SetUp,
              SetLength, OpenFails, OpenAgain, Fails, NoFault, Fault
<1>3. CASE Select \/ Deselect \/ ReadChunk \/ WriteChunk
  BY <1>3 DEF Select, Deselect, ReadChunk, WriteChunk, Fails, NoFault, Fault
<1>4. CASE UNCHANGED vars
  BY <1>4 DEF vars
<1> QED BY <1>1, <1>2, <1>3, <1>4 DEF Next, Transfer

\* A command for a chunk names sectors that the card has.
LEMMA TargetsAreSectors ==
  ASSUME CInv, buffer \in Seq(Data), phase = "data", sdhc = (slot \in HighCapacity)
  PROVE  Targets \subseteq Sectors
<1> DEFINE s == call.first + Len(buffer)
<1>1. Targets = s .. s + Chunk - 1
  BY TargetsCounted
<1>2. s \in Nat /\ s + Chunk <= SectorCount /\ Chunk \in Nat \ {0} /\ SectorCount \in Nat
  BY Places
<1> HIDE DEF s
<1> QED BY <1>1, <1>2 DEF Sectors

\* The world does not trouble a card that is there.
LEMMA SmoothWorld ==
  ASSUME TypedInv, Smooth, World, \A f : ~Fault(f)
  PROVE  Smooth'
<1>1. CASE Insert
  BY <1>1 DEF Insert, Smooth, callVars, sdVars, mgrVars, replyVars
<1>2. CASE Poll
  <2>1. UNCHANGED <<callVars, sdVars, replyVars, slotVars>>
    BY <1>2 DEF Poll
  <2>2. UNCHANGED <<phase, ok, fd, rca, tries, reply, slot, mode, busy, accepted>>
    BY <2>1 DEF callVars, sdVars, replyVars, slotVars
  <2>3. ~error' /\ (ready' => ready) /\ (mounted' => slot # None)
    BY <1>2 DEF Poll, Seen, Smooth
  <2> QED BY <2>2, <2>3 DEF Smooth
<1> QED BY <1>1, <1>2 DEF World, Eject, ErrorForgotten

LEMMA SmoothCalls ==
  ASSUME TypedInv, Smooth, Calls
  PROVE  Smooth'
<1>1. /\ phase = "idle" /\ slot # None
      /\ UNCHANGED <<fd, rca, error, mounted, ready, reply, slot, mode, busy, accepted>>
      /\ phase' = "reset" \/ (phase' = "select" /\ ready)
  BY DEF Calls, StartInit, StartRead, StartWrite, Begin, sdVars, mgrVars, replyVars, slotVars,
         Smooth
<1> QED BY <1>1 DEF Smooth

LEMMA SmoothStartup ==
  ASSUME TypedInv, Smooth, MaxBusy < Tries, Startup, \A f : ~Fault(f)
  PROVE  Smooth'
<1>1. phase # "open" => ~Fails /\ fd
  BY DEF Fails, Smooth
<1>2. /\ phase # "idle" /\ slot # None /\ slot' = slot
      /\ call.name = "Init" /\ ~ready
  BY StartupSteps DEF TypedInv, StoreInv, CInv, Inv, StartsOnce, Starting, Smooth
<1>3. ASSUME NEW p, Goto(p)
      PROVE  phase' = p /\ UNCHANGED <<ok, error, mounted, ready, reply>>
  BY <1>3 DEF Goto, mgrVars, replyVars
<1>4. CASE ResetCard
  BY <1>1, <1>2, <1>3, <1>4 DEF ResetCard, Smooth
<1>5. CASE GetStatus
  <2>1. \/ ~accepted /\ Goto("close")
        \/ accepted /\ Goto("setup")
    BY <1>1, <1>2, <1>5 DEF GetStatus
  <2>2. phase = "status" /\ UNCHANGED <<fd, rca, tries, mode, busy, accepted>>
    BY <1>5 DEF GetStatus, slotVars
  <2> QED BY <1>2, <1>3, <2>1, <2>2 DEF Smooth
<1>6. CASE Close
  <2>1. phase = "close"
    BY <1>6 DEF Close, Smooth
  <2>2. Goto("open") /\ mode' = "idle" /\ accepted' = FALSE
    BY <1>6, <2>1 DEF Close
  <2> QED BY <1>2, <1>3, <2>2 DEF Smooth
<1>7. CASE Open
  BY <1>2, <1>3, <1>7 DEF Open, OpenFails, OpenAgain, slotVars, Smooth
<1>8. CASE Reopen
  BY <1>8 DEF Reopen, Smooth
<1>9. CASE HostUp
  <2>1. Goto("condition") /\ tries' = Tries /\ UNCHANGED <<fd, rca, mode, busy, accepted>>
        /\ phase = "host"
    BY <1>1, <1>9 DEF HostUp, slotVars
  <2>2. busy < Tries
    BY CardAssumption DEF TypedInv, SlotTypes
  <2> QED BY <1>2, <1>3, <2>1, <2>2 DEF Smooth
<1>10. CASE OpCond
  <2>1. phase = "condition" /\ In("idle") /\ fd /\ UNCHANGED <<fd, rca>>
    BY <1>1, <1>2, <1>10 DEF OpCond, In, Smooth
  <2>2. CASE busy > 0
    <3>1. busy' = busy - 1 /\ tries' = tries - 1 /\ mode' = mode
          /\ Goto(IF AnotherRound THEN "condition" ELSE "abandon")
      BY <1>1, <1>10, <2>1, <2>2 DEF OpCond
    <3>2. busy \in Nat /\ tries \in Nat /\ busy < tries
      BY <2>1, CardAssumption DEF TypedInv, SlotTypes, SdTypes, Smooth
    <3>3. AnotherRound /\ busy' < tries'
      BY <2>2, <3>1, <3>2 DEF AnotherRound
    <3> QED BY <1>2, <1>3, <2>1, <3>1, <3>3 DEF Smooth
  <2>3. CASE ~(busy > 0)
    <3>1. mode' = "ready" /\ Goto("address")
      BY <1>1, <1>10, <2>1, <2>3 DEF OpCond
    <3> QED BY <1>2, <1>3, <2>1, <3>1 DEF Smooth
  <2> QED BY <2>2, <2>3
<1>11. CASE GetAddress
  <2>1. phase = "address" /\ In("ready")
    BY <1>1, <1>2, <1>11 DEF GetAddress, In, Smooth
  <2>2. rca' = Address(slot) /\ mode' = "standby" /\ Goto("setup") /\ fd' = fd
    BY <1>1, <1>11, <2>1 DEF GetAddress
  <2> QED BY <1>1, <1>2, <1>3, <2>1, <2>2 DEF Smooth
<1>12. CASE SetUp
  <2>1. phase = "setup" /\ Goto("select") /\ UNCHANGED <<fd, rca, mode>>
    BY <1>1, <1>12 DEF SetUp, sdVars, slotVars
  <2> QED BY <1>1, <1>2, <1>3, <2>1 DEF Smooth
<1>13. CASE SetLength
  <2>1. phase = "length" /\ In("selected")
    BY <1>1, <1>2, <1>13 DEF SetLength, In, Smooth
  <2>2. Result(TRUE) /\ UNCHANGED <<fd, rca, mode>>
    BY <1>1, <1>13, <2>1 DEF SetLength, sdVars, slotVars
  <2>3. phase' = "deselect" /\ ok' = TRUE /\ UNCHANGED <<error, mounted, ready, reply>>
    BY <2>2 DEF Result, mgrVars, replyVars
  <2> QED BY <1>1, <1>2, <2>1, <2>2, <2>3 DEF Smooth
<1> QED BY <1>4, <1>5, <1>6, <1>7, <1>8, <1>9, <1>10, <1>11, <1>12, <1>13 DEF Startup

LEMMA SmoothTransfer ==
  ASSUME TypedInv, Smooth, Select \/ ReadChunk \/ WriteChunk \/ Deselect, \A f : ~Fault(f)
  PROVE  Smooth'
<1>1. phase # "open" => ~Fails /\ fd
  BY DEF Fails, Smooth
<1>2. slot' = slot /\ phase \in {"select", "data", "deselect"} /\ slot # None
      /\ UNCHANGED <<fd, rca>>
  BY DEF Select, ReadChunk, WriteChunk, Deselect, slotVars, sdVars, Smooth
<1>3. CASE Select
  <2>1. phase = "select" /\ Answers
    BY <1>1, <1>2, <1>3 DEF Select, Answers, In, Smooth
  <2>2. mode' = "selected" /\ Goto(IF call.name = "Init" THEN "length" ELSE "data")
    BY <1>1, <1>3, <2>1 DEF Select
  <2>3. phase' \in {"length", "data"} /\ UNCHANGED <<error, mounted, ready, reply>>
    BY <2>2 DEF Goto, mgrVars, replyVars
  <2> QED BY <1>1, <1>2, <2>1, <2>2, <2>3 DEF Smooth
<1>4. CASE ReadChunk \/ WriteChunk
  <2>1. phase = "data" /\ mode' = mode
    BY <1>4 DEF ReadChunk, WriteChunk, slotVars
  <2>2. Served
    <3>1. In("selected") /\ sdhc = (slot \in HighCapacity)
      BY <1>1, <1>2, <2>1 DEF In, Smooth, TypedInv, StoreInv, CInv, Inv, Counting, Addressed
    <3>2. CInv /\ buffer \in Seq(Data)
      BY DEF TypedInv, StoreInv, DataTypes
    <3> QED BY <2>1, <3>1, <3>2, TargetsAreSectors DEF Served
  <2>3. PICK moved : AfterChunk(moved)
    BY <1>1, <1>4, <2>1, <2>2 DEF ReadChunk, WriteChunk
  <2>4. /\ phase' = "data" \/ (phase' = "deselect" /\ ok' = TRUE)
        /\ UNCHANGED <<error, mounted, ready, reply>>
    BY <2>1, <2>3 DEF AfterChunk, Result, mgrVars, replyVars
  <2> QED BY <1>1, <1>2, <2>1, <2>4 DEF Smooth
<1>5. CASE Deselect
  <2>1. phase = "deselect" /\ ok = TRUE /\ mode = "selected" /\ rca = Address(slot)
    BY <1>5 DEF Deselect, Smooth, TypedInv
  <2>2. mode' = "standby" /\ Finish(TRUE)
    BY <1>1, <1>5, <2>1 DEF Deselect
  <2>3. phase' = "idle" /\ reply'.ok = TRUE /\ error' = error
    BY <2>2 DEF Finish, TypedInv, MgrTypes
  <2> QED BY <1>1, <1>2, <2>1, <2>2, <2>3 DEF Smooth
<1> QED BY <1>3, <1>4, <1>5

LEMMA QuietStep == TypedInv /\ QuietInv /\ [Next]_vars => QuietInv'
<1> SUFFICES ASSUME TypedInv, QuietInv, [Next]_vars PROVE QuietInv'
  OBVIOUS
<1>1. faults \in Nat /\ faults' \in {faults, faults + 1}
  BY OneFault DEF QuietInv
<1>2. ASSUME faults' = 0, MaxBusy < Tries PROVE Smooth'
  <2>1. Smooth /\ (\A f : ~Fault(f))
    BY <1>1, <1>2 DEF QuietInv, Fault
  <2>2. CASE UNCHANGED vars
    BY <2>1, <2>2 DEF vars, callVars, sdVars, mgrVars, replyVars, slotVars, Smooth
  <2> QED BY <1>2, <2>1, <2>2, SmoothWorld, SmoothCalls, SmoothStartup, SmoothTransfer
             DEF Next, Transfer
<1> QED BY <1>1, <1>2 DEF QuietInv

\* No call fails before a request has failed or a card was taken out, if cards are ready
\* within the rounds the driver gives them: a start (__sd0_initio) leaves the card
\* so that reads and writes are answered, each of these leaves it so for the next, and a
\* volume that the manager takes away meanwhile is started up again from any state of it.
THEOREM FailuresHaveCauses == Spec => []OnlyFaultsFail
<1>1. Init => QuietInv
  BY DEF Init, QuietInv, Smooth
<1>2. QuietInv => OnlyFaultsFail
  BY DEF QuietInv, Smooth, OnlyFaultsFail
<1> QED BY <1>1, <1>2, TypedInvariant, QuietStep, PTL DEF Spec

=============================================================================
