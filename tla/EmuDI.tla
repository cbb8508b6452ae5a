------------------------------- MODULE EmuDI -------------------------------
(***************************************************************************)
(* The emulated disc drive (src/ios/EmuDI/EmuDI.cpp) on its disc image     *)
(* (ISO.cpp), together with the ES proxy that answers for the disc's title *)
(* (EmuES.cpp).                                                            *)
(*                                                                         *)
(* Two threads serve requests, one each for ~dev/di and ~dev/es.  A DI     *)
(* request is one step, but for OpenPartition, which hands the title over  *)
(* to ES in steps that the ES thread may run between.  Word addresses from *)
(* PatchBase on (the top bit of 32) are those of patches, files on the     *)
(* card that replace or add files of the game.                             *)
(*                                                                         *)
(* Left out: the length checks of each command's buffers are one action    *)
(* that refuses it; lengths are multiples of a word; the FIL that          *)
(* OpenPatchFile makes up is a file and a place in it.                     *)
(***************************************************************************)
EXTENDS ISO, EmuES

CONSTANTS
  PatchBase,   \* 0x80000000
  SystemArea,  \* 0x14000, the words that may be read unencrypted
  MaxPatches,  \* the size of DiPatches
  Tables,      \* patch tables: sequences of [start, length, file, from]
  Reads        \* reads: pairs of an address and a length

VARIABLES
  numPatches,  \* DiNumPatches
  patches,     \* DiPatches
  gameStarted,
  halted,      \* the thread has aborted
  opening,     \* where it is in OpenPartition
  reply        \* its last reply: [cmd, result, at, data, lost]; lost is history, the
               \* places of data that the disc or a file failed to give a word for

patchVars == <<numPatches, patches, gameStarted>>
vars == <<isoVars, esVars, patchVars, halted, opening, reply>>

NoPatch == [start |-> 0, length |-> 0, file |-> 0, from |-> 0]

ASSUME PatchAssumption ==
  /\ MaxPatches \in Nat \ {0} /\ PatchBase \in Nat \ {0}
  /\ \A t \in Tables :
       Len(t) \in Nat /\ \A k \in 1 .. Len(t) : t[k].start \in Nat /\ t[k].length \in Nat
  /\ \A r \in Reads : r[1] \in Nat /\ r[2] \in Nat
  /\ \A w \in DOMAIN PartitionAt : PartitionAt[w].title \in Titles
  /\ \A r \in Requests : r.title \in Titles

\* A word of file f on the card.
FileWord(f, n) == <<"file", f, n>>

\* The addresses the reads reach.
Addresses == UNION {r[1] .. r[1] + r[2] - 1 : r \in Reads}

Ready == ~halted /\ opening = "no"

Say(cmd, result, at, data, lost) ==
  reply' = [cmd |-> cmd, result |-> result, at |-> at, data |-> data, lost |-> lost]

SayOnly(cmd, result) == Say(cmd, result, 0, <<>>, {})

Init ==
  /\ ISOInit /\ ESInit
  /\ numPatches = 0 /\ patches = [k \in 0 .. MaxPatches - 1 |-> NoPatch]
  /\ gameStarted = FALSE
  /\ halted = FALSE /\ opening = "no"
  /\ reply = [cmd |-> "none", result |-> "none", at |-> 0, data |-> <<>>, lost |-> {}]

-----------------------------------------------------------------------------
(* Patches *)

End(k) == patches[k].start + patches[k].length

\* What may be left to search: the i patches from the j-th on.
Spans == {x \in (0 .. numPatches) \X (0 .. numPatches) : x[1] + x[2] <= numPatches}

M_SearchPatch(off) ==
  LET from[x \in Spans] ==
        LET j == x[1]  i == x[2]  k == j + (i \div 2)
        IN  IF i = 0 THEN numPatches
            ELSE IF patches[k].start <= off /\ off <= End(k) THEN k
            ELSE IF off > patches[k].start THEN from[<<k + 1, (i - 1) \div 2>>]
            ELSE from[<<j, i \div 2>>]
  IN  from[<<0, numPatches>>]

\* Binary search for the patch at an address; numPatches if there is none.
SearchPatch(off) ==
  LET from[x \in Spans] ==
        LET j == x[1]  i == x[2]  k == j + (i \div 2)
        IN  IF i = 0 THEN numPatches
            ELSE IF patches[k].start = off THEN k
            ELSE IF off > patches[k].start /\ End(k) > off THEN k
            ELSE IF off > patches[k].start THEN from[<<k + 1, (i - 1) \div 2>>]
            ELSE from[<<j, i \div 2>>]
  IN  from[<<0, numPatches>>]

\* The loop goes from one patch to the next one in the table; it leaves the first
\* one for an address that the next does not start at.
MeetsGap(first, off, len) ==
  \E k \in first + 1 .. numPatches - 1 :
    End(k - 1) < off + len /\ patches[k].start # End(k - 1)

\* A read that does not start where the patch does seeks first.
Seeks(first, off) == first < numPatches /\ patches[first].start # off

\* DiNumPatches is past the end of DiPatches.
Stray == numPatches > MaxPatches

M_PatchedWord(first, off, u, failed) ==
  LET at == {k \in first .. numPatches - 1 : patches[k].start <= u /\ u < End(k)}
  IN  IF at = {} THEN Zero
      ELSE LET k == CHOOSE k \in at : TRUE
           IN  IF k \in failed THEN Zero
               ELSE IF k = first /\ Seeks(first, off)
                    THEN FileWord(patches[k].file, u - off)
                    ELSE FileWord(patches[k].file, patches[k].from + u - patches[k].start)

\* The word at address u of a read that starts at off, if the reads of the patches
\* in failed fail: zero, or from the place of the file the FIL is at.
PatchedWord(first, off, u, failed) ==
  LET at == {k \in first .. numPatches - 1 : patches[k].start <= u /\ u < End(k)}
  IN  IF at = {} THEN Zero
      ELSE LET k == CHOOSE k \in at : TRUE
           IN  IF k \in failed THEN Zero
               ELSE IF k = first /\ Seeks(first, off)
                    THEN FileWord(patches[k].file, u - patches[k].start)
                    ELSE FileWord(patches[k].file, patches[k].from + u - patches[k].start)

\* The places of such a read whose word is in one of the patches in failed.
LostPlaces(first, off, len, failed) ==
  {i \in 0 .. len - 1 :
     \E k \in (first .. numPatches - 1) \cap failed :
       patches[k].start <= off + i /\ off + i < End(k)}

\* The patches whose files cannot be read.
FailedPatches ==
  IF ~inserted THEN {0 .. numPatches - 1}
  ELSE IF "patch" \in Faults THEN SUBSET (0 .. numPatches - 1)
  ELSE {{}}

-----------------------------------------------------------------------------
(* Read *)

\* Neither end is an address of patches: the disc.
ReadDisc(off, len) ==
  /\ off < PatchBase /\ off + len - 1 < PatchBase
  /\ \/ /\ PartitionReadOK(off, len)
        /\ Say("Read", "OK", off, [i \in 0 .. len - 1 |-> ReadWord(off, len, i)], {})
     \/ /\ PartitionReadFails(off, len) /\ UNCHANGED <<inserted, openVars>>
        /\ SayOnly("Read", "Drive")
  /\ UNCHANGED halted

\* A read that starts on the disc and goes on into the patches, which gave the words
\* in patch: zeros for a disc part that fails.
AnswerBoth(off, len, patch) ==
  LET n == PatchBase - off
      Data(disc) == [i \in 0 .. len - 1 |-> IF i < n THEN disc[i] ELSE patch[i]]
  IN  \/ /\ PartitionReadOK(off, n)
         /\ Say("Read", "OK", off, Data([i \in 0 .. n - 1 |-> ReadWord(off, n, i)]), {})
      \/ /\ PartitionReadFails(off, n) /\ UNCHANGED <<inserted, openVars>>
         /\ Say("Read", "OK", off, Data([i \in 0 .. n - 1 |-> Zero]), 0 .. n - 1)

\* Both.  The patches are looked up at the address the read started at, which only
\* outbuf and length have moved on from.
ReadBoth(off, len) ==
  LET n == PatchBase - off
  IN  /\ off < PatchBase /\ off + len - 1 >= PatchBase
      /\ AnswerBoth(off, len,
                    [i \in n .. len - 1 |->
                       PatchedWord(SearchPatch(off), off, off + i - n, {})])
      /\ UNCHANGED halted

\* Patches only, with zeros for what fails and for what no patch has.
ReadPatches(off, len) ==
  LET first == SearchPatch(off)
  IN  /\ off >= PatchBase /\ len > 0
      /\ ~MeetsGap(first, off, len)
      /\ Seeks(first, off) => inserted
      /\ \E failed \in FailedPatches :
           Say("Read", "OK", off,
               [i \in 0 .. len - 1 |-> PatchedWord(first, off, off + i, failed)],
               LostPlaces(first, off, len, failed))
      /\ UNCHANGED <<isoVars, halted>>

\* A seek that fails aborts the thread: to the address of a gap, or on the card.
ReadAborts(off, len) ==
  LET first == SearchPatch(off)
  IN  /\ off >= PatchBase /\ len > 0
      /\ \/ MeetsGap(first, off, len)
         \/ Seeks(first, off) /\ \E failed \in FailedPatches : first \in failed
      /\ halted' = TRUE
      /\ UNCHANGED <<isoVars, reply>>

\* With a search past the end of DiPatches, anything for the patches: words, or a failed
\* seek.
ReadStray(off, len) ==
  LET garbage == [i \in 0 .. len - 1 |-> Unwritten]
  IN  /\ off + len > PatchBase
      /\ \/ /\ off >= PatchBase /\ UNCHANGED isoVars
            /\ \/ Say("Read", "OK", off, garbage, {}) /\ UNCHANGED halted
               \/ halted' = TRUE /\ UNCHANGED reply
         \/ /\ off < PatchBase
            /\ \/ AnswerBoth(off, len, garbage) /\ UNCHANGED halted
               \/ /\ halted' = TRUE /\ UNCHANGED reply
                  /\ \/ PartitionReadOK(off, PatchBase - off)
                     \/ /\ PartitionReadFails(off, PatchBase - off)
                        /\ UNCHANGED <<inserted, openVars>>

Read ==
  /\ Ready
  /\ \E r \in Reads :
       \/ ReadDisc(r[1], r[2])
       \/ ~Stray /\ (ReadBoth(r[1], r[2]) \/ ReadPatches(r[1], r[2]) \/ ReadAborts(r[1], r[2]))
       \/ Stray /\ ReadStray(r[1], r[2])
  /\ UNCHANGED <<esVars, patchVars, opening>>

-----------------------------------------------------------------------------
(* The commands of the proxy *)

\* PATCHDVD.  A table that DiPatches has no room for is refused when its length
\* was taken over already.
PatchDVD ==
  /\ Ready /\ ~gameStarted
  /\ \E t \in Tables :
       /\ t # <<>>
       /\ numPatches' = Len(t)
       /\ IF Len(t) > MaxPatches
          THEN SayOnly("PatchDVD", "NoMemory") /\ UNCHANGED patches
          ELSE /\ SayOnly("PatchDVD", "OK")
               /\ patches' = [k \in DOMAIN patches |->
                                IF k < Len(t) THEN t[k + 1] ELSE patches[k]]
  /\ UNCHANGED <<isoVars, esVars, gameStarted, halted, opening>>

StartGame ==
  /\ Ready /\ ~gameStarted
  /\ gameStarted' = TRUE
  /\ SayOnly("StartGame", "OK")
  /\ UNCHANGED <<isoVars, esVars, numPatches, patches, halted, opening>>

-----------------------------------------------------------------------------
(* The other commands of the drive *)

\* Buffers and vectors of the wrong length, commands that are not known, and the
\* proxy's commands once the game has started.
Refused ==
  /\ Ready
  /\ SayOnly("other", "Security")
  /\ UNCHANGED <<isoVars, esVars, patchVars, halted, opening>>

\* Reset, ClearCoverInterrupt, Inquiry, the registers and the BCA; the cover is
\* said to be closed while there is a card.
Registers ==
  /\ Ready
  /\ SayOnly("cover", IF inserted THEN "OK" ELSE "Open")
  /\ UNCHANGED <<isoVars, esVars, patchVars, halted, opening>>

\* The buffer may be too short for the id that was read.
ReadDiskID ==
  /\ Ready
  /\ \/ DiskIDOK /\ \E result \in {"OK", "Security"} : SayOnly("ReadDiskID", result)
     \/ DiskIDFails /\ SayOnly("ReadDiskID", "Drive")
  /\ UNCHANGED <<esVars, patchVars, halted, opening>>

UnencryptedRead(off, len) ==
  \/ /\ off + len > SystemArea  \* what looks for a modchip gets a disc error
     /\ UNCHANGED isoVars
     /\ \E result \in {"Security", "Drive"} : SayOnly("UnencryptedRead", result)
  \/ /\ off + len <= SystemArea /\ RawOK(off, len)
     /\ UNCHANGED isoVars
     /\ Say("UnencryptedRead", "OK", off, [i \in 0 .. len - 1 |-> RawWord(off, len, i)], {})
  \/ /\ off + len <= SystemArea /\ RawFails(off, len)
     /\ UNCHANGED <<inserted, openVars, cacheVars>>
     /\ SayOnly("UnencryptedRead", "Drive")

ReadRawWords ==
  /\ Ready
  /\ \E r \in Reads : r[1] < PatchBase /\ UnencryptedRead(r[1], r[2])
  /\ UNCHANGED <<esVars, patchVars, halted, opening>>

-----------------------------------------------------------------------------
(* OpenPartition *)

OpenFails ==
  /\ Ready
  /\ \/ ~Openable /\ SayOnly("OpenPartition", "Invalid") /\ UNCHANGED isoVars
     \/ \E w \in DOMAIN PartitionAt, result \in {"Drive", "Security"} :
          HeadFails(w, result) /\ SayOnly("OpenPartition", result)
  /\ UNCHANGED <<esVars, patchVars, halted, opening>>

OpenHead ==
  /\ Ready
  /\ \E w \in DOMAIN PartitionAt : HeadOK(w)
  /\ opening' = "title"
  /\ UNCHANGED <<esVars, patchVars, halted, reply>>

Title == PartitionAt[partitionOffset].title

M_OpenVerify ==
  /\ \/ opening = "title" /\ opening' = "ticket" /\ VerifyDone
     \/ opening = "ticket" /\ opening' = "flag" /\ VerifyTitle(Title)
     \/ opening = "flag" /\ opening' = "key" /\ VerifyTicket(Title)
  /\ UNCHANGED <<isoVars, patchVars, halted, reply>>

\* DIVerify: the title, the ticket, and last that they count.
OpenVerify ==
  /\ \/ opening = "title" /\ opening' = "ticket" /\ VerifyTitle(Title)
     \/ opening = "ticket" /\ opening' = "flag" /\ VerifyTicket(Title)
     \/ opening = "flag" /\ opening' = "key" /\ VerifyDone
  /\ UNCHANGED <<isoVars, patchVars, halted, reply>>

OpenDone ==
  /\ opening = "key" /\ opening' = "no"
  /\ PartitionOpens
  /\ SayOnly("OpenPartition", "OK")
  /\ UNCHANGED <<esVars, patchVars, halted>>

-----------------------------------------------------------------------------
ESThread == IPCRequest /\ UNCHANGED <<isoVars, patchVars, halted, opening, reply>>

Card == CardMoves /\ UNCHANGED <<esVars, patchVars, halted, opening, reply>>

DIThread ==
  \/ Read \/ ReadRawWords \/ PatchDVD \/ StartGame \/ Refused \/ Registers
  \/ ReadDiskID \/ OpenFails \/ OpenHead \/ OpenVerify \/ OpenDone

Next == DIThread \/ ESThread \/ Card

Spec == Init /\ [][Next]_vars

-----------------------------------------------------------------------------
(* Properties *)

Results == {"none", "OK", "Drive", "Security", "Invalid", "NoMemory", "Open"}

\* The variables have their types, but for the words of a buffer.
TypeOK ==
  /\ fil \in [Parts -> {"ok", "err"}]
  /\ inserted \in BOOLEAN /\ readDiskIDCalled \in BOOLEAN /\ partitionOpened \in BOOLEAN
  /\ partitionOffset \in DOMAIN PartitionAt
  /\ lastReadBlock \in Nat \cup {NoBlock} /\ DOMAIN decrypted = 0 .. DataSize - 1
  /\ numPatches \in Nat /\ DOMAIN patches = 0 .. MaxPatches - 1
  /\ gameStarted \in BOOLEAN /\ halted \in BOOLEAN
  /\ opening \in {"no", "title", "ticket", "flag", "key"}
  /\ reply.result \in Results
  /\ titleID \in Titles \cup {NoTitle} /\ ticket \in Titles \cup {NoTitle}
  /\ useTitleCtx \in BOOLEAN

\* The patches are in order and do not overlap.
Sorted(n) ==
  \A j, k \in 0 .. n - 1 : j < k => End(j) <= patches[k].start

\* "Assuming patches are valid" (EmuDI.cpp:416): the tables list what was added to the
\* disc in the order of its addresses, without overlaps.
ValidTables ==
  \A t \in Tables : \A k \in 1 .. Len(t) :
    /\ PatchBase <= t[k].start
    /\ \A j \in 1 .. k - 1 : t[j].start + t[j].length <= t[k].start

\* The patches an address starts or lies in.
PatchesAt(u) ==
  {k \in 0 .. numPatches - 1 :
     patches[k].start = u \/ (u > patches[k].start /\ End(k) > u)}

\* The loop of SearchPatch (EmuDI.cpp:278) with its two kinds of step finds a patch
\* that the address lies in or starts, and none in a gap, in every table that was
\* taken.
SearchFindsThePatch ==
  ~Stray /\ Sorted(numPatches) =>
    \A u \in Addresses :
      SearchPatch(u) \in IF PatchesAt(u) = {} THEN {numPatches} ELSE PatchesAt(u)

\* Whatever point of OpenPartition the ES thread comes in at: once ES answers for
\* the disc (DIVerify, EmuES.cpp:23-33) it does so with the title and the ticket
\* of the partition that is open or about to be, an open partition has ES answer
\* for it, and no game is told a title that is none.
TitleIsTheDiscs ==
  /\ useTitleCtx => titleID = Title /\ ticket = Title
  /\ partitionOpened => useTitleCtx
  /\ esReply.result = "OK" => esReply.about # NoTitle

\* The data of block b.
DataOf(b) == [i \in 0 .. DataSize - 1 |-> Word(b + HeaderSize + i)]

\* "Offset of the block in m_dataBlockDecrypted" (ISO.hpp:63): the block kept is
\* the one its offset says.
CacheHoldsItsBlock == lastReadBlock = NoBlock \/ decrypted = DataOf(lastReadBlock)

\* The word of the open partition at an address.
DiscWord(u) ==
  Word(DataStart + (u \div DataSize) * BlockSize + HeaderSize + (u % DataSize))

\* The word a game should find at an address: the patch's, zero where there is
\* none, or the partition's.
ContentAt(u) ==
  LET at == {k \in 0 .. LeastOf(numPatches, MaxPatches) - 1 :
               patches[k].start <= u /\ u < End(k)}
      PatchWord(k) == FileWord(patches[k].file, patches[k].from + u - patches[k].start)
  IN  IF u < PatchBase THEN DiscWord(u)
      ELSE IF at = {} THEN Zero ELSE PatchWord(CHOOSE k \in at : TRUE)

Content == [u \in Addresses |-> ContentAt(u)]

\* Where a partition is read without an error and the block kept is the right one,
\* the words of blocks, of their ends and of the block kept come out in order
\* (ReadFromPartition, ISO.cpp:155), whatever failed before.
ReadsComeOutRight ==
  [][\A r \in Reads :
       reply'.result = "OK" /\ CacheHoldsItsBlock /\ ReadDisc(r[1], r[2]) =>
         reply'.data = [i \in 0 .. r[2] - 1 |-> DiscWord(r[1] + i)]]_vars

\* The addresses the drive has lost hold of: those of a block whose raw read failed when
\* m_lastReadBlock said it was kept (ISO.cpp:146), and the patches while DiNumPatches is
\* past the end of DiPatches (EmuDI.cpp:425).
StaleAt(u) ==
  \/ u < PatchBase /\ ~CacheHoldsItsBlock /\ lastReadBlock = BlockAt(u, 0)
  \/ u >= PatchBase /\ Stray

StaleAddresses == {u \in Addresses : StaleAt(u)}

\* The places of a reply r to a read where the code is known to miss the word of a patch
\* though nothing fails.  A read that comes from the disc looks for its patches below all
\* of them (EmuDI.cpp:337); one that starts in a gap finds no patch and stops there
\* (339); and one that starts inside of a patch seeks in the patch's file from the
\* file's start, not from where the patch does (349).
MissesTheTail(r, i) == r.at < PatchBase /\ r.at + i >= PatchBase

StartsInAGap(r) == r.at >= PatchBase /\ PatchesAt(r.at) = {}

SeeksFromTheStart(r, i) ==
  \E k \in PatchesAt(r.at) :
    patches[k].start # r.at /\ r.at + i < End(k) /\ patches[k].from # 0

Missed(r, i) ==
  /\ r.cmd = "Read" /\ i \notin r.lost
  /\ MissesTheTail(r, i) \/ (~Stray /\ (StartsInAGap(r) \/ SeeksFromTheStart(r, i)))

\* The reply r with those words put right, and of a thread that aborted none.
Mended(r) ==
  [cmd |-> r.cmd, result |-> IF halted THEN "none" ELSE r.result, at |-> r.at,
   data |-> [i \in DOMAIN r.data |-> IF Missed(r, i) THEN ContentAt(r.at + i) ELSE r.data[i]],
   lost |-> r.lost]

\* But for the words it is known to miss, the drive is the disc a game was promised
\* (VirtualDisc), across failing reads, a card that goes, tables of patches and the ES
\* thread.
Disc ==
  INSTANCE VirtualDisc WITH
    idRead <- readDiskIDCalled, opened <- partitionOpened, started <- gameStarted,
    content <- Content, stale <- StaleAddresses, reply <- Mended(reply),
    PatchBase <- PatchBase, Zero <- Zero

ImplementsDisc == Disc!Spec

-----------------------------------------------------------------------------
(* What the code's comments say, and the code does not keep.                 *)

\* "Part DVD read, part SD read" (EmuDI.cpp:325): a read that starts on the disc, in which
\* nothing failed, gives from PatchBase on the words of the patches.
MixedReadsReachThePatches ==
  reply.cmd = "Read" /\ reply.result = "OK" /\ reply.lost = {} /\ ~Stray =>
    \A i \in DOMAIN reply.data :
      MissesTheTail(reply, i) => reply.data[i] = ContentAt(reply.at + i)

=============================================================================
