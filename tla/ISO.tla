-------------------------------- MODULE ISO --------------------------------
(***************************************************************************)
(* The disc image of the emulated drive (src/ios/EmuDI/ISO.cpp).           *)
(*                                                                         *)
(* The image is two files on the card, each through a FIL of its own that  *)
(* stays open for good.  A partition is read in blocks of a header and     *)
(* data; the last block is kept decrypted.  Offsets and lengths are in     *)
(* words, and the words of the image are told apart by their offset in it. *)
(* Deciphering is left out: a block's data is right if its words are.      *)
(*                                                                         *)
(* External: a FIL of FatFS.  A disk error stays in the FIL and fails every *)
(* later call on it (ABORT in ff.c); so does a volume that is unmounted.   *)
(*                                                                         *)
(* The operators are the pieces EmuDI builds its actions from.  One named  *)
(* M_... is a variant with a plausible mistake of the one that follows it  *)
(* (README.md).                                                            *)
(***************************************************************************)
EXTENDS Integers

CONSTANTS
  PartSize, LastPartSize,  \* words in the two files
  BlockSize, HeaderSize,   \* words in a block, and in its header
  ReadAlign,               \* 32 bytes
  DiskIDSize, HeadSize,    \* words of DI::DiskID and DI::Partition
  PartitionAt,             \* the DI::Partition read at an offset
  NoBlock,                 \* an offset no block has
  Faults                   \* a subset of {"io", "card", "patch"}

\* The image was split into files of one size but for the last one.
ASSUME ImageAssumption ==
  /\ PartSize \in Nat \ {0} /\ LastPartSize \in 1 .. PartSize
  /\ BlockSize \in Nat \ {0} /\ HeaderSize \in 0 .. BlockSize - 1
  /\ ReadAlign \in Nat \ {0}
  /\ DiskIDSize \in Nat \ {0} /\ HeadSize \in Nat \ {0}
  /\ DOMAIN PartitionAt \subseteq Nat
  /\ \A w \in DOMAIN PartitionAt : PartitionAt[w].dataOffset \in Nat
  /\ NoBlock \notin Nat

DataSize == BlockSize - HeaderSize
Parts == 0 .. 1

VARIABLES
  fil,               \* of each file: "ok", or "err" for good
  inserted,          \* DeviceMgr says there is a card, and it is mounted
  readDiskIDCalled,
  partitionOpened,
  partitionOffset,   \* m_partitionOffset, and with it m_partition
  lastReadBlock,     \* m_lastReadBlock
  decrypted          \* m_dataBlockDecrypted

cacheVars == <<lastReadBlock, decrypted>>
openVars == <<readDiskIDCalled, partitionOpened, partitionOffset>>
isoVars == <<fil, inserted, openVars, cacheVars>>

\* A word of the image, a word of a buffer nothing was written to, and zero.
Word(u) == <<"image", 0, u>>
Unwritten == <<"unwritten", 0, 0>>
Zero == <<"zero", 0, 0>>

-----------------------------------------------------------------------------
(* ReadRaw *)

PartOf(u) == u \div PartSize

\* The checks.  partOffset is an offset in the part the read starts in, also
\* where it is compared with the size of the last part.
Accepted(off, len) ==
  /\ len > 0 /\ PartOf(off + len - 1) \in Parts
  /\ PartOf(off + len - 1) = 1 => (off % PartSize) + len < LastPartSize

\* The word that ends up at place i of the buffer.  Every part is read to the
\* start of the buffer.
RawWord(off, len, i) ==
  LET first == PartSize - (off % PartSize)  \* words in the first part
  IN  IF len <= first THEN Word(off + i)
      ELSE IF i < len - first THEN Word(off + first + i)
      ELSE IF i < first THEN Word(off + i)
      ELSE Unwritten

PartsRead(off, len) == PartOf(off) .. PartOf(off + len - 1)

RawOK(off, len) == Accepted(off, len) /\ \A p \in PartsRead(off, len) : fil[p] = "ok"

\* ReadRaw returns false: refused, on a broken FIL, or with a disk error now.
RawFails(off, len) ==
  \/ ~RawOK(off, len) /\ UNCHANGED fil
  \/ /\ "io" \in Faults /\ RawOK(off, len)
     /\ \E p \in PartsRead(off, len) : fil' = [fil EXCEPT ![p] = "err"]

-----------------------------------------------------------------------------
(* ReadFromPartition *)

DataStart == partitionOffset + PartitionAt[partitionOffset].dataOffset

LeastOf(a, b) == IF a < b THEN a ELSE b

\* What the first block gives if the read does not start at one's start.
FirstLen(off, len) ==
  IF off % DataSize = 0 THEN 0 ELSE LeastOf(len, DataSize - (off % DataSize))

M_BlockAt(off, k) == DataStart + (off \div DataSize) * BlockSize + k * DataSize

\* The k-th block of the read, from 0: the first one, full ones and the last.
BlockAt(off, k) == DataStart + (off \div DataSize) * BlockSize + k * BlockSize

BlockCount(off, len) ==
  LET rest == len - FirstLen(off, len)
  IN  (IF FirstLen(off, len) > 0 THEN 1 ELSE 0)
        + (rest \div DataSize) + (IF rest % DataSize > 0 THEN 1 ELSE 0)

M_Plain(b) == [i \in 0 .. BlockSize - 1 |-> RawWord(b, BlockSize, i)]

\* The data of block b as ReadAndDecryptBlock leaves it.
Plain(b) == [i \in 0 .. DataSize - 1 |-> RawWord(b, BlockSize, HeaderSize + i)]

\* Only the first block of a read can be the one kept.
Kept(off, k) == k = 0 /\ lastReadBlock = BlockAt(off, 0)
Block(off, k) == IF Kept(off, k) THEN decrypted ELSE Plain(BlockAt(off, k))

\* Word i of the output buffer.
ReadWord(off, len, i) ==
  LET head == FirstLen(off, len)
      k == ((i - head) \div DataSize) + (IF head > 0 THEN 1 ELSE 0)
  IN  IF i < head THEN Block(off, 0)[(off % DataSize) + i]
      ELSE Block(off, k)[(i - head) % DataSize]

Readable(len) == partitionOpened /\ len % ReadAlign = 0

\* The k-th block needs no raw read, or can be read.
BlockOK(off, k) == Kept(off, k) \/ RawOK(BlockAt(off, k), BlockSize)

PartitionReadOK(off, len) ==
  /\ Readable(len)
  /\ \A k \in 0 .. BlockCount(off, len) - 1 : BlockOK(off, k)
  /\ IF len = 0 THEN UNCHANGED cacheVars
     ELSE LET k == BlockCount(off, len) - 1
          IN  lastReadBlock' = BlockAt(off, k) /\ decrypted' = Block(off, k)
  /\ UNCHANGED <<fil, inserted, openVars>>

\* The read fails at its k-th block, whose offset m_lastReadBlock has already.
PartitionReadFails(off, len) ==
  \/ ~Readable(len) /\ UNCHANGED <<fil, cacheVars>>
  \/ /\ Readable(len)
     /\ \E k \in 0 .. BlockCount(off, len) - 1 :
          /\ \A j \in 0 .. k - 1 : BlockOK(off, j)
          /\ ~Kept(off, k) /\ RawFails(BlockAt(off, k), BlockSize)
          /\ lastReadBlock' = BlockAt(off, k)
          /\ decrypted' = IF k = 0 THEN decrypted ELSE Block(off, k - 1)

-----------------------------------------------------------------------------
(* ReadDiskID, OpenPartition and the card. *)

ISOInit ==
  /\ fil = [p \in Parts |-> "ok"] /\ inserted = TRUE
  /\ readDiskIDCalled = FALSE /\ partitionOpened = FALSE
  /\ partitionOffset \in DOMAIN PartitionAt  \* not set by the constructor
  /\ lastReadBlock = NoBlock
  /\ decrypted = [i \in 0 .. DataSize - 1 |-> Unwritten]

DiskIDOK ==
  /\ RawOK(0, DiskIDSize)
  /\ readDiskIDCalled' = TRUE
  /\ UNCHANGED <<fil, inserted, partitionOpened, partitionOffset, cacheVars>>

DiskIDFails ==
  /\ RawFails(0, DiskIDSize)
  /\ UNCHANGED <<inserted, openVars, cacheVars>>

Openable == readDiskIDCalled /\ ~partitionOpened

\* ReadTMD's checks of m_partition.
TMDValid(w) == PartitionAt[w].tmdSizeOK /\ PartitionAt[w].tmdOffset # 0

\* The header and the metadata of the partition at w are read; the ticket is the
\* next thing to look at.
HeadOK(w) ==
  /\ Openable
  /\ RawOK(w, HeadSize)
  /\ TMDValid(w) /\ RawOK(w + PartitionAt[w].tmdOffset, PartitionAt[w].tmdLength)
  /\ partitionOffset' = w
  /\ UNCHANGED <<fil, inserted, readDiskIDCalled, partitionOpened, cacheVars>>

\* They are not, with the result the drive answers with.
HeadFails(w, result) ==
  /\ Openable
  /\ partitionOffset' = w
  /\ \/ result = "Drive" /\ RawFails(w, HeadSize)
     \/ result = "Security" /\ RawOK(w, HeadSize) /\ ~TMDValid(w) /\ UNCHANGED fil
     \/ /\ result = "Drive" /\ RawOK(w, HeadSize) /\ TMDValid(w)
        /\ RawFails(w + PartitionAt[w].tmdOffset, PartitionAt[w].tmdLength)
  /\ UNCHANGED <<inserted, readDiskIDCalled, partitionOpened, cacheVars>>

\* m_titleKey is set: the partition is open, and nothing closes it.
PartitionOpens ==
  /\ partitionOpened' = TRUE
  /\ UNCHANGED <<fil, inserted, readDiskIDCalled, partitionOffset, cacheVars>>

\* The card goes: its volume is unmounted, and a later one is another volume to
\* the two FILs.
CardMoves ==
  /\ "card" \in Faults
  /\ inserted' = ~inserted
  /\ fil' = [p \in Parts |-> "err"]
  /\ UNCHANGED <<openVars, cacheVars>>

=============================================================================
