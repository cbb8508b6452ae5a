---------------------------- MODULE EmuDIProofs ----------------------------
(***************************************************************************)
(* Theorems about the emulated disc, for every image, every table of       *)
(* patches and every set of reads.                                         *)
(***************************************************************************)
EXTENDS EmuDI, Numbers, TLAPS

\* The quotient of a division is the number whose multiple is next below.
LEMMA Quotient ==
  ASSUME NEW d \in Nat \ {0}, NEW a \in Nat
  PROVE  /\ a \div d \in Nat /\ a % d \in 0 .. d - 1
         /\ a = d * (a \div d) + (a % d)
  OBVIOUS

\* ReadRaw (ISO.cpp:101-112) takes no read that reaches from the first file into the
\* second, however the two are sized: the loop that would read the second part over
\* the first one (129) comes to no second round.
THEOREM AcceptedReadsLieInOnePart ==
  ASSUME NEW off \in Nat, NEW len \in Nat, Accepted(off, len)
  PROVE  PartOf(off) = PartOf(off + len - 1)
<1> DEFINE P == PartSize  last == off + len - 1
<1>1. P \in Nat \ {0} /\ LastPartSize \in 1 .. P /\ last \in Nat
  BY ImageAssumption DEF Accepted
<1>2. off = P * (off \div P) + (off % P) /\ off % P \in 0 .. P - 1 /\ off \div P \in Nat
  BY <1>1, Quotient
<1>3. last = P * (last \div P) + (last % P) /\ last % P \in 0 .. P - 1 /\ last \div P \in Nat
  BY <1>1, Quotient
<1>4. off \div P <= last \div P
  BY <1>1, <1>2, <1>3 DEF Accepted
<1>5. CASE last \div P = 0
  BY <1>2, <1>4, <1>5 DEF PartOf
<1>6. CASE last \div P = 1
  <2>1. (off % P) + len < P
    BY <1>1, <1>2, <1>6 DEF Accepted, PartOf
  <2>2. off \div P # 0
    BY <2>1, <1>1, <1>2, <1>3, <1>6
  <2> QED
    BY <2>2, <1>2, <1>4, <1>6 DEF PartOf
<1> QED
  BY <1>5, <1>6, <1>3 DEF Accepted, PartOf, Parts

\* So what an accepted read leaves in its buffer is what was asked for.
THEOREM AcceptedReadsAreRight ==
  ASSUME NEW off \in Nat, NEW len \in Nat, Accepted(off, len),
         NEW i \in 0 .. len - 1
  PROVE  RawWord(off, len, i) = Word(off + i)
<1> DEFINE P == PartSize  last == off + len - 1
<1>0. PartOf(off) = PartOf(off + len - 1)
  BY AcceptedReadsLieInOnePart
<1>1. P \in Nat \ {0} /\ last \in Nat /\ off \div P = last \div P
  BY <1>0, ImageAssumption DEF Accepted, PartOf
<1>2. off = P * (off \div P) + (off % P) /\ off % P \in 0 .. P - 1 /\ off \div P \in Nat
  BY <1>1, Quotient
<1>3. last = P * (last \div P) + (last % P) /\ last % P \in 0 .. P - 1
  BY <1>1, Quotient
<1>4. len <= P - (off % P)
  BY <1>1, <1>2, <1>3
<1> QED
  BY <1>4 DEF RawWord

-----------------------------------------------------------------------------
(* ReadFromPartition *)

\* One decomposition of a number into multiples of d and a rest is as good as
\* another.
LEMMA QuotientIsUnique ==
  ASSUME NEW d \in Nat \ {0}, NEW q \in Nat, NEW r \in 0 .. d - 1
  PROVE  (d * q + r) \div d = q /\ (d * q + r) % d = r
  OBVIOUS

\* A number below another one is in one of the blocks the other is cut into.
LEMMA InOneOfTheBlocks ==
  ASSUME NEW d \in Nat \ {0}, NEW n \in Nat, NEW x \in 0 .. n - 1
  PROVE  x \div d < (n \div d) + (IF n % d > 0 THEN 1 ELSE 0)
<1> DEFINE p == x \div d  q == n \div d
<1>0. x \in Nat
  OBVIOUS
<1>1. x = d * p + (x % d) /\ p \in Nat /\ x % d \in 0 .. d - 1
  BY <1>0, Quotient
<1>2. n = d * q + (n % d) /\ q \in Nat /\ n % d \in 0 .. d - 1
  BY Quotient
<1> HIDE DEF p, q
<1>3. d * p < d * (q + 1)
  BY <1>1, <1>2
<1>4. p < q + 1
  BY <1>1, <1>2, <1>3
<1>5. CASE n % d > 0
  BY <1>4, <1>5 DEF p, q
<1>6. CASE n % d = 0
  <2>1. d * p < d * q
    BY <1>1, <1>2, <1>6
  <2> QED
    BY <1>1, <1>2, <1>6, <2>1 DEF p, q
<1> QED
  BY <1>2, <1>5, <1>6

LEMMA Sizes ==
  ASSUME TypeOK
  PROVE  /\ DataSize \in Nat \ {0} /\ BlockSize \in Nat /\ HeaderSize \in Nat
         /\ BlockSize = HeaderSize + DataSize
         /\ DataStart \in Nat
  BY ImageAssumption DEF TypeOK, DataSize, DataStart

LEMMA BlockAtIsNat ==
  ASSUME TypeOK, NEW off \in Nat, NEW k \in Nat
  PROVE  BlockAt(off, k) \in Nat
<1>1. off \div DataSize \in Nat
  BY Sizes, Quotient
<1> QED
  BY <1>1, Sizes DEF BlockAt

\* The blocks a read goes through hold their data, the one kept if it is the right one.
LEMMA BlocksAreRight ==
  ASSUME TypeOK, NEW off \in Nat, NEW k \in Nat, CacheHoldsItsBlock \/ ~Kept(off, k),
         BlockOK(off, k), NEW j \in 0 .. DataSize - 1
  PROVE  Block(off, k)[j] = Word(BlockAt(off, k) + HeaderSize + j)
<1>1. BlockAt(off, k) \in Nat
  BY BlockAtIsNat
<1>2. CASE Kept(off, k)
  <2>1. lastReadBlock = BlockAt(off, k) /\ lastReadBlock # NoBlock
    BY <1>1, <1>2, ImageAssumption DEF Kept
  <2> QED
    BY <1>2, <2>1 DEF Block, CacheHoldsItsBlock, DataOf
<1>3. CASE ~Kept(off, k)
  <2>1. Accepted(BlockAt(off, k), BlockSize)
    BY <1>3 DEF BlockOK, RawOK
  <2>2. HeaderSize + j \in 0 .. BlockSize - 1
    BY Sizes
  <2>3. RawWord(BlockAt(off, k), BlockSize, HeaderSize + j)
          = Word(BlockAt(off, k) + (HeaderSize + j))
    BY <1>1, <2>1, <2>2, Sizes, AcceptedReadsAreRight
  <2>4. BlockAt(off, k) + (HeaderSize + j) = BlockAt(off, k) + HeaderSize + j
    BY <1>1, Sizes
  <2> QED
    BY <1>3, <2>3, <2>4 DEF Block, Plain
<1> QED
  BY <1>2, <1>3

LEMMA FirstLenIsHead ==
  ASSUME TypeOK, NEW off \in Nat, NEW len \in Nat \ {0}
  PROVE  /\ FirstLen(off, len) \in 0 .. len
         /\ FirstLen(off, len) = 0 <=> off % DataSize = 0
         /\ FirstLen(off, len) > 0 => FirstLen(off, len) <= DataSize - (off % DataSize)
         /\ (FirstLen(off, len) > 0 /\ FirstLen(off, len) < len) =>
               FirstLen(off, len) = DataSize - (off % DataSize)
<1>1. off % DataSize \in 0 .. DataSize - 1 /\ DataSize \in Nat \ {0}
  BY Sizes, Quotient
<1> QED
  BY <1>1 DEF FirstLen, LeastOf

\* Word i of a read of the open partition is the partition's word there, unless it is
\* given from the block kept and that is not the right one.
LEMMA ReadWordIsRight ==
  ASSUME TypeOK, NEW off \in Nat, NEW len \in Nat,
         PartitionReadOK(off, len), NEW i \in 0 .. len - 1,
         \/ CacheHoldsItsBlock
         \/ ~Kept(off, 0)
         \/ (off + i) \div DataSize # off \div DataSize
  PROVE  ReadWord(off, len, i) = DiscWord(off + i)
<1> DEFINE D == DataSize  head == FirstLen(off, len)  o == off \div D
<1>1. /\ D \in Nat \ {0} /\ BlockSize \in Nat /\ HeaderSize \in Nat /\ DataStart \in Nat
      /\ i \in Nat /\ len \in Nat \ {0}
  BY Sizes
<1>2. off = D * o + (off % D) /\ o \in Nat /\ off % D \in 0 .. D - 1
  BY <1>1, Quotient
<1>3. /\ head \in 0 .. len /\ (head = 0 <=> off % D = 0)
      /\ head > 0 => head <= D - (off % D)
      /\ (head > 0 /\ head < len) => head = D - (off % D)
  BY <1>1, FirstLenIsHead
<1>4. \A k \in 0 .. BlockCount(off, len) - 1 : BlockOK(off, k)
  BY DEF PartitionReadOK
<1>5. CASE i < head
  <2> DEFINE r == (off % D) + i
  <2>1. r \in 0 .. D - 1 /\ off + i = D * o + r
    BY <1>1, <1>2, <1>3, <1>5
  <2>2. (off + i) \div D = o /\ (off + i) % D = r
    <3>1. D \in Nat \ {0} /\ o \in Nat /\ r \in 0 .. D - 1
      BY <1>1, <1>2, <2>1
    <3>2. off + i = D * o + r
      BY <2>1
    <3> HIDE DEF o, r, D
    <3>3. (D * o + r) \div D = o /\ (D * o + r) % D = r
      BY <3>1, QuotientIsUnique
    <3> QED
      BY <3>2, <3>3
  <2>3. 0 \in 0 .. BlockCount(off, len) - 1
    <3>1. (len - head) \div D \in Nat
      <4>1. len - head \in Nat
        BY <1>1, <1>3
      <4> QED
        BY <1>1, <4>1, Quotient
    <3>2. head > 0
      BY <1>1, <1>3, <1>5
    <3> QED
      BY <1>1, <3>1, <3>2 DEF BlockCount
  <2>4. Block(off, 0)[r] = Word(BlockAt(off, 0) + HeaderSize + r)
    <3>1. CacheHoldsItsBlock \/ ~Kept(off, 0)
      BY <2>2
    <3> QED
      BY <1>4, <2>1, <2>3, <3>1, BlocksAreRight
  <2>5. ReadWord(off, len, i) = Block(off, 0)[r]
    BY <1>5 DEF ReadWord
  <2>6. BlockAt(off, 0) = DataStart + o * BlockSize
    BY <1>1, <1>2 DEF BlockAt
  <2> QED
    BY <2>2, <2>4, <2>5, <2>6 DEF DiscWord
<1>6. CASE ~(i < head)
  <2> DEFINE x == i - head  n == len - head
             e == IF head > 0 THEN 1 ELSE 0  k == (x \div D) + e
  <2>1. x \in Nat /\ n \in Nat /\ x \in 0 .. n - 1
    BY <1>1, <1>3, <1>6
  <2>2. x = D * (x \div D) + (x % D) /\ x \div D \in Nat /\ x % D \in 0 .. D - 1
    BY <1>1, <2>1, Quotient
  <2>3. k \in 0 .. BlockCount(off, len) - 1
    <3>1. x \div D < (n \div D) + (IF n % D > 0 THEN 1 ELSE 0)
      BY <1>1, <2>1, InOneOfTheBlocks
    <3>2. BlockCount(off, len) = e + (n \div D) + (IF n % D > 0 THEN 1 ELSE 0)
      BY DEF BlockCount
    <3>3. n \div D \in Nat
      BY <1>1, <2>1, Quotient
    <3> QED
      BY <2>2, <3>1, <3>2, <3>3
  <2>4. (off + i) \div D = o + k /\ (off + i) % D = x % D
    <3> DEFINE a == off + head
    <3>1. a \in Nat /\ a % D = 0 /\ a \div D = o + e
      <4>1. CASE head = 0
        BY <4>1, <1>1, <1>2, <1>3
      <4>2. CASE head > 0
        <5>1. head = D - (off % D)
          BY <4>2, <1>1, <1>3, <1>6
        <5>2. a = D * (o + 1) + 0
          BY <5>1, <1>1, <1>2
        <5> DEFINE q == o + 1
        <5>3. D \in Nat \ {0} /\ q \in Nat /\ 0 \in 0 .. D - 1 /\ a \in Nat
          BY <1>1, <1>2, <1>3
        <5>4. a = D * q + 0 /\ q = o + e
          BY <5>2, <4>2
        <5> HIDE DEF a, o, D, q
        <5>5. (D * q + 0) \div D = q /\ (D * q + 0) % D = 0
          BY <5>3, QuotientIsUnique
        <5> QED
          BY <5>3, <5>4, <5>5
      <4> QED
        BY <1>3, <4>1, <4>2
    <3>2. off + i = a + D * (x \div D) + (x % D)
      <4>1. i = head + x /\ head \in Nat
        BY <1>1, <1>3
      <4> DEFINE y == D * (x \div D)  z == x % D
      <4>2. D * (x \div D) \in Nat
        BY <1>1, <2>2
      <4>3. x = y + z /\ y \in Nat /\ z \in Nat
        BY <2>2, <4>2
      <4> HIDE DEF x, head, y, z
      <4>4. off + i = off + head + y + z
        BY <4>1, <4>3
      <4> QED
        BY <4>4 DEF y, z
    <3>3. (a + D * (x \div D) + (x % D)) \div D = (a \div D) + (x \div D)
          /\ (a + D * (x \div D) + (x % D)) % D = x % D
      <4> DEFINE y == x \div D  z == x % D
      <4>1. D \in Nat \ {0} /\ a \in Nat /\ y \in Nat /\ z \in 0 .. D - 1 /\ a % D = 0
        BY <1>1, <2>2, <3>1
      <4> DEFINE q == (a \div D) + y
      <4> HIDE DEF a, y, z, D
      <4>2. a = D * (a \div D) + (a % D) /\ a \div D \in Nat
        BY <4>1, Quotient
      <4>3. a + D * y + z = D * q + z
        BY <4>1, <4>2
      <4>4. q \in Nat
        BY <4>1, <4>2
      <4> HIDE DEF q
      <4>5. (D * q + z) \div D = q /\ (D * q + z) % D = z
        BY <4>1, <4>4, QuotientIsUnique
      <4> QED
        BY <4>3, <4>5 DEF q, y, z
    <3> QED
      BY <3>1, <3>2, <3>3, <1>2, <2>2
  <2>5. Block(off, k)[x % D] = Word(BlockAt(off, k) + HeaderSize + (x % D))
    <3>1. CacheHoldsItsBlock \/ ~Kept(off, k)
      <4>1. Kept(off, k) => k = 0
        BY DEF Kept
      <4>2. k = 0 => (off + i) \div D = o
        BY <1>2, <2>2, <2>4
      <4> QED BY <4>1, <4>2
    <3> QED
      BY <1>4, <2>2, <2>3, <3>1, BlocksAreRight
  <2>6. ReadWord(off, len, i) = Block(off, k)[x % D]
    BY <1>6 DEF ReadWord
  <2>7. BlockAt(off, k) = DataStart + (o + k) * BlockSize
    <3>1. k \in Nat
      BY <2>2
    <3> HIDE DEF k, o
    <3>2. o * BlockSize + k * BlockSize = (o + k) * BlockSize
      BY <3>1, <1>1, <1>2
    <3> QED
      BY <3>1, <3>2, <1>1, <1>2 DEF BlockAt, o
  <2> QED
    BY <2>4, <2>5, <2>6, <2>7 DEF DiscWord
<1> QED
  BY <1>5, <1>6

\* A read of at least a word reads a block.
LEMMA ReadsABlock ==
  ASSUME TypeOK, NEW off \in Nat, NEW len \in Nat \ {0}
  PROVE  BlockCount(off, len) - 1 \in Nat
<1>1. FirstLen(off, len) \in 0 .. len
  BY FirstLenIsHead
<1>2. (len - FirstLen(off, len)) \div DataSize \in Nat
  <2>1. len - FirstLen(off, len) \in Nat /\ DataSize \in Nat \ {0}
    BY <1>1, Sizes
  <2> QED BY <2>1, Quotient
<1>3. FirstLen(off, len) = 0 => len \div DataSize > 0 \/ len % DataSize > 0
  <2>1. len = DataSize * (len \div DataSize) + (len % DataSize)
        /\ len \div DataSize \in Nat /\ len % DataSize \in 0 .. DataSize - 1
    <3>1. len \in Nat /\ DataSize \in Nat \ {0}
      BY Sizes
    <3> QED BY <3>1, Quotient
  <2>2. len \div DataSize = 0 /\ len % DataSize = 0 => len = 0
    BY <2>1, Sizes
  <2> QED BY <2>1, <2>2
<1> QED BY <1>1, <1>2, <1>3 DEF BlockCount

-----------------------------------------------------------------------------
(* Types *)

\* What a read of the open partition leaves alone, and what it leaves behind.
LEMMA PartitionReadTypes ==
  ASSUME TypeOK, NEW off \in Nat, NEW len \in Nat,
         \/ PartitionReadOK(off, len)
         \/ PartitionReadFails(off, len) /\ UNCHANGED <<inserted, openVars>>
  PROVE  /\ fil' \in [Parts -> {"ok", "err"}] /\ UNCHANGED <<inserted, openVars>>
         /\ lastReadBlock' \in Nat \cup {NoBlock} /\ DOMAIN decrypted' = 0 .. DataSize - 1
<1>1. \A k \in Nat : DOMAIN Block(off, k) = 0 .. DataSize - 1
  BY DEF Block, Plain, TypeOK
<1>2. CASE PartitionReadOK(off, len)
  <2>1. CASE len = 0
    BY <1>2, <2>1 DEF PartitionReadOK, cacheVars, openVars, TypeOK
  <2>2. CASE len # 0
    <3> DEFINE k == BlockCount(off, len) - 1
    <3>1. k \in Nat
      BY <2>2, ReadsABlock
    <3>2. lastReadBlock' = BlockAt(off, k) /\ decrypted' = Block(off, k)
      BY <1>2, <2>2 DEF PartitionReadOK
    <3>3. UNCHANGED <<fil, inserted, openVars>>
      BY <1>2 DEF PartitionReadOK
    <3> QED
      BY <1>1, <3>1, <3>2, <3>3, BlockAtIsNat DEF TypeOK
  <2> QED
    BY <2>1, <2>2
<1>3. CASE PartitionReadFails(off, len) /\ UNCHANGED <<inserted, openVars>>
  <2>1. CASE UNCHANGED <<fil, cacheVars>>
    BY <1>3, <2>1 DEF cacheVars, TypeOK
  <2>2. CASE ~UNCHANGED <<fil, cacheVars>>
    <3>1. PICK k \in 0 .. BlockCount(off, len) - 1 :
            /\ RawFails(BlockAt(off, k), BlockSize)
            /\ lastReadBlock' = BlockAt(off, k)
            /\ decrypted' = IF k = 0 THEN decrypted ELSE Block(off, k - 1)
      BY <1>3, <2>2 DEF PartitionReadFails
    <3>2. k \in Nat /\ (k # 0 => k - 1 \in Nat)
      BY <3>1
    <3>3. fil' \in [Parts -> {"ok", "err"}]
      BY <3>1 DEF RawFails, TypeOK
    <3> QED
      BY <1>1, <1>3, <3>1, <3>2, <3>3, BlockAtIsNat DEF TypeOK
  <2> QED
    BY <2>1, <2>2
<1> QED
  BY <1>2, <1>3

LEMMA SaidResult ==
  ASSUME NEW cmd, NEW result, NEW at, NEW data, NEW lost, Say(cmd, result, at, data, lost)
  PROVE  reply'.result = result
  BY DEF Say

LEMMA InitTypes == Init => TypeOK
<1> SUFFICES ASSUME Init PROVE TypeOK
  OBVIOUS
<1>1. DOMAIN decrypted = 0 .. DataSize - 1 /\ DOMAIN patches = 0 .. MaxPatches - 1
  BY DEF Init, ISOInit
<1>2. reply.result \in Results
  BY DEF Init, Results
<1> QED
  BY <1>1, <1>2 DEF Init, ISOInit, ESInit, TypeOK, Parts

LEMMA ReadTypes ==
  ASSUME TypeOK, Read
  PROVE  TypeOK'
<1>1. PICK r \in Reads :
        \/ ReadDisc(r[1], r[2])
        \/ ReadBoth(r[1], r[2]) \/ ReadPatches(r[1], r[2]) \/ ReadAborts(r[1], r[2])
        \/ ReadStray(r[1], r[2])
  BY DEF Read
<1>2. r[1] \in Nat /\ r[2] \in Nat /\ PatchBase \in Nat
  BY PatchAssumption
<1>3. UNCHANGED <<esVars, patchVars, opening>>
  BY DEF Read
<1> DEFINE ISOTypes ==
      /\ fil' \in [Parts -> {"ok", "err"}] /\ UNCHANGED <<inserted, openVars>>
      /\ lastReadBlock' \in Nat \cup {NoBlock} /\ DOMAIN decrypted' = 0 .. DataSize - 1
    ReplyTypes == halted' \in BOOLEAN /\ reply'.result \in Results
<1>4. UNCHANGED isoVars => ISOTypes
  BY DEF isoVars, cacheVars, TypeOK
<1>5. CASE ReadDisc(r[1], r[2])
  <2>1. ISOTypes
    BY <1>2, <1>5, PartitionReadTypes DEF ReadDisc
  <2>2. ReplyTypes
    <3>1. UNCHANGED reply \/ reply'.result \in {"OK", "Drive"}
      BY <1>5, SaidResult DEF ReadDisc, SayOnly
    <3>2. halted' \in BOOLEAN
      BY <1>5 DEF ReadDisc, TypeOK
    <3> QED
      BY <3>1, <3>2 DEF Results, TypeOK
  <2> QED
    BY <1>3, <2>1, <2>2 DEF TypeOK, esVars, esCtxVars, patchVars, openVars
<1>6. CASE ReadBoth(r[1], r[2])
  <2>0. PatchBase - r[1] \in Nat
    BY <1>2, <1>6 DEF ReadBoth
  <2>1. ISOTypes
    <3>1. \/ PartitionReadOK(r[1], PatchBase - r[1])
          \/ /\ PartitionReadFails(r[1], PatchBase - r[1])
             /\ UNCHANGED <<inserted, openVars>>
      BY <1>6 DEF ReadBoth, AnswerBoth
    <3> QED
      BY <1>2, <2>0, <3>1, PartitionReadTypes
  <2>2. ReplyTypes
    <3>1. UNCHANGED reply \/ reply'.result \in {"OK", "Drive"}
      BY <1>6, SaidResult DEF ReadBoth, AnswerBoth
    <3>2. halted' \in BOOLEAN
      BY <1>6 DEF ReadBoth, TypeOK
    <3> QED
      BY <3>1, <3>2 DEF Results, TypeOK
  <2> QED
    BY <1>3, <2>1, <2>2 DEF TypeOK, esVars, esCtxVars, patchVars, openVars
<1>7. CASE ReadPatches(r[1], r[2]) \/ ReadAborts(r[1], r[2])
  <2>1. ISOTypes
    BY <1>4, <1>7 DEF ReadPatches, ReadAborts
  <2>2. ReplyTypes
    <3>1. UNCHANGED reply \/ reply'.result \in {"OK", "Drive"}
      BY <1>7, SaidResult DEF ReadPatches, ReadAborts
    <3>2. halted' \in BOOLEAN
      BY <1>7 DEF ReadPatches, ReadAborts, TypeOK
    <3> QED
      BY <3>1, <3>2 DEF Results, TypeOK
  <2> QED
    BY <1>3, <2>1, <2>2 DEF TypeOK, esVars, esCtxVars, patchVars, openVars
<1>8. CASE ReadStray(r[1], r[2])
  <2>1. ISOTypes
    <3>1. CASE r[1] >= PatchBase
      BY <1>2, <1>4, <1>8, <3>1 DEF ReadStray
    <3>2. CASE ~(r[1] >= PatchBase)
      <4>1. PatchBase - r[1] \in Nat
        BY <1>2, <3>2
      <4>2. \/ PartitionReadOK(r[1], PatchBase - r[1])
            \/ /\ PartitionReadFails(r[1], PatchBase - r[1])
               /\ UNCHANGED <<inserted, openVars>>
        BY <1>8, <3>2 DEF ReadStray, AnswerBoth
      <4> QED
        BY <1>2, <4>1, <4>2, PartitionReadTypes
    <3> QED
      BY <3>1, <3>2
  <2>2. ReplyTypes
    <3>1. UNCHANGED reply \/ reply'.result \in {"OK", "Drive"}
      BY <1>8, SaidResult DEF ReadStray, AnswerBoth
    <3>2. halted' \in BOOLEAN
      BY <1>8 DEF ReadStray, TypeOK
    <3> QED
      BY <3>1, <3>2 DEF Results, TypeOK
  <2> QED
    BY <1>3, <2>1, <2>2 DEF TypeOK, esVars, esCtxVars, patchVars, openVars
<1> QED
  BY <1>1, <1>5, <1>6, <1>7, <1>8

\* What every step but a read leaves of the drive's other variables.
LEMMA NextTypes ==
  ASSUME TypeOK, [Next]_vars
  PROVE  TypeOK'
<1> USE DEF TypeOK, vars, isoVars, esVars, esCtxVars, patchVars, openVars, cacheVars
<1>1. CASE Read
  BY <1>1, ReadTypes
<1>2. CASE ReadRawWords
  <2>1. fil' \in [Parts -> {"ok", "err"}]
    BY <1>2 DEF ReadRawWords, UnencryptedRead, RawFails
  <2> QED
    BY <1>2, <2>1 DEF ReadRawWords, UnencryptedRead, Say, SayOnly, Results
<1>3. CASE PatchDVD
  BY <1>3, PatchAssumption DEF PatchDVD, Say, SayOnly, Results
<1>4. CASE StartGame \/ Refused \/ Registers
  <2>1. reply'.result \in Results
    BY <1>4, SaidResult DEF StartGame, Refused, Registers, SayOnly, Results
  <2> QED
    BY ZenonT(60), <1>4, <2>1 DEF StartGame, Refused, Registers
<1>5. CASE ReadDiskID
  <2>1. fil' \in [Parts -> {"ok", "err"}]
    BY <1>5 DEF ReadDiskID, DiskIDOK, DiskIDFails, RawFails
  <2>2. reply'.result \in Results
    BY <1>5, SaidResult DEF ReadDiskID, SayOnly, Results
  <2> QED
    BY ZenonT(60), <1>5, <2>1, <2>2 DEF ReadDiskID, DiskIDOK, DiskIDFails
<1>6. CASE OpenFails
  <2>1. fil' \in [Parts -> {"ok", "err"}]
    BY <1>6 DEF OpenFails, HeadFails, RawFails
  <2> QED
    BY <1>6, <2>1 DEF OpenFails, HeadFails, Say, SayOnly, Results
<1>7. CASE OpenHead
  BY <1>7 DEF OpenHead, HeadOK
<1>8. CASE OpenVerify
  <2>1. Title \in Titles
    BY PatchAssumption DEF Title
  <2> QED
    BY <1>8, <2>1 DEF OpenVerify, VerifyTitle, VerifyTicket, VerifyDone
<1>9. CASE OpenDone
  BY <1>9 DEF OpenDone, PartitionOpens, Say, SayOnly, Results
<1>10. CASE ESThread
  BY <1>10 DEF ESThread, IPCRequest
<1>11. CASE Card
  BY <1>11 DEF Card, CardMoves, Parts
<1>12. CASE UNCHANGED vars
  BY <1>12
<1> QED
  BY <1>1, <1>2, <1>3, <1>4, <1>5, <1>6, <1>7, <1>8, <1>9, <1>10, <1>11, <1>12
  DEF Next, DIThread

\* The variables have their types.
THEOREM TypeCorrect == Spec => []TypeOK
<1>1. Init => TypeOK
  BY InitTypes
<1>2. TypeOK /\ [Next]_vars => TypeOK'
  BY NextTypes
<1> QED
  BY <1>1, <1>2, PTL DEF Spec

\* Where a partition is read without an error and the block kept is the right one,
\* the words come out in order, for every image, size of block and read.
THEOREM ReadsCorrect == Spec => ReadsComeOutRight
<1>1. ASSUME TypeOK, NEW r \in Reads, CacheHoldsItsBlock, ReadDisc(r[1], r[2]),
             reply'.result = "OK"
      PROVE  reply'.data = [i \in 0 .. r[2] - 1 |-> DiscWord(r[1] + i)]
  <2>1. r[1] \in Nat /\ r[2] \in Nat
    BY PatchAssumption
  <2>2. /\ PartitionReadOK(r[1], r[2])
        /\ reply'.data = [i \in 0 .. r[2] - 1 |-> ReadWord(r[1], r[2], i)]
    <3>1. ~SayOnly("Read", "Drive")
      BY <1>1, SaidResult DEF SayOnly
    <3>2. /\ PartitionReadOK(r[1], r[2])
          /\ Say("Read", "OK", r[1], [i \in 0 .. r[2] - 1 |-> ReadWord(r[1], r[2], i)], {})
      BY <1>1, <3>1 DEF ReadDisc
    <3> QED
      BY <3>2 DEF Say
  <2>3. \A i \in 0 .. r[2] - 1 : ReadWord(r[1], r[2], i) = DiscWord(r[1] + i)
    BY <1>1, <2>1, <2>2, ReadWordIsRight
  <2> QED
    BY <2>2, <2>3
<1>2. TypeOK => [\A r \in Reads :
                   reply'.result = "OK" /\ CacheHoldsItsBlock /\ ReadDisc(r[1], r[2]) =>
                     reply'.data = [i \in 0 .. r[2] - 1 |-> DiscWord(r[1] + i)]]_vars
  BY <1>1
<1> QED
  BY <1>2, TypeCorrect, PTL DEF ReadsComeOutRight

-----------------------------------------------------------------------------
(* The title that ES answers for *)

\* How far DIVerify has come.
TitleInv ==
  /\ useTitleCtx => partitionOpened \/ opening = "key"
  /\ partitionOpened => useTitleCtx
  /\ opening # "no" => ~partitionOpened
  /\ opening \in {"ticket", "flag", "key"} \/ partitionOpened => titleID = Title
  /\ opening \in {"flag", "key"} \/ partitionOpened => ticket = Title
  /\ opening = "key" => useTitleCtx
  /\ esReply.result = "OK" => esReply.about # NoTitle

LEMMA InitTitle == Init => TitleInv
  BY DEF Init, ISOInit, ESInit, TitleInv

LEMMA Answered ==
  ASSUME NEW result, NEW title, Answer(result, title), title # NoTitle \/ result # "OK"
  PROVE  esReply'.result = "OK" => esReply'.about # NoTitle
  BY DEF Answer

LEMMA ESAnswers ==
  ASSUME TypeOK, TitleInv, IPCRequest
  PROVE  esReply'.result = "OK" => esReply'.about # NoTitle
<1>1. PICK r \in Requests :
        Refuse(r) \/ GetTitleID(r) \/ DIGetTicketView(r) \/ LaunchTitle(r) \/ Forward(r)
  BY DEF IPCRequest
<1>2. /\ r.title # NoTitle /\ Launcher # NoTitle /\ Menu # NoTitle /\ Title # NoTitle
  BY PatchAssumption, TitleAssumption DEF Title, TypeOK
<1>3. useTitleCtx => titleID # NoTitle /\ ticket # NoTitle
  BY <1>2 DEF TitleInv
<1>4. CASE Refuse(r)
  BY <1>4, Answered DEF Refuse
<1>5. CASE GetTitleID(r)
  BY <1>2, <1>3, <1>5, Answered DEF GetTitleID
<1>6. CASE DIGetTicketView(r)
  BY <1>2, <1>3, <1>6, Answered DEF DIGetTicketView
<1>7. CASE LaunchTitle(r)
  BY <1>2, <1>7, Answered DEF LaunchTitle, BlockIOSReload
<1>8. CASE Forward(r)
  BY <1>2, <1>8, Answered DEF Forward
<1> QED
  BY <1>1, <1>4, <1>5, <1>6, <1>7, <1>8

\* Reads leave what TitleInv is about alone.
LEMMA ReadsKeepOpen ==
  ASSUME Read \/ ReadRawWords
  PROVE  UNCHANGED <<openVars, esVars, opening>>
<1>1. CASE Read
  <2>1. PICK r \in Reads :
          \/ ReadDisc(r[1], r[2])
          \/ ReadBoth(r[1], r[2]) \/ ReadPatches(r[1], r[2]) \/ ReadAborts(r[1], r[2])
          \/ ReadStray(r[1], r[2])
    BY <1>1 DEF Read
  <2>2. UNCHANGED openVars
    BY <2>1 DEF ReadDisc, ReadBoth, ReadPatches, ReadAborts, ReadStray, AnswerBoth,
         PartitionReadOK, isoVars
  <2> QED
    BY <1>1, <2>2 DEF Read
<1>2. CASE ReadRawWords
  BY <1>2 DEF ReadRawWords, UnencryptedRead, isoVars
<1> QED
  BY <1>1, <1>2

LEMMA NextTitle ==
  ASSUME TypeOK, TitleInv, [Next]_vars
  PROVE  TitleInv'
<1> USE DEF TitleInv, esVars, esCtxVars, openVars
<1>1. UNCHANGED <<openVars, esVars, opening>> => TitleInv'
  BY DEF Title
<1>2. CASE Read \/ ReadRawWords
  BY <1>1, <1>2, ReadsKeepOpen
<1>3. CASE PatchDVD \/ StartGame \/ Refused \/ Registers \/ Card
  BY <1>1, <1>3 DEF PatchDVD, StartGame, Refused, Registers, Card, CardMoves, isoVars
<1>4. CASE ReadDiskID
  BY <1>4 DEF ReadDiskID, DiskIDOK, DiskIDFails, Title
<1>5. CASE OpenFails
  <2>1. CASE UNCHANGED isoVars
    BY <1>1, <1>5, <2>1 DEF OpenFails, isoVars
  <2>2. CASE ~UNCHANGED isoVars
    <3>1. ~partitionOpened /\ ~partitionOpened' /\ opening = "no" /\ opening' = "no"
      BY <1>5, <2>2 DEF OpenFails, HeadFails, Openable, Ready
    <3> QED
      BY <1>5, <3>1 DEF OpenFails
  <2> QED
    BY <2>1, <2>2
<1>6. CASE OpenHead
  BY <1>6 DEF OpenHead, HeadOK, Openable, Ready
<1>7. CASE OpenVerify
  BY <1>7 DEF OpenVerify, VerifyTitle, VerifyTicket, VerifyDone, isoVars, Title
<1>8. CASE OpenDone
  BY <1>8 DEF OpenDone, PartitionOpens, Title
<1>9. CASE ESThread
  <2>1. esReply'.result = "OK" => esReply'.about # NoTitle
    BY <1>9, ESAnswers DEF ESThread
  <2> QED
    BY <1>9, <2>1 DEF ESThread, IPCRequest, isoVars, Title
<1>10. CASE UNCHANGED vars
  BY <1>1, <1>10 DEF vars, isoVars
<1> QED
  BY <1>2, <1>3, <1>4, <1>5, <1>6, <1>7, <1>8, <1>9, <1>10 DEF Next, DIThread

\* Once ES answers for the disc, it is with the title and the ticket of its
\* partition, wherever in OpenPartition a request comes in.
THEOREM TitleCorrect == Spec => []TitleIsTheDiscs
<1>1. Init => TitleInv
  BY InitTitle
<1>2. TypeOK /\ TitleInv /\ [Next]_vars => TitleInv'
  BY NextTitle
<1>3. TitleInv => TitleIsTheDiscs
  BY DEF TitleInv, TitleIsTheDiscs
<1> QED
  BY <1>1, <1>2, <1>3, TypeCorrect, PTL DEF Spec

-----------------------------------------------------------------------------
(* The search for a patch *)

\* The two halves that a search goes on in are shorter, and one entry is between them.
LEMMA Halves ==
  ASSUME NEW i \in Nat \ {0}
  PROVE  /\ i \div 2 \in 0 .. i - 1 /\ (i - 1) \div 2 \in 0 .. i - 1
         /\ (i \div 2) + ((i - 1) \div 2) = i - 1
  OBVIOUS

\* The entry a search looks at, whether it stops there, what it has found then, and
\* what it goes on with otherwise.
Middle(x) == x[1] + (x[2] \div 2)

Hits(off, k) == patches[k].start = off \/ (off > patches[k].start /\ End(k) > off)

Stops(off) == {x \in Spans : x[2] = 0 \/ Hits(off, Middle(x))}

FoundAt == [x \in Spans |-> IF x[2] = 0 THEN numPatches ELSE Middle(x)]

GoesOn(off) ==
  [x \in Spans |->
     IF x[2] = 0 THEN x
     ELSE IF off > patches[Middle(x)].start THEN <<Middle(x) + 1, (x[2] - 1) \div 2>>
     ELSE <<x[1], x[2] \div 2>>]

LEMMA SpanTypes ==
  ASSUME numPatches \in Nat, NEW x \in Spans
  PROVE  /\ x = <<x[1], x[2]>> /\ x[1] \in Nat /\ x[2] \in Nat /\ x[1] + x[2] <= numPatches
         /\ x[2] # 0 =>
              /\ Middle(x) \in x[1] .. x[1] + x[2] - 1
              /\ <<Middle(x) + 1, (x[2] - 1) \div 2>> \in Spans /\ (x[2] - 1) \div 2 < x[2]
              /\ Middle(x) + 1 + ((x[2] - 1) \div 2) = x[1] + x[2]
              /\ <<x[1], x[2] \div 2>> \in Spans /\ x[2] \div 2 < x[2]
<1>1. x = <<x[1], x[2]>> /\ x[1] \in 0 .. numPatches /\ x[2] \in 0 .. numPatches
      /\ x[1] + x[2] <= numPatches
  BY DEF Spans
<1>2. ASSUME x[2] # 0
      PROVE  /\ Middle(x) \in x[1] .. x[1] + x[2] - 1
             /\ <<Middle(x) + 1, (x[2] - 1) \div 2>> \in Spans /\ (x[2] - 1) \div 2 < x[2]
             /\ Middle(x) + 1 + ((x[2] - 1) \div 2) = x[1] + x[2]
             /\ <<x[1], x[2] \div 2>> \in Spans /\ x[2] \div 2 < x[2]
  <2> DEFINE j == x[1]  i == x[2]  a == i \div 2  b == (i - 1) \div 2
  <2>1. a \in 0 .. i - 1 /\ b \in 0 .. i - 1 /\ a + b = i - 1
    BY <1>1, <1>2, Halves
  <2>2. j \in Nat /\ i \in Nat /\ j + i <= numPatches
    BY <1>1
  <2> HIDE DEF j, i, a, b
  <2>3. /\ j + a \in j .. j + i - 1 /\ j + a + 1 + b = j + i
        /\ j + a + 1 \in 0 .. numPatches /\ b \in 0 .. numPatches /\ j + a + 1 + b <= numPatches
        /\ j \in 0 .. numPatches /\ a \in 0 .. numPatches /\ j + a <= numPatches
        /\ a < i /\ b < i
    BY <2>1, <2>2
  <2>4. <<j + a + 1, b>> \in Spans /\ <<j, a>> \in Spans
    BY <2>3 DEF Spans
  <2> QED BY <2>3, <2>4 DEF j, i, a, b, Middle
<1> QED BY <1>1, <1>2

\* SearchPatch is such a search, on the whole table.
LEMMA SearchIsSearch ==
  ASSUME numPatches \in Nat, NEW off
  PROVE  \E f : IsSearch(f, Spans, Stops(off), FoundAt, GoesOn(off))
                /\ SearchPatch(off) = f[<<0, numPatches>>]
<1> DEFINE Step(f) ==
      [x \in Spans |->
        LET j == x[1]  i == x[2]  k == j + (i \div 2)
        IN  IF i = 0 THEN numPatches
            ELSE IF patches[k].start = off THEN k
            ELSE IF off > patches[k].start /\ End(k) > off THEN k
            ELSE IF off > patches[k].start THEN f[<<k + 1, (i - 1) \div 2>>]
            ELSE f[<<j, i \div 2>>]]
<1>1. ASSUME NEW f PROVE IsSearch(f, Spans, Stops(off), FoundAt, GoesOn(off)) <=> f = Step(f)
  <2>1. Step(f) = [x \in Spans |->
                     IF x \in Stops(off) THEN FoundAt[x] ELSE f[GoesOn(off)[x]]]
    BY DEF Stops, Hits, FoundAt, GoesOn, Middle
  <2> HIDE DEF Step
  <2> QED BY <2>1 DEF IsSearch
<1>2. PICK f : IsSearch(f, Spans, Stops(off), FoundAt, GoesOn(off))
  <2> DEFINE size == [x \in Spans |-> x[2]]
  <2>1. size \in [Spans -> 0 .. numPatches]
    BY DEF Spans
  <2>2. Stops(off) \in SUBSET Spans
    BY DEF Stops
  <2>3. GoesOn(off) \in [Spans -> Spans]
    <3>1. ASSUME NEW x \in Spans, x[2] # 0
          PROVE  <<Middle(x) + 1, (x[2] - 1) \div 2>> \in Spans /\ <<x[1], x[2] \div 2>> \in Spans
      BY <3>1, SpanTypes
    <3> QED BY <3>1 DEF GoesOn
  <2>4. ASSUME NEW x \in Spans \ Stops(off) PROVE size[GoesOn(off)[x]] < size[x]
    <3>1. x \in Spans /\ x[2] # 0
      BY DEF Stops
    <3>2. /\ <<Middle(x) + 1, (x[2] - 1) \div 2>> \in Spans /\ (x[2] - 1) \div 2 < x[2]
          /\ <<x[1], x[2] \div 2>> \in Spans /\ x[2] \div 2 < x[2]
      BY <3>1, SpanTypes
    <3>3. \/ GoesOn(off)[x] = <<Middle(x) + 1, (x[2] - 1) \div 2>>
          \/ GoesOn(off)[x] = <<x[1], x[2] \div 2>>
      BY <3>1 DEF GoesOn
    <3> QED BY <3>1, <3>2, <3>3
  <2> HIDE DEF size
  <2> QED BY <2>1, <2>2, <2>3, <2>4, SearchEnds
<1> DEFINE g == CHOOSE h : h = Step(h)
<1>3. g = Step(g)
  BY <1>1, <1>2
<1>4. SearchPatch(off) = g[<<0, numPatches>>]
  BY DEF SearchPatch
<1> HIDE DEF g
<1>5. IsSearch(g, Spans, Stops(off), FoundAt, GoesOn(off))
  BY <1>1, <1>3
<1> QED BY <1>4, <1>5

\* The search finds one of them, if there is one, in a table that is in order.
LEMMA SearchIsRight ==
  ASSUME numPatches \in Nat, Sorted(numPatches), NEW u \in Nat,
         \A k \in 0 .. numPatches - 1 : patches[k].start \in Nat /\ patches[k].length \in Nat
  PROVE  SearchPatch(u) \in IF PatchesAt(u) = {} THEN {numPatches} ELSE PatchesAt(u)
<1> DEFINE n == numPatches
           Table == 0 .. n - 1
           Right(r) == r \in IF PatchesAt(u) = {} THEN {n} ELSE PatchesAt(u)
           Within(x) == \A k \in PatchesAt(u) : x[1] <= k /\ k < x[1] + x[2]
<1>1. PICK f : IsSearch(f, Spans, Stops(u), FoundAt, GoesOn(u)) /\ SearchPatch(u) = f[<<0, n>>]
  BY SearchIsSearch
<1>2. \A x \in Spans : f[x] = IF x \in Stops(u) THEN FoundAt[x] ELSE f[GoesOn(u)[x]]
  BY <1>1 DEF IsSearch
<1>3. ASSUME NEW j \in Table, NEW k \in Table, j < k
      PROVE  /\ patches[j].start <= End(j) /\ End(j) <= patches[k].start
             /\ patches[j].start \in Nat /\ End(j) \in Nat /\ patches[k].start \in Nat
  BY <1>3 DEF Sorted, End
<1>31. \A k \in Table : patches[k].start \in Nat /\ End(k) \in Nat /\ patches[k].start <= End(k)
  BY DEF End
<1> DEFINE T == {m \in Nat : \A x \in Spans : x[2] <= m /\ Within(x) => Right(f[x])}
<1>4. ASSUME NEW x \in Spans, x[2] = 0, Within(x) PROVE Right(f[x])
  <2>1. x[1] \in Nat /\ x \in Stops(u) /\ FoundAt[x] = n
    BY <1>4, SpanTypes DEF Stops, FoundAt
  <2>2. PatchesAt(u) = {}
    BY <1>4, <2>1 DEF PatchesAt, Hits
  <2> QED BY <1>2, <2>1, <2>2
<1>5. ASSUME NEW m \in Nat, m \in T, NEW x \in Spans, x[2] <= m + 1, x[2] # 0, Within(x)
      PROVE  Right(f[x])
  <2> DEFINE k == Middle(x)
             right == <<k + 1, (x[2] - 1) \div 2>>
             left == <<x[1], x[2] \div 2>>
  <2>1. x[1] \in Nat /\ x[2] \in Nat /\ x[1] + x[2] <= n /\ k \in x[1] .. x[1] + x[2] - 1
    BY <1>5, SpanTypes
  <2>2. /\ right \in Spans /\ right[2] < x[2] /\ right[2] \in Nat /\ right[1] = k + 1
        /\ left \in Spans /\ left[2] < x[2] /\ left[2] \in Nat /\ left[1] = x[1]
        /\ right[1] + right[2] = x[1] + x[2] /\ left[1] + left[2] = k
    <3>1. /\ right \in Spans /\ (x[2] - 1) \div 2 < x[2] /\ left \in Spans /\ x[2] \div 2 < x[2]
          /\ k + 1 + ((x[2] - 1) \div 2) = x[1] + x[2]
      BY <1>5, SpanTypes
    <3>2. (x[2] - 1) \div 2 \in Nat /\ x[2] \div 2 \in Nat
      BY <1>5, <2>1, Halves
    <3> QED BY <3>1, <3>2 DEF Middle
  <2>3. k \in Table
    BY <2>1
  <2>4. \A j \in PatchesAt(u) : j \in Table /\ x[1] <= j /\ j < x[1] + x[2] /\ Hits(u, j)
    BY <1>5 DEF PatchesAt, Hits
  <2> HIDE DEF k, right, left
  <2>5. CASE Hits(u, k)
    <3>1. x \in Stops(u) /\ FoundAt[x] = k
      BY <1>5, <2>5 DEF Stops, FoundAt, k
    <3>2. k \in PatchesAt(u)
      BY <2>3, <2>5 DEF PatchesAt, Hits
    <3> QED BY <1>2, <3>1, <3>2
  <2>6. CASE ~Hits(u, k) /\ u > patches[k].start
    <3>1. f[x] = f[right]
      BY <1>2, <1>5, <2>6 DEF Stops, GoesOn, k, right
    <3>2. ASSUME NEW j \in PatchesAt(u) PROVE k < j
      <4>1. j \in Table /\ Hits(u, j) /\ patches[k].start \in Nat /\ End(k) \in Nat
        BY <1>31, <2>3, <2>4
      <4>2. End(k) <= u /\ j # k
        BY <2>6, <4>1 DEF Hits
      <4>3. ASSUME j < k PROVE FALSE
        <5>1. End(j) <= patches[k].start /\ patches[j].start <= End(j)
              /\ patches[j].start \in Nat /\ End(j) \in Nat
          BY <1>3, <2>3, <4>1, <4>3
        <5> QED BY <2>6, <4>1, <5>1 DEF Hits
      <4> QED BY <2>3, <4>1, <4>2, <4>3
    <3>3. Within(right)
      <4>1. \A j \in PatchesAt(u) : j \in Nat /\ k \in Nat /\ k < j /\ j < x[1] + x[2]
        BY <2>1, <2>3, <2>4, <3>2
      <4> QED BY <2>1, <2>2, <4>1
    <3> QED BY <1>5, <2>1, <2>2, <3>1, <3>3
  <2>7. CASE ~Hits(u, k) /\ ~(u > patches[k].start)
    <3>1. f[x] = f[left]
      BY <1>2, <1>5, <2>7 DEF Stops, GoesOn, k, left
    <3>2. ASSUME NEW j \in PatchesAt(u) PROVE j < k
      <4>1. j \in Table /\ Hits(u, j) /\ patches[k].start \in Nat
        BY <1>31, <2>3, <2>4
      <4>2. u < patches[k].start /\ j # k
        BY <2>7, <4>1 DEF Hits
      <4>3. ASSUME k < j PROVE FALSE
        <5>1. End(k) <= patches[j].start /\ patches[k].start <= End(k)
              /\ patches[j].start \in Nat /\ End(k) \in Nat
          BY <1>3, <1>31, <2>3, <4>1, <4>3
        <5> QED BY <4>1, <4>2, <5>1 DEF Hits
      <4> QED BY <2>3, <4>1, <4>2, <4>3
    <3>3. Within(left)
      <4>1. \A j \in PatchesAt(u) : j \in Nat /\ k \in Nat /\ j < k /\ x[1] <= j
        BY <2>1, <2>3, <2>4, <3>2
      <4> QED BY <2>1, <2>2, <4>1
    <3> QED BY <1>5, <2>1, <2>2, <3>1, <3>3
  <2> QED BY <2>5, <2>6, <2>7
<1>6. 0 \in T
  <2>1. ASSUME NEW x \in Spans, x[2] <= 0 PROVE x[2] = 0
    <3>1. x[2] \in Nat
      BY SpanTypes
    <3> QED BY <2>1, <3>1
  <2> QED BY <1>4, <2>1
<1>7. ASSUME NEW m \in Nat, m < n, m \in T PROVE m + 1 \in T
  <2>1. \A x \in Spans : x[2] <= m + 1 /\ Within(x) => Right(f[x])
    BY <1>4, <1>5, <1>7
  <2> QED BY <2>1
<1>8. n \in T
  <2>1. T \in SUBSET Nat /\ n \in 0 .. n
    OBVIOUS
  <2> HIDE DEF T
  <2>2. \A m \in 0 .. n : m \in T
    BY <1>6, <1>7, <2>1, CountsUp
  <2> QED BY <2>1, <2>2
<1>9. <<0, n>> \in Spans /\ Within(<<0, n>>)
  BY DEF Spans, PatchesAt
<1> QED BY <1>1, <1>8, <1>9

\* The patches are the ones of the last table that was taken, if its length was.
TakenInv ==
  \/ numPatches = 0
  \/ \E t \in Tables :
       /\ numPatches = Len(t)
       /\ ~Stray => \A k \in 0 .. numPatches - 1 : patches[k] = t[k + 1]

LEMMA TakenInit == Init => TakenInv
BY DEF Init, TakenInv

\* PATCHDVD alone changes the patches.
LEMMA KeepsPatches ==
  ASSUME [Next]_vars
  PROVE  UNCHANGED <<numPatches, patches>> \/ PatchDVD
BY DEF Next, DIThread, ESThread, Card, Read, ReadRawWords, StartGame, Refused, Registers,
       ReadDiskID, OpenFails, OpenHead, OpenVerify, OpenDone, vars, patchVars

LEMMA TakenStep ==
  ASSUME TypeOK, TakenInv, [Next]_vars
  PROVE  TakenInv'
<1>1. CASE UNCHANGED <<numPatches, patches>>
  BY <1>1 DEF TakenInv, Stray
<1>2. CASE PatchDVD
  <2>1. PICK t \in Tables :
          /\ numPatches' = Len(t)
          /\ ~(Len(t) > MaxPatches) =>
               patches' = [k \in DOMAIN patches |-> IF k < Len(t) THEN t[k + 1] ELSE patches[k]]
    BY <1>2 DEF PatchDVD
  <2>2. Len(t) \in Nat /\ MaxPatches \in Nat /\ DOMAIN patches = 0 .. MaxPatches - 1
    BY PatchAssumption DEF TypeOK
  <2>3. ASSUME ~Stray', NEW k \in 0 .. Len(t) - 1 PROVE patches'[k] = t[k + 1]
    <3>1. ~(Len(t) > MaxPatches)
      BY <2>1, <2>3 DEF Stray
    <3>2. k \in DOMAIN patches /\ k < Len(t)
      BY <2>2, <3>1
    <3> QED BY <2>1, <3>1, <3>2
  <2> QED BY <2>1, <2>3 DEF TakenInv
<1> QED BY <1>1, <1>2, KeepsPatches

LEMMA PatchTypes ==
  ASSUME TypeOK, TakenInv, ~Stray
  PROVE  \A k \in 0 .. numPatches - 1 : patches[k].start \in Nat /\ patches[k].length \in Nat
<1> SUFFICES ASSUME NEW k \in 0 .. numPatches - 1
             PROVE  patches[k].start \in Nat /\ patches[k].length \in Nat
  OBVIOUS
<1>1. numPatches \in Nat /\ numPatches # 0
  BY DEF TypeOK
<1>2. PICK t \in Tables : numPatches = Len(t) /\ patches[k] = t[k + 1]
  BY <1>1 DEF TakenInv
<1>3. k + 1 \in 1 .. Len(t)
  BY <1>1, <1>2
<1> QED BY <1>2, <1>3, PatchAssumption

\* SearchPatch finds a patch that the address lies in or starts, if there is one, in
\* every table that is in order, of any length and with any gaps.
THEOREM SearchCorrect == Spec => []SearchFindsThePatch
<1>1. ASSUME TypeOK, TakenInv, ~Stray, Sorted(numPatches), NEW u \in Addresses
      PROVE  SearchPatch(u) \in IF PatchesAt(u) = {} THEN {numPatches} ELSE PatchesAt(u)
  <2>1. u \in Nat
    <3>1. PICK r \in Reads : u \in r[1] .. r[1] + r[2] - 1
      BY DEF Addresses
    <3> QED BY <3>1, PatchAssumption
  <2>2. numPatches \in Nat
    BY <1>1 DEF TypeOK
  <2>3. \A k \in 0 .. numPatches - 1 : patches[k].start \in Nat /\ patches[k].length \in Nat
    BY <1>1, PatchTypes
  <2> QED BY <1>1, <2>1, <2>2, <2>3, SearchIsRight
<1>2. TypeOK /\ TakenInv => SearchFindsThePatch
  BY <1>1 DEF SearchFindsThePatch
<1> QED BY <1>2, TakenInit, TakenStep, TypeCorrect, PTL DEF Spec

-----------------------------------------------------------------------------
(* The drive is the disc a game was promised *)

\* An address of a read.
LEMMA ReachedAddress ==
  ASSUME NEW r \in Reads, NEW i \in 0 .. r[2] - 1
  PROVE  r[1] + i \in Addresses /\ r[1] \in Addresses /\ r[1] \in Nat /\ i \in Nat
<1>1. r[1] \in Nat /\ r[2] \in Nat /\ i \in Nat /\ i <= r[2] - 1
  BY PatchAssumption
<1>2. r[1] + i \in r[1] .. r[1] + r[2] - 1 /\ r[1] \in r[1] .. r[1] + r[2] - 1
  BY <1>1
<1> QED BY <1>1, <1>2 DEF Addresses

\* A table that was taken is in order and lies over the patches' addresses.
LEMMA TakenIsValid ==
  ASSUME TypeOK, TakenInv, ~Stray, ValidTables
  PROVE  /\ Sorted(numPatches)
         /\ \A k \in 0 .. numPatches - 1 :
              /\ patches[k].start \in Nat /\ patches[k].length \in Nat
              /\ PatchBase <= patches[k].start
<1>1. numPatches \in Nat
  BY DEF TypeOK
<1>2. CASE numPatches = 0
  BY <1>2 DEF Sorted
<1>3. CASE numPatches # 0
  <2>1. PICK t \in Tables :
          numPatches = Len(t) /\ \A k \in 0 .. numPatches - 1 : patches[k] = t[k + 1]
    BY <1>3 DEF TakenInv
  <2>2. \A k \in 0 .. numPatches - 1 : k + 1 \in 1 .. Len(t) /\ patches[k] = t[k + 1]
    BY <1>1, <2>1
  <2>3. ASSUME NEW j \in 0 .. numPatches - 1, NEW k \in 0 .. numPatches - 1, j < k
        PROVE  End(j) <= patches[k].start
    <3>1. j + 1 \in 1 .. (k + 1) - 1
      BY <2>3
    <3> QED BY <2>2, <3>1 DEF ValidTables, End
  <2>4. \A k \in 0 .. numPatches - 1 : patches[k].start \in Nat /\ patches[k].length \in Nat
    BY <2>2, PatchAssumption
  <2>5. \A k \in 0 .. numPatches - 1 : PatchBase <= patches[k].start
    BY <2>2 DEF ValidTables
  <2> QED BY <2>3, <2>4, <2>5 DEF Sorted
<1> QED BY <1>2, <1>3

\* The patches an address lies in: one at most.
At(u) == {k \in 0 .. numPatches - 1 : patches[k].start <= u /\ u < End(k)}

LEMMA AtMostOne ==
  ASSUME Sorted(numPatches), NEW u \in Nat, NEW j \in At(u), NEW k \in At(u), numPatches \in Nat,
         \A l \in 0 .. numPatches - 1 : patches[l].start \in Nat /\ patches[l].length \in Nat
  PROVE  j = k
<1>1. ASSUME NEW a \in At(u), NEW b \in At(u), a < b PROVE FALSE
  <2>1. End(a) <= patches[b].start
    BY <1>1 DEF At, Sorted
  <2>2. u < End(a) /\ patches[b].start <= u /\ End(a) \in Nat /\ patches[b].start \in Nat
    BY DEF At, End
  <2> QED BY <2>1, <2>2
<1>2. j \in Int /\ k \in Int
  BY DEF At
<1> QED BY <1>1, <1>2

\* No patch before the one a read starts in has an address the read reaches.
LEMMA NoneBefore ==
  ASSUME Sorted(numPatches), numPatches \in Nat, NEW off \in Nat, NEW u \in Nat, off <= u,
         NEW first \in PatchesAt(off),
         \A l \in 0 .. numPatches - 1 : patches[l].start \in Nat /\ patches[l].length \in Nat
  PROVE  \A k \in At(u) : k \in first .. numPatches - 1
<1>1. first \in 0 .. numPatches - 1 /\ patches[first].start \in Nat
      /\ patches[first].start <= off
  BY DEF PatchesAt
<1>2. ASSUME NEW k \in At(u), k < first PROVE FALSE
  <2>1. End(k) <= patches[first].start
    BY <1>1, <1>2 DEF At, Sorted
  <2>2. u < End(k) /\ End(k) \in Nat
    BY DEF At, End
  <2> QED BY <1>1, <2>1, <2>2
<1>3. \A k \in At(u) : k \in 0 .. numPatches - 1
  BY DEF At
<1> QED BY <1>1, <1>2, <1>3

\* What the patches are read as: zeros where a file cannot be read, and else the word that
\* should be there, if the read does not start in a gap or seek in a part of a file.
LEMMA PatchedWordIsRight ==
  ASSUME TypeOK, TakenInv, ~Stray, ValidTables, NEW r \in Reads, r[1] >= PatchBase,
         NEW i \in 0 .. r[2] - 1, NEW failed
  PROVE  LET off == r[1]
             w == PatchedWord(SearchPatch(off), off, off + i, failed)
         IN  IF i \in LostPlaces(SearchPatch(off), off, r[2], failed) THEN w = Zero
             ELSE \/ w = ContentAt(off + i)
                  \/ PatchesAt(off) = {}
                  \/ \E k \in PatchesAt(off) :
                       patches[k].start # off /\ off + i < End(k) /\ patches[k].from # 0
<1> DEFINE off == r[1]  len == r[2]  u == off + i  n == numPatches  first == SearchPatch(off)
           at == {k \in first .. n - 1 : patches[k].start <= u /\ u < End(k)}
           w == PatchedWord(first, off, u, failed)
           lost == LostPlaces(first, off, len, failed)
           PartSought == \E k \in PatchesAt(off) :
                           patches[k].start # off /\ u < End(k) /\ patches[k].from # 0
<1> SUFFICES IF i \in lost THEN w = Zero
             ELSE w = ContentAt(u) \/ PatchesAt(off) = {} \/ PartSought
  OBVIOUS
<1>1. off \in Nat /\ off \in Addresses /\ u \in Nat /\ u >= PatchBase /\ PatchBase \in Nat
      /\ off <= u
  BY ReachedAddress, PatchAssumption
<1>2. n \in Nat /\ n <= MaxPatches /\ MaxPatches \in Nat /\ LeastOf(n, MaxPatches) = n
  BY PatchAssumption DEF TypeOK, Stray, LeastOf
<1>3. /\ Sorted(n)
      /\ \A k \in 0 .. n - 1 : patches[k].start \in Nat /\ patches[k].length \in Nat
  BY TakenIsValid
<1>4. first \in IF PatchesAt(off) = {} THEN {n} ELSE PatchesAt(off)
  BY <1>1, <1>2, <1>3, SearchIsRight
<1>5. i \in lost <=> \E k \in at : k \in failed
  BY DEF LostPlaces
<1>6. w = IF at = {} THEN Zero
          ELSE LET k == CHOOSE k \in at : TRUE
               IN  IF k \in failed THEN Zero
                   ELSE IF k = first /\ Seeks(first, off)
                        THEN FileWord(patches[k].file, u - patches[k].start)
                        ELSE FileWord(patches[k].file, patches[k].from + u - patches[k].start)
  BY DEF PatchedWord
<1> HIDE DEF first, u, off, w, lost
<1>7. CASE PatchesAt(off) = {}
  <2>1. at = {}
    BY <1>2, <1>4, <1>7
  <2> QED BY <1>5, <1>6, <1>7, <2>1
<1>8. CASE PatchesAt(off) # {}
  <2>1. first \in PatchesAt(off) /\ first \in 0 .. n - 1
    BY <1>4, <1>8 DEF PatchesAt
  <2>2. at = At(u)
    <3>1. \A k \in At(u) : k \in first .. n - 1
      BY <1>1, <1>2, <1>3, <2>1, NoneBefore
    <3> QED BY <1>2, <2>1, <3>1 DEF At
  <2> DEFINE k == CHOOSE k \in at : TRUE
             l == CHOOSE l \in At(u) : TRUE
  <2>3. CASE at = {}
    <3>1. ContentAt(u) = Zero
      BY <1>1, <1>2, <2>2, <2>3 DEF ContentAt, At
    <3> QED BY <1>5, <1>6, <2>3, <3>1
  <2>4. CASE at # {}
    <3>1. k \in at /\ k \in At(u) /\ l \in At(u) /\ k = l
      BY <2>2, <2>4
    <3>2. ContentAt(u) = FileWord(patches[l].file, patches[l].from + u - patches[l].start)
      <4>1. At(u) # {} /\ ~(u < PatchBase)
        BY <1>1, <2>2, <2>4
      <4>2. ContentAt(u) = IF u < PatchBase THEN DiscWord(u)
                           ELSE IF At(u) = {} THEN Zero
                           ELSE FileWord(patches[l].file, patches[l].from + u - patches[l].start)
        BY <1>2 DEF ContentAt, At
      <4> QED BY <4>1, <4>2
    <3>3. w = IF k \in failed THEN Zero
              ELSE IF k = first /\ Seeks(first, off)
                   THEN FileWord(patches[k].file, u - patches[k].start)
                   ELSE FileWord(patches[k].file, patches[k].from + u - patches[k].start)
      BY <1>6, <2>4
    <3> HIDE DEF k, l, at
    <3>4. CASE i \in lost
      <4>1. PICK j \in at : j \in failed
        BY <1>5, <3>4
      <4>2. j = k
        BY <1>1, <1>2, <1>3, <2>2, <3>1, <4>1, AtMostOne
      <4> QED BY <3>3, <3>4, <4>1, <4>2
    <3>5. CASE i \notin lost
      <4>1. k \notin failed
        BY <1>5, <3>1, <3>5
      <4>2. CASE k = first /\ Seeks(first, off)
        <5>1. k \in PatchesAt(off) /\ patches[k].start # off /\ u < End(k)
          BY <2>1, <3>1, <4>2 DEF Seeks, At
        <5>2. patches[k].start \in Nat
          BY <1>3, <2>1, <4>2
        <5>3. CASE patches[k].from = 0
          <6>1. patches[k].from + u - patches[k].start = u - patches[k].start
            BY <1>1, <5>2, <5>3
          <6> QED BY <3>1, <3>2, <3>3, <3>5, <4>1, <4>2, <6>1
        <5>4. CASE patches[k].from # 0
          BY <3>5, <5>1, <5>4
        <5> QED BY <5>3, <5>4
      <4>3. CASE ~(k = first /\ Seeks(first, off))
        BY <3>1, <3>2, <3>3, <3>5, <4>1, <4>3
      <4> QED BY <4>2, <4>3
    <3> QED BY <3>4, <3>5
  <2> QED BY <2>3, <2>4
<1> QED BY <1>7, <1>8

-----------------------------------------------------------------------------
(* The steps of the drive as steps of the disc *)

LEMMA ContentKept ==
  ASSUME UNCHANGED <<numPatches, patches, partitionOffset>>
  PROVE  Content' = Content
BY DEF Content, ContentAt, DiscWord, DataStart, End

LEMMA StaleKept ==
  ASSUME UNCHANGED <<numPatches, partitionOffset, cacheVars>>
  PROVE  StaleAddresses' = StaleAddresses
BY DEF StaleAddresses, StaleAt, Stray, CacheHoldsItsBlock, DataOf, BlockAt, DataStart, cacheVars

LEMMA MendedFields ==
  /\ Mended(reply)'.cmd = reply'.cmd
  /\ Mended(reply)'.result = IF halted' THEN "none" ELSE reply'.result
  /\ Mended(reply)'.at = reply'.at
  /\ DOMAIN Mended(reply)'.data = DOMAIN reply'.data
  /\ Mended(reply)'.lost = reply'.lost
BY DEF Mended

LEMMA MissedKept ==
  ASSUME NEW r, NEW i, UNCHANGED <<numPatches, patches>>
  PROVE  Missed(r, i)' = Missed(r, i)
BY DEF Missed, MissesTheTail, StartsInAGap, SeeksFromTheStart, PatchesAt, Stray, End

LEMMA MendedKept ==
  ASSUME NEW r, reply' = r, UNCHANGED <<numPatches, patches, partitionOffset, halted>>
  PROVE  Mended(reply)' = Mended(r)
<1>1. \A i : ContentAt(r.at + i)' = ContentAt(r.at + i)
  BY DEF ContentAt, DiscWord, DataStart, End
<1>2. \A i : Missed(r, i)' = Missed(r, i)
  BY MissedKept
<1> QED BY <1>1, <1>2 DEF Mended

\* A reply to a read gives what the disc promised.
GivesThePromise(r) == Disc!Right(r) /\ Disc!Readable(r)

LEMMA PromiseKept ==
  ASSUME NEW r, Mended(reply)' = r, GivesThePromise(r), Content' = Content,
         StaleAddresses' = StaleAddresses, partitionOpened' = partitionOpened
  PROVE  GivesThePromise(Mended(reply))'
BY DEF GivesThePromise, Disc!Right, Disc!RightAt, Disc!Mixed, Disc!Readable

\* Before the partition is open no block is kept, no reply said that it is open, and what
\* a reply gave was of the patches.  A partition is opened after the id was read.
EarlyInv ==
  /\ opening # "no" => readDiskIDCalled /\ ~halted
  /\ ~partitionOpened =>
       /\ lastReadBlock = NoBlock
       /\ reply.result = "OK" => reply.cmd # "OpenPartition"
       /\ reply.cmd = "Read" /\ reply.result = "OK" /\ ~halted =>
            /\ \A i \in DOMAIN reply.data : reply.at + i \in Addresses
            /\ GivesThePromise(Mended(reply))

Simulates == [Disc!Next]_(Disc!vars) /\ EarlyInv'

\* A step that says nothing and leaves alone what the disc is.
LEMMA SilentStep ==
  ASSUME EarlyInv, UNCHANGED <<openVars, patchVars, cacheVars, reply, halted>>,
         opening' # "no" => opening # "no"
  PROVE  Simulates
<1>1. UNCHANGED <<readDiskIDCalled, partitionOpened, partitionOffset, numPatches, patches,
                 gameStarted, reply, halted>>
  BY DEF openVars, patchVars
<1>2. Content' = Content /\ StaleAddresses' = StaleAddresses /\ Mended(reply)' = Mended(reply)
  BY <1>1, ContentKept, StaleKept, MendedKept
<1>3. UNCHANGED Disc!vars
  BY <1>1, <1>2 DEF Disc!vars
<1>4. GivesThePromise(Mended(reply)) => GivesThePromise(Mended(reply))'
  BY <1>1, <1>2, PromiseKept
<1>5. EarlyInv'
  BY <1>1, <1>4 DEF EarlyInv, cacheVars, Addresses
<1> QED BY <1>3, <1>5 DEF Simulates

\* A step in which the thread aborts.
LEMMA HaltStep ==
  ASSUME TypeOK, EarlyInv, halted', UNCHANGED <<openVars, patchVars, reply>>, opening' = "no",
         ~partitionOpened => UNCHANGED cacheVars
  PROVE  Simulates
<1>1. UNCHANGED <<readDiskIDCalled, partitionOpened, partitionOffset, numPatches, patches,
                 gameStarted, reply>>
  BY DEF openVars, patchVars
<1>2. Content' = Content /\ Mended(reply)'.result = "none"
  BY <1>1, ContentKept, MendedFields
<1>3. partitionOpened \in BOOLEAN
  BY DEF TypeOK
<1>4. Disc!Next
  BY <1>1, <1>2, <1>3 DEF Disc!Next, Disc!Answers, Disc!OK, Disc!Frozen
<1>5. EarlyInv'
  BY <1>1 DEF EarlyInv, cacheVars
<1> QED BY <1>4, <1>5 DEF Simulates

\* A reply of a command that neither reads nor opens.
LEMMA OtherReply ==
  ASSUME TypeOK, EarlyInv, reply'.result = "OK" => reply'.cmd \notin {"Read", "OpenPartition"},
         partitionOpened' = partitionOpened, readDiskIDCalled => readDiskIDCalled',
         gameStarted => gameStarted', opening' = "no",
         ~partitionOpened => UNCHANGED cacheVars,
         StaleAddresses' \subseteq StaleAddresses \/ reply'.result # "OK",
         partitionOpened /\ gameStarted => Content' = Content
  PROVE  Simulates
<1>1. Disc!Next
  <2>1. partitionOpened \in BOOLEAN
    BY DEF TypeOK
  <2>2. /\ Mended(reply)'.cmd = reply'.cmd
        /\ Mended(reply)'.result = "OK" => reply'.result = "OK"
    BY MendedFields
  <2> QED BY <2>1, <2>2 DEF Disc!Next, Disc!Answers, Disc!OK, Disc!Frozen
<1>2. EarlyInv'
  BY DEF EarlyInv, cacheVars
<1> QED BY <1>1, <1>2 DEF Simulates

\* A reply of a read, by what it gives at each place.
LEMMA ReadReply ==
  ASSUME TypeOK, EarlyInv, NEW at, NEW data, NEW lost,
         reply' = [cmd |-> "Read", result |-> "OK", at |-> at, data |-> data, lost |-> lost],
         ~halted, UNCHANGED <<openVars, patchVars, halted>>, opening' = "no",
         ~partitionOpened => UNCHANGED cacheVars,
         StaleAddresses' \subseteq StaleAddresses \/ lost # {},
         lost # {} => \E i \in DOMAIN data : at + i >= PatchBase,
         \A i \in DOMAIN data :
           /\ at + i \in Addresses
           /\ i \in lost => data[i] = Zero
           /\ i \notin lost =>
                \/ Missed(reply', i) /\ ~(at + i < PatchBase)
                \/ /\ data[i] = ContentAt(at + i) \/ (at \in StaleAddresses
                                                      /\ at + i \in StaleAddresses)
                   /\ at + i < PatchBase => partitionOpened
  PROVE  Simulates
<1> DEFINE r == [cmd |-> "Read", result |-> "OK", at |-> at, data |-> data, lost |-> lost]
           m == Mended(r)
<1>1. UNCHANGED <<readDiskIDCalled, partitionOpened, partitionOffset, numPatches, patches,
                 gameStarted, halted>>
  BY DEF openVars, patchVars
<1>2. Mended(reply)' = m
  BY <1>1, MendedKept
<1>3. /\ m.at = at /\ DOMAIN m.data = DOMAIN data /\ m.lost = lost
      /\ \A i \in DOMAIN data :
           m.data[i] = IF Missed(r, i) THEN ContentAt(at + i) ELSE data[i]
  BY DEF Mended
<1>4. \A i \in lost : ~Missed(r, i)
  BY DEF Missed
<1>5. ASSUME NEW i \in DOMAIN data PROVE Disc!RightAt(m, i)
  <2>1. Content[at + i] = ContentAt(at + i)
    BY DEF Content
  <2> HIDE DEF r, m
  <2>2. CASE i \in lost
    BY <1>3, <1>4, <2>2 DEF Disc!RightAt
  <2>3. CASE i \notin lost
    BY <1>3, <2>1, <2>3 DEF Disc!RightAt, r
  <2> QED BY <2>2, <2>3
<1>6. \A i \in DOMAIN data : at + i < PatchBase /\ i \notin lost => partitionOpened
  OBVIOUS
<1> HIDE DEF m
<1>7. GivesThePromise(m)
  BY <1>3, <1>5, <1>6 DEF GivesThePromise, Disc!Right, Disc!Readable, Disc!Mixed
<1>8. Content' = Content
  BY <1>1, ContentKept
<1>9. Disc!Next
  <2>1. partitionOpened \in BOOLEAN
    BY DEF TypeOK
  <2>2. m.cmd = "Read" /\ m.lost = lost
    BY DEF m, Mended
  <2> QED BY <1>1, <1>2, <1>7, <1>8, <2>1, <2>2
          DEF Disc!Next, Disc!Answers, Disc!OK, Disc!Frozen, GivesThePromise
<1>10. ASSUME ~partitionOpened PROVE GivesThePromise(Mended(reply))'
  <2>1. StaleAddresses' = StaleAddresses
    BY <1>1, <1>10, StaleKept
  <2> QED BY <1>1, <1>2, <1>7, <1>8, <2>1, PromiseKept
<1>11. EarlyInv'
  BY <1>1, <1>10 DEF EarlyInv, cacheVars, Addresses
<1> QED BY <1>9, <1>11 DEF Simulates

\* A read that lost nothing.
LEMMA WholeReply ==
  ASSUME TypeOK, EarlyInv, NEW at, NEW data,
         reply' = [cmd |-> "Read", result |-> "OK", at |-> at, data |-> data, lost |-> {}],
         ~halted, UNCHANGED <<openVars, patchVars, halted>>, opening' = "no",
         ~partitionOpened => UNCHANGED cacheVars,
         StaleAddresses' \subseteq StaleAddresses,
         \A i \in DOMAIN data :
           /\ at + i \in Addresses
           /\ data[i] = ContentAt(at + i) \/ (at \in StaleAddresses
                                               /\ at + i \in StaleAddresses)
           /\ at + i < PatchBase => partitionOpened
  PROVE  Simulates
<1> DEFINE lost == {}
<1>1. lost = {} /\ \A i : i \notin lost
  OBVIOUS
<1>2. reply' = [cmd |-> "Read", result |-> "OK", at |-> at, data |-> data, lost |-> lost]
  OBVIOUS
<1> HIDE DEF lost
<1> QED BY <1>1, <1>2, ReadReply

\* A read that succeeds leaves the right block behind, or the one that was kept.
LEMMA ReadKeepsStale ==
  ASSUME TypeOK, NEW off \in Nat, NEW len \in Nat, PartitionReadOK(off, len),
         UNCHANGED numPatches
  PROVE  StaleAddresses' \subseteq StaleAddresses
<1> DEFINE k == BlockCount(off, len) - 1
<1>1. UNCHANGED partitionOffset
  BY DEF PartitionReadOK, openVars
<1>2. CASE UNCHANGED cacheVars
  BY <1>1, <1>2, StaleKept
<1>3. CASE ~UNCHANGED cacheVars
  <2>1. len # 0
    BY <1>3 DEF PartitionReadOK
  <2>2. k \in Nat
    BY <2>1, ReadsABlock
  <2>3. BlockOK(off, k) /\ lastReadBlock' = BlockAt(off, k) /\ decrypted' = Block(off, k)
    BY <2>1, <2>2 DEF PartitionReadOK
  <2> HIDE DEF k
  <2>4. ~Kept(off, k)
    BY <1>3, <2>3 DEF Kept, Block, cacheVars
  <2>5. \A j \in 0 .. DataSize - 1 : Block(off, k)[j] = Word(BlockAt(off, k) + HeaderSize + j)
    BY <2>2, <2>3, <2>4, BlocksAreRight
  <2>6. Block(off, k) = DataOf(BlockAt(off, k))
    BY <2>4, <2>5 DEF Block, Plain, DataOf
  <2>7. CacheHoldsItsBlock'
    BY <2>3, <2>6 DEF CacheHoldsItsBlock, DataOf
  <2> QED BY <2>7 DEF StaleAddresses, StaleAt, Stray, Addresses
<1> QED BY <1>2, <1>3

\* What a read of the partition leaves alone.
LEMMA ReadLeavesAlone ==
  ASSUME NEW off, NEW len,
         \/ PartitionReadOK(off, len)
         \/ PartitionReadFails(off, len) /\ UNCHANGED <<inserted, openVars>>
  PROVE  /\ UNCHANGED openVars
         /\ ~partitionOpened => UNCHANGED cacheVars
         /\ PartitionReadOK(off, len) => partitionOpened
BY DEF PartitionReadOK, PartitionReadFails, Readable

\* A word that a read gives of the disc is the right one, or from a stale block.
LEMMA PlaceIsRight ==
  ASSUME TypeOK, NEW r \in Reads, NEW len \in Nat, PartitionReadOK(r[1], len),
         NEW i \in 0 .. r[2] - 1, i < len, r[1] + i < PatchBase
  PROVE  \/ ReadWord(r[1], len, i) = ContentAt(r[1] + i)
         \/ r[1] \in StaleAddresses /\ r[1] + i \in StaleAddresses
<1> DEFINE off == r[1]
<1>1. off \in Nat /\ off \in Addresses /\ off + i \in Addresses /\ i \in Nat
      /\ i \in 0 .. len - 1 /\ PatchBase \in Nat /\ off < PatchBase
  BY ReachedAddress, PatchAssumption
<1>2. ContentAt(off + i) = DiscWord(off + i)
  BY DEF ContentAt
<1> HIDE DEF off
<1>3. CASE CacheHoldsItsBlock \/ ~Kept(off, 0) \/ (off + i) \div DataSize # off \div DataSize
  BY <1>1, <1>2, <1>3, ReadWordIsRight DEF off
<1>4. CASE ~CacheHoldsItsBlock /\ Kept(off, 0) /\ (off + i) \div DataSize = off \div DataSize
  <2>1. lastReadBlock = BlockAt(off, 0) /\ lastReadBlock = BlockAt(off + i, 0)
    BY <1>4 DEF Kept, BlockAt
  <2> QED BY <1>1, <1>4, <2>1 DEF StaleAddresses, StaleAt, off
<1> QED BY <1>3, <1>4

\* A read of the disc alone.
LEMMA DiscReadSimulates ==
  ASSUME TypeOK, NEW r \in Reads, ReadDisc(r[1], r[2]), EarlyInv, ~halted,
         UNCHANGED patchVars, opening' = "no"
  PROVE  Simulates
<1> DEFINE off == r[1]  len == r[2]
<1>1. off \in Nat /\ len \in Nat /\ PatchBase \in Nat
  BY PatchAssumption
<1>2. CASE PartitionReadOK(off, len)
           /\ Say("Read", "OK", off, [i \in 0 .. len - 1 |-> ReadWord(off, len, i)], {})
  <2> DEFINE data == [i \in 0 .. len - 1 |-> ReadWord(off, len, i)]
  <2>1. reply' = [cmd |-> "Read", result |-> "OK", at |-> off, data |-> data, lost |-> {}]
    BY <1>2 DEF Say
  <2>2. UNCHANGED openVars /\ partitionOpened
    BY <1>2, ReadLeavesAlone
  <2>3. ASSUME NEW i \in 0 .. len - 1
        PROVE  /\ off + i \in Addresses
               /\ data[i] = ContentAt(off + i) \/ (off \in StaleAddresses
                                                   /\ off + i \in StaleAddresses)
    <3>1. off + i \in Addresses /\ off + i < PatchBase /\ i < len
      BY <1>1, ReachedAddress DEF ReadDisc
    <3> QED BY <1>1, <1>2, <3>1, PlaceIsRight
  <2>4. StaleAddresses' \subseteq StaleAddresses
    BY <1>1, <1>2, ReadKeepsStale DEF patchVars
  <2>5. UNCHANGED halted
    BY DEF ReadDisc
  <2>6. DOMAIN data = 0 .. len - 1
    OBVIOUS
  <2> HIDE DEF data, off, len
  <2> QED BY <2>1, <2>2, <2>3, <2>4, <2>5, <2>6, WholeReply
<1>3. CASE PartitionReadFails(off, len) /\ UNCHANGED <<inserted, openVars>>
           /\ SayOnly("Read", "Drive")
  <2>1. reply'.result = "Drive"
    BY <1>3 DEF SayOnly, Say
  <2>2. UNCHANGED <<readDiskIDCalled, partitionOpened, partitionOffset, numPatches, patches,
                   gameStarted>>
    BY <1>3 DEF openVars, patchVars
  <2>3. ~partitionOpened => UNCHANGED cacheVars
    BY <1>3, ReadLeavesAlone
  <2> QED BY <2>1, <2>2, <2>3, OtherReply, ContentKept
<1> QED BY <1>2, <1>3 DEF ReadDisc

\* A read that goes on into the patches, whatever it gives of them.
LEMMA AnswerBothSimulates ==
  ASSUME TypeOK, NEW r \in Reads, NEW patch, AnswerBoth(r[1], r[2], patch), EarlyInv, ~halted,
         r[1] < PatchBase, r[1] + r[2] - 1 >= PatchBase,
         UNCHANGED <<patchVars, halted>>, opening' = "no"
  PROVE  Simulates
<1> DEFINE off == r[1]  len == r[2]  n == PatchBase - off
           Data(disc) == [i \in 0 .. len - 1 |-> IF i < n THEN disc[i] ELSE patch[i]]
<1>1. off \in Nat /\ len \in Nat /\ PatchBase \in Nat /\ n \in Nat /\ 0 < n /\ n < len
  BY PatchAssumption
<1>2. PICK disc, lost :
        /\ Say("Read", "OK", off, Data(disc), lost)
        /\ \/ /\ PartitionReadOK(off, n) /\ disc = [i \in 0 .. n - 1 |-> ReadWord(off, n, i)]
              /\ lost = {}
           \/ /\ PartitionReadFails(off, n) /\ UNCHANGED <<inserted, openVars>>
              /\ disc = [i \in 0 .. n - 1 |-> Zero] /\ lost = 0 .. n - 1
  BY DEF AnswerBoth
<1> DEFINE data == Data(disc)
<1>3. reply' = [cmd |-> "Read", result |-> "OK", at |-> off, data |-> data, lost |-> lost]
  BY <1>2 DEF Say
<1>4. UNCHANGED openVars /\ (~partitionOpened => UNCHANGED cacheVars)
      /\ (PartitionReadOK(off, n) => partitionOpened)
  BY <1>2, ReadLeavesAlone
<1>5. StaleAddresses' \subseteq StaleAddresses \/ lost # {}
  <2>1. CASE PartitionReadOK(off, n)
    BY <1>1, <2>1, ReadKeepsStale DEF patchVars
  <2>2. CASE lost = 0 .. n - 1
    <3>1. 0 \in 0 .. n - 1
      BY <1>1
    <3> QED BY <2>2, <3>1
  <2> QED BY <1>2, <2>1, <2>2
<1>6. DOMAIN data = 0 .. len - 1
  OBVIOUS
<1>7. \E i \in DOMAIN data : off + i >= PatchBase
  <2>1. len - 1 \in DOMAIN data /\ off + (len - 1) >= PatchBase
    BY <1>1, <1>6
  <2> QED BY <2>1
<1>8. ASSUME NEW i \in 0 .. len - 1
      PROVE  /\ off + i \in Addresses
             /\ i \in lost => data[i] = Zero
             /\ i \notin lost =>
                  \/ Missed(reply', i) /\ ~(off + i < PatchBase)
                  \/ /\ data[i] = ContentAt(off + i) \/ (off \in StaleAddresses
                                                         /\ off + i \in StaleAddresses)
                     /\ off + i < PatchBase => partitionOpened
  <2>1. off + i \in Addresses /\ i \in Nat
    BY ReachedAddress
  <2>2. CASE i < n
    <3>1. data[i] = disc[i] /\ i \in 0 .. n - 1 /\ off + i < PatchBase
      BY <1>1, <2>1, <2>2
    <3>2. CASE PartitionReadOK(off, n) /\ lost = {}
               /\ disc = [j \in 0 .. n - 1 |-> ReadWord(off, n, j)]
      <4>1. \/ ReadWord(off, n, i) = ContentAt(off + i)
            \/ off \in StaleAddresses /\ off + i \in StaleAddresses
        BY <1>1, <2>2, <3>1, <3>2, PlaceIsRight
      <4>2. data[i] = ReadWord(off, n, i)
        BY <3>1, <3>2
      <4> QED BY <1>4, <2>1, <3>2, <4>1, <4>2
    <3>3. CASE disc = [j \in 0 .. n - 1 |-> Zero] /\ lost = 0 .. n - 1
      BY <2>1, <3>1, <3>3
    <3> QED BY <1>2, <3>2, <3>3
  <2>3. CASE ~(i < n)
    <3>1. off + i >= PatchBase /\ ~(off + i < PatchBase)
      BY <1>1, <2>1, <2>3
    <3>2. i \notin lost
      BY <1>1, <1>2, <2>1, <2>3
    <3>3. reply'.cmd = "Read" /\ reply'.lost = lost /\ reply'.at = off
      BY <1>3
    <3> HIDE DEF data, off, n
    <3>4. Missed(reply', i)
      BY <3>1, <3>2, <3>3 DEF Missed, MissesTheTail, off
    <3> QED BY <2>1, <3>1, <3>2, <3>4
  <2> QED BY <2>2, <2>3
<1> HIDE DEF data, off, len, n
<1> QED BY <1>3, <1>4, <1>5, <1>6, <1>7, <1>8, ReadReply

\* A read of the patches alone.
LEMMA PatchReadSimulates ==
  ASSUME TypeOK, TakenInv, ValidTables, ~Stray, ~halted,
         NEW r \in Reads, ReadPatches(r[1], r[2]), EarlyInv, UNCHANGED patchVars, opening' = "no"
  PROVE  Simulates
<1> DEFINE off == r[1]  len == r[2]  first == SearchPatch(off)
<1>1. PICK failed :
        Say("Read", "OK", off,
            [i \in 0 .. len - 1 |-> PatchedWord(first, off, off + i, failed)],
            LostPlaces(first, off, len, failed))
  BY DEF ReadPatches
<1> DEFINE data == [i \in 0 .. len - 1 |-> PatchedWord(first, off, off + i, failed)]
           lost == LostPlaces(first, off, len, failed)
<1>2. reply' = [cmd |-> "Read", result |-> "OK", at |-> off, data |-> data, lost |-> lost]
  BY <1>1 DEF Say
<1>3. off >= PatchBase /\ len \in Nat /\ len > 0 /\ off \in Nat /\ PatchBase \in Nat
  BY PatchAssumption DEF ReadPatches
<1>4. UNCHANGED <<openVars, cacheVars, numPatches, patches, partitionOffset, halted>>
  BY DEF ReadPatches, isoVars, patchVars, openVars
<1>5. StaleAddresses' = StaleAddresses
  BY <1>4, StaleKept
<1>6. DOMAIN data = 0 .. len - 1
  OBVIOUS
<1>7. \E i \in DOMAIN data : off + i >= PatchBase
  <2>1. 0 \in DOMAIN data /\ off + 0 >= PatchBase
    BY <1>3, <1>6
  <2> QED BY <2>1
<1>8. ASSUME NEW i \in 0 .. len - 1
      PROVE  /\ off + i \in Addresses
             /\ i \in lost => data[i] = Zero
             /\ i \notin lost =>
                  (Missed(reply', i) \/ data[i] = ContentAt(off + i)) /\ ~(off + i < PatchBase)
  <2>1. off + i \in Addresses /\ ~(off + i < PatchBase)
    BY <1>3, ReachedAddress
  <2>2. reply'.cmd = "Read" /\ reply'.lost = lost /\ reply'.at = off
    BY <1>2
  <2>3. data[i] = PatchedWord(first, off, off + i, failed)
    OBVIOUS
  <2>4. IF i \in lost THEN data[i] = Zero
        ELSE \/ data[i] = ContentAt(off + i)
             \/ PatchesAt(off) = {}
             \/ \E k \in PatchesAt(off) :
                  patches[k].start # off /\ off + i < End(k) /\ patches[k].from # 0
    BY <1>3, <2>3, PatchedWordIsRight
  <2> HIDE DEF data, lost, off
  <2>5. i \notin lost => Missed(reply', i) \/ data[i] = ContentAt(off + i)
    BY <1>3, <2>2, <2>4 DEF Missed, StartsInAGap, SeeksFromTheStart
  <2> QED BY <2>1, <2>4, <2>5
<1> HIDE DEF data, off, len, lost
<1> QED BY <1>2, <1>4, <1>5, <1>6, <1>7, <1>8, ReadReply

\* A read with a search past the end of DiPatches.
LEMMA StrayReadSimulates ==
  ASSUME TypeOK, Stray, NEW r \in Reads, ReadStray(r[1], r[2]), EarlyInv, ~halted,
         UNCHANGED patchVars, opening' = "no"
  PROVE  Simulates
<1> DEFINE off == r[1]  len == r[2]  data == [i \in 0 .. len - 1 |-> Unwritten]
<1>1. off \in Nat /\ len \in Nat /\ PatchBase \in Nat /\ off + len > PatchBase
  BY PatchAssumption DEF ReadStray
<1>2. CASE halted' /\ UNCHANGED reply
  <2>1. UNCHANGED openVars /\ (~partitionOpened => UNCHANGED cacheVars)
    <3>1. CASE off >= PatchBase
      BY <3>1, <1>1 DEF ReadStray, isoVars
    <3>2. CASE ~(off >= PatchBase)
      <4>1. \/ PartitionReadOK(off, PatchBase - off)
            \/ PartitionReadFails(off, PatchBase - off) /\ UNCHANGED <<inserted, openVars>>
        BY <1>2, <3>2 DEF ReadStray, AnswerBoth
      <4> QED BY <4>1, ReadLeavesAlone
    <3> QED BY <3>1, <3>2
  <2> QED BY <1>2, <2>1, HaltStep
<1>3. CASE off < PatchBase /\ AnswerBoth(off, len, data) /\ UNCHANGED halted
  <2>1. off + len - 1 >= PatchBase
    BY <1>1
  <2> QED BY <1>3, <2>1, AnswerBothSimulates
<1>4. CASE off >= PatchBase /\ UNCHANGED isoVars /\ Say("Read", "OK", off, data, {})
           /\ UNCHANGED halted
  <2>1. reply' = [cmd |-> "Read", result |-> "OK", at |-> off, data |-> data, lost |-> {}]
    BY <1>4 DEF Say
  <2>2. UNCHANGED <<openVars, cacheVars, numPatches, partitionOffset>>
    BY <1>4 DEF isoVars, patchVars, openVars
  <2>3. StaleAddresses' = StaleAddresses
    BY <2>2, StaleKept
  <2>4. ASSUME NEW i \in 0 .. len - 1
        PROVE  /\ off + i \in Addresses /\ ~(off + i < PatchBase)
               /\ off \in StaleAddresses /\ off + i \in StaleAddresses
    <3>1. off + i \in Addresses /\ off \in Addresses /\ off + i >= PatchBase
          /\ ~(off + i < PatchBase)
      BY <1>1, <1>4, ReachedAddress
    <3> QED BY <1>4, <3>1 DEF StaleAddresses, StaleAt
  <2>5. DOMAIN data = 0 .. len - 1
    OBVIOUS
  <2> HIDE DEF data, off, len
  <2> QED BY <1>4, <2>1, <2>2, <2>3, <2>4, <2>5, WholeReply
<1> QED BY <1>2, <1>3, <1>4 DEF ReadStray

LEMMA ReadSimulates ==
  ASSUME TypeOK, TakenInv, ValidTables, EarlyInv, Read
  PROVE  Simulates
<1>1. UNCHANGED patchVars /\ opening' = "no" /\ ~halted
  BY DEF Read, Ready
<1>2. PICK r \in Reads :
        \/ ReadDisc(r[1], r[2])
        \/ ~Stray /\ (ReadBoth(r[1], r[2]) \/ ReadPatches(r[1], r[2]) \/ ReadAborts(r[1], r[2]))
        \/ Stray /\ ReadStray(r[1], r[2])
  BY DEF Read
<1>3. CASE ReadDisc(r[1], r[2])
  BY <1>1, <1>3, DiscReadSimulates
<1>4. CASE ~Stray /\ ReadBoth(r[1], r[2])
  BY <1>1, <1>4, AnswerBothSimulates DEF ReadBoth
<1>5. CASE ~Stray /\ ReadPatches(r[1], r[2])
  BY <1>1, <1>5, PatchReadSimulates
<1>6. CASE ~Stray /\ ReadAborts(r[1], r[2])
  <2>1. halted' /\ UNCHANGED <<openVars, cacheVars, reply>>
    BY <1>6 DEF ReadAborts, isoVars
  <2> QED BY <1>1, <2>1, HaltStep
<1>7. CASE Stray /\ ReadStray(r[1], r[2])
  BY <1>1, <1>7, StrayReadSimulates
<1> QED BY <1>2, <1>3, <1>4, <1>5, <1>6, <1>7

\* Of the commands that neither read the partition nor open it, only a table of patches
\* that is refused makes addresses stale, and only before the game starts does one change
\* what there is to read.
LEMMA CommandSimulates ==
  ASSUME TypeOK, EarlyInv,
         \/ ReadRawWords \/ PatchDVD \/ StartGame \/ Refused \/ Registers \/ ReadDiskID
         \/ OpenFails
  PROVE  Simulates
<1>1. CASE ReadRawWords
  <2>1. /\ reply'.cmd = "UnencryptedRead" /\ opening' = "no"
        /\ UNCHANGED <<openVars, cacheVars, patchVars>>
    BY <1>1 DEF ReadRawWords, UnencryptedRead, SayOnly, Say, isoVars, Ready
  <2>2. UNCHANGED <<readDiskIDCalled, partitionOpened, partitionOffset, numPatches, patches,
                   gameStarted>>
    BY <2>1 DEF openVars, patchVars
  <2> QED BY <2>1, <2>2, OtherReply, ContentKept, StaleKept
<1>2. CASE PatchDVD
  <2>1. PICK t \in Tables :
          /\ numPatches' = Len(t)
          /\ IF Len(t) > MaxPatches THEN SayOnly("PatchDVD", "NoMemory")
                                    ELSE SayOnly("PatchDVD", "OK")
    BY <1>2 DEF PatchDVD
  <2>2. /\ reply'.cmd = "PatchDVD" /\ (Len(t) > MaxPatches => reply'.result # "OK")
        /\ opening' = "no" /\ ~gameStarted
        /\ UNCHANGED <<readDiskIDCalled, partitionOpened, partitionOffset, gameStarted, cacheVars>>
    BY <1>2, <2>1 DEF PatchDVD, SayOnly, Say, Ready, isoVars, openVars
  <2>3. ASSUME reply'.result = "OK" PROVE StaleAddresses' \subseteq StaleAddresses
    BY <2>1, <2>2, <2>3
       DEF StaleAddresses, StaleAt, Stray, CacheHoldsItsBlock, DataOf, BlockAt, DataStart,
           cacheVars
  <2> QED BY <2>2, <2>3, OtherReply
<1>3. CASE StartGame \/ Refused \/ Registers
  <2>1. /\ reply'.cmd \in {"StartGame", "other", "cover"} /\ opening' = "no"
        /\ gameStarted => gameStarted'
        /\ UNCHANGED <<readDiskIDCalled, partitionOpened, partitionOffset, numPatches, patches,
                       cacheVars>>
    BY <1>3 DEF StartGame, Refused, Registers, SayOnly, Say, Ready, isoVars, openVars, patchVars
  <2> QED BY <2>1, OtherReply, ContentKept, StaleKept
<1>4. CASE ReadDiskID
  <2>1. /\ reply'.cmd = "ReadDiskID" /\ opening' = "no"
        /\ readDiskIDCalled => readDiskIDCalled'
        /\ UNCHANGED <<partitionOpened, partitionOffset, patchVars, cacheVars>>
    BY <1>4 DEF ReadDiskID, DiskIDOK, DiskIDFails, SayOnly, Say, Ready, openVars
  <2>2. UNCHANGED <<numPatches, patches, gameStarted>>
    BY <2>1 DEF patchVars
  <2> QED BY <2>1, <2>2, OtherReply, ContentKept, StaleKept
<1>5. CASE OpenFails
  <2>1. /\ reply'.result \in {"Invalid", "Drive", "Security"} /\ opening' = "no"
        /\ UNCHANGED <<readDiskIDCalled, partitionOpened, patchVars, cacheVars>>
        /\ partitionOpened => UNCHANGED partitionOffset
    BY <1>5 DEF OpenFails, HeadFails, Openable, SayOnly, Say, Ready, isoVars, openVars
  <2>2. UNCHANGED <<numPatches, patches, gameStarted>>
    BY <2>1 DEF patchVars
  <2> QED BY <2>1, <2>2, OtherReply, ContentKept
<1> QED BY <1>1, <1>2, <1>3, <1>4, <1>5

\* The head of a partition makes another one what there is to read, before anything of
\* it was read.
LEMMA OpenHeadSimulates ==
  ASSUME TypeOK, EarlyInv, OpenHead
  PROVE  Simulates
<1> DEFINE r == Mended(reply)  Was == reply.cmd = "Read" /\ reply.result = "OK"
<1>1. /\ ~partitionOpened /\ readDiskIDCalled /\ ~halted
      /\ UNCHANGED <<readDiskIDCalled, partitionOpened, patchVars, cacheVars, reply, halted>>
  BY DEF OpenHead, HeadOK, Openable, Ready
<1>2. UNCHANGED <<numPatches, patches, gameStarted>> /\ partitionOpened \in BOOLEAN
  BY <1>1 DEF patchVars, TypeOK
<1>3. \A u : ~(u < PatchBase) => ContentAt(u)' = ContentAt(u)
  BY <1>2 DEF ContentAt, End
<1>4. StaleAddresses' = StaleAddresses
  <2>1. CacheHoldsItsBlock /\ CacheHoldsItsBlock'
    BY <1>1 DEF EarlyInv, CacheHoldsItsBlock, cacheVars
  <2> QED BY <1>2, <2>1 DEF StaleAddresses, StaleAt, Stray
<1>5. Was => /\ GivesThePromise(r)
             /\ \A i \in DOMAIN reply.data : reply.at + i \in Addresses
  BY <1>1 DEF EarlyInv
<1>6. /\ r.at = reply.at /\ DOMAIN r.data = DOMAIN reply.data /\ r.lost = reply.lost
      /\ r.cmd = reply.cmd /\ r.result = reply.result
  BY <1>1 DEF Mended
\* What is not lost is of the patches.
<1>7. Was => \A i \in DOMAIN reply.data : i \notin reply.lost => ~(reply.at + i < PatchBase)
  BY <1>1, <1>5, <1>6 DEF GivesThePromise, Disc!Readable
<1>8. Was => Mended(reply)' = r
  <2>1. \A i : Missed(reply, i)' = Missed(reply', i)
    BY <1>1, <1>2 DEF Missed, MissesTheTail, StartsInAGap, SeeksFromTheStart, PatchesAt, Stray, End
  <2>2. \A i : Missed(reply', i) = Missed(reply, i)
    BY <1>1
  <2>3. \A i : Missed(reply, i) => i \notin reply.lost
    BY DEF Missed
  <2>4. ASSUME Was, NEW i \in DOMAIN reply.data, Missed(reply, i)
        PROVE  ContentAt(reply.at + i)' = ContentAt(reply.at + i)
    <3>1. ~(reply.at + i < PatchBase)
      BY <1>7, <2>3, <2>4
    <3> QED BY <1>1, <1>2, <3>1 DEF ContentAt, End
  <2> QED BY <1>1, <2>1, <2>2, <2>4 DEF Mended
<1> HIDE DEF r
<1>9. ASSUME Was PROVE GivesThePromise(Mended(reply))'
  <2>1. ASSUME NEW i \in DOMAIN reply.data, i \notin reply.lost
        PROVE  Content'[reply.at + i] = Content[reply.at + i]
    BY <1>3, <1>5, <1>7, <1>9, <2>1 DEF Content, Addresses
  <2> QED BY <1>1, <1>4, <1>5, <1>6, <1>7, <1>8, <1>9, <2>1
          DEF GivesThePromise, Disc!Right, Disc!RightAt, Disc!Mixed, Disc!Readable
<1>10. Disc!Next
  <2>1. /\ Mended(reply)'.cmd = reply.cmd /\ Mended(reply)'.result = reply.result
    BY <1>1, MendedFields
  <2>2. ~(reply.cmd = "OpenPartition" /\ reply.result = "OK")
    BY <1>1 DEF EarlyInv
  <2> QED BY <1>1, <1>2, <1>4, <1>5, <1>8, <2>1, <2>2
          DEF Disc!Next, Disc!Answers, Disc!OK, Disc!Frozen, GivesThePromise
<1>11. EarlyInv'
  BY <1>1, <1>5, <1>9 DEF EarlyInv, cacheVars, Addresses
<1> QED BY <1>10, <1>11 DEF Simulates

\* The partition opens, after the disc's id was read.
LEMMA OpenDoneSimulates ==
  ASSUME TypeOK, EarlyInv, OpenDone
  PROVE  Simulates
<1>1. /\ readDiskIDCalled /\ partitionOpened' = TRUE /\ ~halted
      /\ reply'.cmd = "OpenPartition" /\ reply'.result = "OK" /\ opening' = "no"
      /\ UNCHANGED <<readDiskIDCalled, partitionOffset, patchVars, cacheVars, halted>>
  BY DEF OpenDone, PartitionOpens, SayOnly, Say, EarlyInv
<1>2. UNCHANGED <<numPatches, patches, gameStarted>>
  BY <1>1 DEF patchVars
<1>3. StaleAddresses' = StaleAddresses /\ Content' = Content
  BY <1>1, <1>2, StaleKept, ContentKept
<1>4. Disc!Next
  <2>1. Mended(reply)'.cmd = "OpenPartition" /\ Mended(reply)'.result = "OK"
    BY <1>1, MendedFields
  <2> QED BY <1>1, <1>2, <1>3, <2>1 DEF Disc!Next, Disc!Answers, Disc!OK, Disc!Frozen
<1>5. EarlyInv'
  BY <1>1 DEF EarlyInv
<1> QED BY <1>4, <1>5 DEF Simulates

LEMMA NextSimulates ==
  ASSUME TypeOK, TakenInv, ValidTables, EarlyInv, [Next]_vars
  PROVE  Simulates
<1>1. CASE OpenVerify \/ ESThread \/ Card \/ UNCHANGED vars
  <2>1. /\ UNCHANGED <<openVars, patchVars, cacheVars, reply, halted>>
        /\ opening' # "no" => opening # "no"
    BY <1>1 DEF OpenVerify, ESThread, Card, CardMoves, isoVars, vars
  <2> QED BY <2>1, SilentStep
<1> QED BY <1>1, ReadSimulates, CommandSimulates, OpenHeadSimulates, OpenDoneSimulates
           DEF Next, DIThread

LEMMA InitSimulates ==
  ASSUME Init
  PROVE  Disc!Init /\ EarlyInv
<1>1. /\ readDiskIDCalled = FALSE /\ partitionOpened = FALSE /\ gameStarted = FALSE
      /\ lastReadBlock = NoBlock /\ numPatches = 0 /\ opening = "no" /\ halted = FALSE
      /\ reply.result = "none"
  BY DEF Init, ISOInit
<1>2. StaleAddresses = {}
  BY <1>1, PatchAssumption DEF StaleAddresses, StaleAt, CacheHoldsItsBlock, Stray
<1>3. Mended(reply).result = "none"
  BY <1>1 DEF Mended
<1> QED BY <1>1, <1>2, <1>3 DEF Disc!Init, EarlyInv

\* The drive is the disc a game was promised, with an image of any size, in blocks of any
\* size, and with any tables of patches in order: it opens once, after its id was read;
\* reads that are answered OK give the words of the partition or of its patches, across
\* failing reads, a card that goes and a table that is refused; and what there is to read
\* is fixed once the game runs.  Three kinds of words are excepted by name, whatever the
\* tables (Missed): what a read that comes from the disc should give of the patches, what
\* one that starts in a gap should give of them, and what one that starts inside a patch
\* that is a later part of a file should give of that patch.  So are reads that start at
\* a stale address: in the block that a failed read left kept, or in the patches while a
\* refused table has left DiNumPatches past their end.
THEOREM DriveIsDisc ==
  ASSUME ValidTables
  PROVE  Spec => ImplementsDisc
<1> DEFINE DInv == TakenInv /\ EarlyInv
<1>1. Init => DInv /\ Disc!Init
  BY TakenInit, InitSimulates
<1>2. TypeOK /\ DInv /\ [Next]_vars => DInv' /\ [Disc!Next]_(Disc!vars)
  BY TakenStep, NextSimulates DEF Simulates
<1> QED BY <1>1, <1>2, TypeCorrect, PTL DEF Spec, ImplementsDisc, Disc!Spec

=============================================================================
