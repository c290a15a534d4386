------------------------- MODULE SerialLinksProofs --------------------------
(***************************************************************************)
(* Proofs about both lines of SerialLinks, for every size of the buffers,  *)
(* any messages and any number of frames, faults and pauses.  The rudder's *)
(* first: the codec, of which what is encoded decodes to what it was made  *)
(* of, then RudderInv, which follows the frame on the line byte by byte.   *)
(* Then the receiver's: the Course of states through which each of its     *)
(* messages takes the parser, and WireInv, which follows the message on    *)
(* the line along it.                                                      *)
(***************************************************************************)
EXTENDS SerialLinks, Induction

-----------------------------------------------------------------------------
(* Bytes, and the two that a CRC is sent as.                               *)

\* A byte.
Byte == 0 .. 255

\* The value of each bit of a byte.
Power == [i \in 0 .. 8 |-> 2^i]

\* Each bit is worth twice the one below it.
LEMMA PowersDouble ==
  /\ Power[0] = 1 /\ Power[8] = 256
  /\ \A i \in 0 .. 7 : Power[i] \in Nat /\ Power[i + 1] = 2 * Power[i]
<1>1. /\ Power[0] = 1 /\ Power[1] = 2 /\ Power[2] = 4 /\ Power[3] = 8 /\ Power[4] = 16
      /\ Power[5] = 32 /\ Power[6] = 64 /\ Power[7] = 128 /\ Power[8] = 256
  BY DEF Power
<1>2. \A i \in 0 .. 7 : i = 0 \/ i = 1 \/ i = 2 \/ i = 3 \/ i = 4 \/ i = 5 \/ i = 6 \/ i = 7
  OBVIOUS
<1> QED
  BY <1>1, <1>2

\* The bits below bit k.
Below(k) == 0 .. k - 1

\* A set of bits adds up to a byte: a bit is worth more than all below it
\* together.
LEMMA SumOfPowers ==
  ASSUME NEW T, NEW f, NEW h, Summable(f, T), SumOver(h, f, T),
         \A i \in T : i \in 0 .. 7 /\ f[i] = Power[i]
  PROVE  h[T] \in Byte
<1> DEFINE P == {k \in 0 .. 8 : \A s \in SUBSET T : s \subseteq Below(k) => h[s] \in Below(Power[k])}
<1>1. 0 \in P
  <2>1. \A s \in SUBSET T : s \subseteq Below(0) => s = {}
    BY DEF Below
  <2>2. h[{}] = 0 /\ 0 \in Below(Power[0])
    BY PowersDouble DEF SumOver, Below
  <2> QED BY <2>1, <2>2
<1>2. ASSUME NEW k \in 0 .. 8 - 1, k \in P PROVE k + 1 \in P
  <2>1. ASSUME NEW s \in SUBSET T, s \subseteq Below(k + 1)
        PROVE  h[s] \in Below(Power[k + 1])
    <3>1. Power[k + 1] = 2 * Power[k] /\ Power[k] \in Nat
      BY PowersDouble
    <3>2. CASE k \in s
      <4>1. s \ {k} \in SUBSET T /\ s \ {k} \subseteq Below(k)
        BY <2>1 DEF Below
      <4>2. h[s \ {k}] \in Below(Power[k])
        BY <1>2, <4>1
      <4>3. \A y \in s : h[s] = f[y] + h[s \ {y}]
        BY SumSplits
      <4>4. f[k] = Power[k]
        BY <3>2
      <4>5. h[s] = Power[k] + h[s \ {k}]
        BY <3>2, <4>3, <4>4
      <4> QED BY <3>1, <4>2, <4>5 DEF Below
    <3>3. CASE k \notin s
      <4>1. s \subseteq Below(k)
        BY <2>1, <3>3 DEF Below
      <4>2. h[s] \in Below(Power[k])
        BY <1>2, <4>1
      <4> QED BY <3>1, <4>2 DEF Below
    <3> QED BY <3>2, <3>3
  <2> QED BY <2>1
<1>3. 8 \in P
  <2> HIDE DEF P
  <2> QED BY <1>1, <1>2, CountUp
<1>4. T \subseteq Below(8)
  BY DEF Below
<1>5. h[T] \in Below(Power[8])
  BY <1>3, <1>4
<1> QED
  BY <1>5, PowersDouble DEF Below, Byte

\* What Crc!Number makes of eight bits is a byte.
LEMMA NumberIsByte ==
  ASSUME NEW bits \in SUBSET (0 .. 7) PROVE Number(bits) \in Byte
<1> DEFINE f == [i \in bits |-> 2^i]
           c == CHOOSE h : SumEquation(h, f, bits)
<1>1. \A i \in bits : i \in 0 .. 7 /\ f[i] = Power[i] /\ f[i] \in Int
  BY PowersDouble DEF Power
<1>2. Summable(f, bits)
  <2>1. IsFiniteSet(0 .. 7)
    <3>1. 0 \in Int /\ 7 \in Int
      OBVIOUS
    <3> QED BY <3>1, FS_Interval, Zenon
  <2>2. IsFiniteSet(bits)
    BY <2>1, FS_Subset, Zenon
  <2> QED BY <1>1, <2>2 DEF Summable
<1>3. Number(bits) = c[bits]
  BY DEF Number, MapThenSumSet, MapThenFoldSet, SumEquation
<1> HIDE DEF f
<1>4. SumOver(c, f, bits)
  BY <1>2, SumChosen
<1> HIDE DEF c
<1> QED
  BY <1>1, <1>2, <1>3, <1>4, SumOfPowers

\* A CRC is sent as two bytes, whatever was shifted through it.
LEMMA CrcIsTwoBytes ==
  ASSUME NEW crc PROVE LittleEndian(crc) \in Seq(Byte) /\ Len(LittleEndian(crc)) = 2
<1>1. crc \cap 0 .. 7 \in SUBSET (0 .. 7)
  OBVIOUS
<1>2. {i - 8 : i \in crc \cap 8 .. 15} \in SUBSET (0 .. 7)
  OBVIOUS
<1>3. Number(crc \cap 0 .. 7) \in Byte /\ Number({i - 8 : i \in crc \cap 8 .. 15}) \in Byte
  BY <1>1, <1>2, NumberIsByte
<1> QED
  BY <1>3 DEF LittleEndian

-----------------------------------------------------------------------------
(* The COBS encoder.                                                       *)

\* The bytes that are not the delimiter.
NonZero == 1 .. 255

\* The states of the COBS encoder: closed blocks, and the open block.
Accs == {acc \in [out : Seq(NonZero), block : Seq(NonZero)] : Len(acc.block) + 1 < FullBlock}

\* The encoder before the first byte.
NoBytes == [out |-> <<>>, block |-> <<>>]

\* The code of a block is a byte and not the delimiter.
LEMMA CodeIsNonZero == /\ FullBlock \in Nat
                       /\ \A n \in Nat : n + 1 <= FullBlock => n + 1 \in NonZero
BY FrameAssumption DEF NonZero

\* A byte is the delimiter or not.
LEMMA ByteSplit == /\ \A byte \in Byte : byte = Delimiter \/ byte \in NonZero
                   /\ \A byte \in NonZero : byte # Delimiter /\ byte \in Byte
BY DEF Byte, NonZero, Delimiter

\* j is s followed by r, element by element.
IsJoin(s, r, j) ==
  /\ Len(j) = Len(s) + Len(r) /\ Len(s) \in Nat /\ Len(r) \in Nat
  /\ \A i \in 1 .. Len(s) : j[i] = s[i]
  /\ \A i \in 1 .. Len(r) : j[Len(s) + i] = r[i]

\* Concatenation, element by element.
LEMMA Joined ==
  ASSUME NEW S, NEW s \in Seq(S), NEW r \in Seq(S)
  PROVE  s \o r \in Seq(S) /\ IsJoin(s, r, s \o r)
BY DEF IsJoin

\* A closed block is its code and its bytes, with no delimiter among them.
LEMMA CloseBlockType ==
  ASSUME NEW block \in Seq(NonZero), Len(block) + 1 <= FullBlock
  PROVE  /\ CloseBlock(block) \in Seq(NonZero)
         /\ Len(CloseBlock(block)) = Len(block) + 1
         /\ CloseBlock(block)[1] = Len(block) + 1
         /\ \A i \in 1 .. Len(block) : CloseBlock(block)[i + 1] = block[i]
<1>1. Len(block) \in Nat
  OBVIOUS
<1> DEFINE len == Len(block) + 1
<1>2. len \in NonZero
  BY <1>1, CodeIsNonZero
<1> HIDE DEF len
<1>3. <<len>> \in Seq(NonZero) /\ Len(<<len>>) = 1 /\ <<len>>[1] = len
  BY <1>2
<1>4. /\ <<len>> \o block \in Seq(NonZero)
      /\ Len(<<len>> \o block) = Len(block) + 1
      /\ (<<len>> \o block)[1] = len
      /\ \A i \in 1 .. Len(block) : (<<len>> \o block)[i + 1] = block[i]
  BY <1>3
<1> QED
  BY <1>4 DEF CloseBlock, len

\* The parts of an encoder state.
LEMMA AccFields ==
  ASSUME NEW acc \in Accs
  PROVE  /\ acc.out \in Seq(NonZero) /\ acc.block \in Seq(NonZero)
         /\ Len(acc.block) + 1 < FullBlock /\ Len(acc.block) \in Nat
         /\ acc = [out |-> acc.out, block |-> acc.block]
BY DEF Accs

\* An encoder state from its parts.
LEMMA AccBuilt ==
  ASSUME NEW out \in Seq(NonZero), NEW block \in Seq(NonZero), Len(block) + 1 < FullBlock
  PROVE  [out |-> out, block |-> block] \in Accs
BY DEF Accs

\* The three ways in which a byte is taken.
Closes(acc, byte, next) ==
  byte = Delimiter /\ next = [out |-> acc.out \o CloseBlock(acc.block), block |-> <<>>]
Fills(acc, byte, next) ==
  /\ byte \in NonZero /\ Len(acc.block) + 2 = FullBlock
  /\ next = [out |-> acc.out \o CloseBlock(Append(acc.block, byte)), block |-> <<>>]
Extends(acc, byte, next) ==
  /\ byte \in NonZero /\ Len(acc.block) + 2 < FullBlock
  /\ next = [out |-> acc.out, block |-> Append(acc.block, byte)]

\* EncodeByte takes a byte in one of these ways.
LEMMA EncodeByteCases ==
  ASSUME NEW acc \in Accs, NEW byte \in Byte
  PROVE  LET next == EncodeByte(acc, byte)
         IN  Closes(acc, byte, next) \/ Fills(acc, byte, next) \/ Extends(acc, byte, next)
<1>1. PICK out, block : acc = [out |-> out, block |-> block]
  BY AccFields
<1>2. block \in Seq(NonZero) /\ Len(block) + 1 < FullBlock /\ Len(block) \in Nat
  BY <1>1, AccFields
<1>3. acc.out = out /\ acc.block = block
  BY <1>1
<1>4. [acc EXCEPT !.block = Append(block, byte)] = [out |-> out, block |-> Append(block, byte)]
  BY <1>1
<1>5. byte # Delimiter => Len(Append(block, byte)) = Len(block) + 1
  BY <1>2, ByteSplit
<1>6. CASE byte = Delimiter
  BY <1>3, <1>6 DEF EncodeByte, Closes
<1>7. CASE byte # Delimiter /\ Len(block) + 2 = FullBlock
  <2>1. EncodeByte(acc, byte) = [out |-> out \o CloseBlock(Append(block, byte)), block |-> <<>>]
    BY <1>2, <1>3, <1>5, <1>7 DEF EncodeByte
  <2> QED BY <1>3, <1>7, <2>1, ByteSplit DEF Fills
<1>8. CASE byte # Delimiter /\ Len(block) + 2 # FullBlock
  <2>1. EncodeByte(acc, byte) = [acc EXCEPT !.block = Append(block, byte)]
    BY <1>2, <1>3, <1>5, <1>8, CodeIsNonZero DEF EncodeByte
  <2> QED BY <1>2, <1>3, <1>4, <1>8, <2>1, ByteSplit, CodeIsNonZero DEF Extends
<1> QED
  BY <1>6, <1>7, <1>8

\* EncodeByte leaves no delimiter in its output and no block too long.
LEMMA EncodeByteType ==
  ASSUME NEW acc \in Accs, NEW byte \in Byte PROVE EncodeByte(acc, byte) \in Accs
<1> DEFINE next == EncodeByte(acc, byte)
<1>1. Closes(acc, byte, next) \/ Fills(acc, byte, next) \/ Extends(acc, byte, next)
  BY EncodeByteCases
<1> HIDE DEF next
<1>2. /\ acc.out \in Seq(NonZero) /\ acc.block \in Seq(NonZero)
      /\ Len(acc.block) + 1 < FullBlock /\ Len(acc.block) \in Nat
  BY AccFields
<1>3. <<>> \in Seq(NonZero) /\ Len(<<>>) + 1 < FullBlock
  BY FrameAssumption
<1>4. ASSUME Closes(acc, byte, next) PROVE next \in Accs
  <2>1. CloseBlock(acc.block) \in Seq(NonZero)
    BY <1>2, CloseBlockType, CodeIsNonZero
  <2>2. acc.out \o CloseBlock(acc.block) \in Seq(NonZero)
    BY <1>2, <2>1
  <2> QED BY <1>3, <1>4, <2>2, AccBuilt DEF Closes
<1>5. ASSUME Fills(acc, byte, next) PROVE next \in Accs
  <2>1. Append(acc.block, byte) \in Seq(NonZero) /\ Len(Append(acc.block, byte)) = Len(acc.block) + 1
    BY <1>2, <1>5 DEF Fills
  <2>2. Len(Append(acc.block, byte)) + 1 <= FullBlock
    BY <1>2, <1>5, <2>1, CodeIsNonZero DEF Fills
  <2>3. CloseBlock(Append(acc.block, byte)) \in Seq(NonZero)
    BY <2>1, <2>2, CloseBlockType
  <2>4. acc.out \o CloseBlock(Append(acc.block, byte)) \in Seq(NonZero)
    BY <1>2, <2>3
  <2> QED BY <1>3, <1>5, <2>4, AccBuilt DEF Fills
<1>6. ASSUME Extends(acc, byte, next) PROVE next \in Accs
  <2>1. Append(acc.block, byte) \in Seq(NonZero) /\ Len(Append(acc.block, byte)) = Len(acc.block) + 1
    BY <1>2, <1>6 DEF Extends
  <2>2. Len(Append(acc.block, byte)) + 1 < FullBlock
    BY <1>2, <1>6, <2>1, CodeIsNonZero DEF Extends
  <2> QED BY <1>2, <1>6, <2>1, <2>2, AccBuilt DEF Extends
<1> QED
  BY <1>1, <1>4, <1>5, <1>6 DEF next

\* The states of the encoder, byte by byte.
CobsAcc(data, acc) ==
  /\ acc \in [0 .. Len(data) -> Accs]
  /\ acc[0] = NoBytes
  /\ \A k \in 0 .. Len(data) - 1 : acc[k + 1] = EncodeByte(acc[k], data[k + 1])

\* The fold that CobsEncode stands for, over the positions of data.
CobsFold(data, f) ==
  f = [s \in SUBSET DOMAIN data |->
         IF s = {} THEN NoBytes ELSE EncodeByte(f[s \ {Max(s)}], data[Max(s)])]

\* The first state is one.
LEMMA NoBytesType == NoBytes \in Accs
BY FrameAssumption DEF NoBytes, Accs

\* There is such a fold.
LEMMA CobsFoldExists ==
  ASSUME NEW data \in Seq(Byte) PROVE \E f : CobsFold(data, f)
<1> DEFINE n == Len(data)
           g == [p \in Accs \X (1 .. n) |-> EncodeByte(p[1], data[p[2]])]
<1>1. g \in [Accs \X (1 .. n) -> Accs]
  BY EncodeByteType
<1>2. \A v \in Accs, i \in 1 .. n : g[v, i] = EncodeByte(v, data[i])
  <2>1. ASSUME NEW v \in Accs, NEW i \in 1 .. n PROVE g[v, i] = EncodeByte(v, data[i])
    <3> HIDE DEF n
    <3> QED OBVIOUS
  <2> QED BY <2>1, Zenon
<1>3. n \in Nat
  OBVIOUS
<1> HIDE DEF g
<1>4. PICK f : FoldFrom(Accs, f, g, NoBytes, n)
  <2> HIDE DEF n
  <2> QED BY <1>1, <1>3, NoBytesType, FoldsExist
<1>5. ASSUME NEW s \in SUBSET (1 .. n), s # {} PROVE Max(s) \in 1 .. n /\ s \ {Max(s)} \in SUBSET (1 .. n)
  BY <1>3, <1>5, MaxIsMember
<1>6. ASSUME NEW s \in SUBSET (1 .. n)
      PROVE f[s] = IF s = {} THEN NoBytes ELSE EncodeByte(f[s \ {Max(s)}], data[Max(s)])
  BY <1>2, <1>4, <1>5 DEF FoldFrom
<1>7. DOMAIN data = 1 .. n
  OBVIOUS
<1> QED
  BY <1>4, <1>6, <1>7 DEF FoldFrom, CobsFold

\* CobsEncode runs EncodeByte over data, closes the last block and adds the
\* delimiter.
LEMMA CobsUnfolds ==
  ASSUME NEW data \in Seq(Byte)
  PROVE  \E acc : /\ CobsAcc(data, acc)
                  /\ CobsEncode(data) = acc[Len(data)].out \o CloseBlock(acc[Len(data)].block)
                                          \o <<Delimiter>>
<1> DEFINE n == Len(data)
           c == CHOOSE f : CobsFold(data, f)
           acc == [k \in 0 .. n |-> c[1 .. k]]
<1>1. n \in Nat /\ DOMAIN data = 1 .. n
  OBVIOUS
<1>2. CobsFold(data, c)
  BY CobsFoldExists
<1>3. FoldLeft(EncodeByte, NoBytes, data) = c[1 .. n]
  BY <1>1 DEF FoldLeft, MapThenFoldSet, CobsFold
<1> HIDE DEF c
<1>4. acc[0] = NoBytes
  <2>1. 1 .. 0 = {}
    OBVIOUS
  <2> QED BY <1>1, <1>2, <2>1 DEF CobsFold
<1>5. ASSUME NEW k \in 0 .. n - 1 PROVE acc[k + 1] = EncodeByte(acc[k], data[k + 1])
  <2>1. Max(1 .. k + 1) = k + 1 /\ (1 .. k + 1) \ {k + 1} = 1 .. k /\ 1 .. k + 1 # {}
    <3>1. 1 .. k + 1 \in SUBSET (1 .. k + 1) /\ k + 1 \in 1 .. k + 1 /\ k \in Nat
      BY <1>1
    <3> QED BY <3>1, MaxBelow
  <2>2. 1 .. k + 1 \in SUBSET DOMAIN data
    BY <1>1
  <2>3. c[1 .. k + 1] = EncodeByte(c[1 .. k], data[k + 1])
    BY <1>2, <2>1, <2>2 DEF CobsFold
  <2> QED BY <1>1, <2>3
<1> HIDE DEF n
<1>6. 0 .. n \subseteq {k \in 0 .. n : acc[k] \in Accs}
  <2> DEFINE P == {k \in 0 .. n : acc[k] \in Accs}
  <2>1. 0 \in P
    BY <1>1, <1>4, NoBytesType
  <2>2. ASSUME NEW k \in 0 .. n - 1, k \in P PROVE k + 1 \in P
    <3>1. data[k + 1] \in Byte
      BY <1>1
    <3>2. acc[k] \in Accs
      BY <2>2
    <3>3. EncodeByte(acc[k], data[k + 1]) \in Accs
      BY <3>1, <3>2, EncodeByteType
    <3>4. k + 1 \in 0 .. n
      BY <1>1
    <3>5. acc[k + 1] \in Accs
      BY <1>5, <3>3
    <3> HIDE DEF acc
    <3> QED BY <3>4, <3>5
  <2> HIDE DEF P
  <2>3. 0 .. n \subseteq P
    BY <1>1, <2>1, <2>2, CountUp
  <2> QED BY <2>3 DEF P
<1>7. acc \in [0 .. n -> Accs]
  BY <1>6
<1>8. acc[n] = c[1 .. n]
  BY <1>1
<1> HIDE DEF acc
<1>9. CobsAcc(data, acc)
  BY <1>4, <1>5, <1>7 DEF CobsAcc, n
<1>10. CobsEncode(data) = acc[n].out \o CloseBlock(acc[n].block) \o <<Delimiter>>
  BY <1>3, <1>8 DEF CobsEncode, NoBytes
<1> QED
  BY <1>9, <1>10 DEF n

\* The first k bytes have cost a code byte for each of f full blocks.
EncodedLength(acc, k) ==
  \E f \in Nat : /\ Len(acc.out) + Len(acc.block) = k + f
                 /\ f * (FullBlock - 1) + Len(acc.block) <= k

\* The bytes in f + 1 blocks of m.
LEMMA OneMoreBlock == \A f, m \in Nat : (f + 1) * m = f * m + m /\ f * m \in Nat
OBVIOUS

\* A byte lengthens the output by one, and by a code byte per full block.
LEMMA LengthGrows ==
  ASSUME NEW acc \in Accs, NEW byte \in Byte, NEW k \in Nat, EncodedLength(acc, k)
  PROVE  EncodedLength(EncodeByte(acc, byte), k + 1)
<1> DEFINE next == EncodeByte(acc, byte)
<1>1. Closes(acc, byte, next) \/ Fills(acc, byte, next) \/ Extends(acc, byte, next)
  BY EncodeByteCases
<1> HIDE DEF next
<1>2. /\ acc.out \in Seq(NonZero) /\ acc.block \in Seq(NonZero)
      /\ Len(acc.block) + 1 < FullBlock /\ Len(acc.block) \in Nat
  BY AccFields
<1>3. PICK f \in Nat : /\ Len(acc.out) + Len(acc.block) = k + f
                       /\ f * (FullBlock - 1) + Len(acc.block) <= k
  BY DEF EncodedLength
<1>4. FullBlock - 1 \in Nat /\ Len(acc.out) \in Nat
  BY <1>2, FrameAssumption
<1> DEFINE o == Len(acc.out)
           b == Len(acc.block)
           p == f * (FullBlock - 1)
<1>5. p \in Nat /\ (f + 1) * (FullBlock - 1) = p + (FullBlock - 1)
  BY <1>4, OneMoreBlock
<1>6. o \in Nat /\ b \in Nat /\ b + 1 < FullBlock /\ FullBlock \in Nat /\ o + b = k + f /\ p + b <= k
  BY <1>2, <1>3, <1>4, CodeIsNonZero
<1>7. /\ b + 1 <= FullBlock /\ (o + (b + 1)) + 0 = (k + 1) + f /\ p + 0 <= k + 1
      /\ b + 2 = FullBlock => /\ (o + (b + 2)) + 0 = (k + 1) + (f + 1)
                              /\ (p + (FullBlock - 1)) + 0 <= k + 1
      /\ o + (b + 1) = (k + 1) + f /\ p + (b + 1) <= k + 1
      /\ f + 1 \in Nat
  <2> HIDE DEF p, b, o
  <2> QED BY <1>5, <1>6
<1>8. ASSUME Closes(acc, byte, next) PROVE EncodedLength(next, k + 1)
  <2>1. CloseBlock(acc.block) \in Seq(NonZero) /\ Len(CloseBlock(acc.block)) = b + 1
    BY <1>2, <1>7, CloseBlockType
  <2>2. Len(acc.out \o CloseBlock(acc.block)) = o + (b + 1)
    <3>1. Len(acc.out \o CloseBlock(acc.block)) = Len(acc.out) + Len(CloseBlock(acc.block))
      BY <1>2, <2>1, Joined DEF IsJoin
    <3> QED BY <2>1, <3>1
  <2>3. next.out = acc.out \o CloseBlock(acc.block) /\ next.block = <<>>
    BY <1>8 DEF Closes
  <2>4. Len(next.out) = o + (b + 1) /\ Len(next.block) = 0
    BY <2>2, <2>3
  <2>5. Len(next.out) + Len(next.block) = (k + 1) + f /\ f * (FullBlock - 1) + Len(next.block) <= k + 1
    BY <1>7, <2>4
  <2> QED BY <2>5 DEF EncodedLength
<1>9. ASSUME Fills(acc, byte, next) PROVE EncodedLength(next, k + 1)
  <2> DEFINE block == Append(acc.block, byte)
  <2>1. block \in Seq(NonZero) /\ Len(block) = b + 1
    BY <1>2, <1>9 DEF Fills
  <2>2. b + 2 = FullBlock
    BY <1>9 DEF Fills
  <2>3. next.out = acc.out \o CloseBlock(block) /\ next.block = <<>>
    BY <1>9 DEF Fills
  <2> HIDE DEF block
  <2>4. Len(block) + 1 <= FullBlock /\ (b + 1) + 1 = b + 2
    BY <1>6, <2>1, <2>2
  <2>5. CloseBlock(block) \in Seq(NonZero) /\ Len(CloseBlock(block)) = b + 2
    BY <2>1, <2>4, CloseBlockType
  <2>6. Len(acc.out \o CloseBlock(block)) = o + (b + 2)
    <3>1. Len(acc.out \o CloseBlock(block)) = Len(acc.out) + Len(CloseBlock(block))
      BY <1>2, <2>5, Joined DEF IsJoin
    <3> QED BY <2>5, <3>1
  <2>7. Len(next.out) = o + (b + 2) /\ Len(next.block) = 0
    BY <2>3, <2>6
  <2>8. /\ Len(next.out) + Len(next.block) = (k + 1) + (f + 1)
        /\ (f + 1) * (FullBlock - 1) + Len(next.block) <= k + 1
    BY <1>5, <1>7, <2>2, <2>7
  <2> QED BY <1>7, <2>8 DEF EncodedLength
<1>10. ASSUME Extends(acc, byte, next) PROVE EncodedLength(next, k + 1)
  <2>1. next.out = acc.out /\ next.block = Append(acc.block, byte) /\ byte \in NonZero
    BY <1>10 DEF Extends
  <2>2. Len(next.block) = b + 1 /\ Len(next.out) = o
    BY <1>2, <2>1
  <2>3. Len(next.out) + Len(next.block) = (k + 1) + f /\ f * (FullBlock - 1) + Len(next.block) <= k + 1
    BY <1>7, <2>2
  <2> QED BY <2>3 DEF EncodedLength
<1> QED
  BY <1>1, <1>8, <1>9, <1>10 DEF next

\* As many full blocks as fit in n bytes fit in max bytes.
LEMMA FullBlocksFit ==
  \A f, m, n, max \in Nat : m > 0 /\ f * m <= n /\ n <= max => f <= max \div m
<1> SUFFICES ASSUME NEW f \in Nat, NEW m \in Nat, NEW n \in Nat, NEW max \in Nat,
                    m > 0, f * m <= n, n <= max
             PROVE  f <= max \div m
  OBVIOUS
<1>1. f * m <= max
  OBVIOUS
<1> QED
  BY <1>1

\* What CobsEncode puts before the delimiter.
CobsBlock(data, acc) == acc[Len(data)].out \o CloseBlock(acc[Len(data)].block)

\* Encoded data holds no delimiter, and is never empty.
LEMMA CobsBlockType ==
  ASSUME NEW data \in Seq(Byte), NEW acc, CobsAcc(data, acc)
  PROVE  CobsBlock(data, acc) \in Seq(NonZero) /\ CobsBlock(data, acc) # <<>>
<1> DEFINE last == acc[Len(data)]
<1>1. last \in Accs
  BY DEF CobsAcc
<1> HIDE DEF last
<1>2. /\ last.out \in Seq(NonZero) /\ last.block \in Seq(NonZero)
      /\ Len(last.block) + 1 < FullBlock /\ Len(last.block) \in Nat
  BY <1>1, AccFields
<1>3. CloseBlock(last.block) \in Seq(NonZero) /\ Len(CloseBlock(last.block)) = Len(last.block) + 1
  BY <1>2, CloseBlockType, CodeIsNonZero
<1>4. /\ last.out \o CloseBlock(last.block) \in Seq(NonZero)
      /\ last.out \o CloseBlock(last.block) # <<>>
  BY <1>2, <1>3
<1> QED
  BY <1>4 DEF CobsBlock, last

\* The longest frame fits in MAX_FRAME together with its delimiter
\* (rudder_protocol.h: the size of _buf).
LEMMA CobsBlockFits ==
  ASSUME NEW data \in Seq(Byte), NEW acc, CobsAcc(data, acc), Len(data) <= MaxData
  PROVE  Len(CobsBlock(data, acc)) < MaxFrame
<1> DEFINE n == Len(data)
           P == {k \in 0 .. n : EncodedLength(acc[k], k)}
<1>1. n \in Nat
  OBVIOUS
<1>2. 0 \in P
  <2>1. acc[0].out = <<>> /\ acc[0].block = <<>>
    BY DEF CobsAcc, NoBytes
  <2>2. FullBlock - 1 \in Nat
    BY FrameAssumption
  <2>3. Len(acc[0].out) + Len(acc[0].block) = 0 + 0 /\ 0 * (FullBlock - 1) + Len(acc[0].block) <= 0
    BY <2>1, <2>2
  <2>4. EncodedLength(acc[0], 0)
    BY <2>3 DEF EncodedLength
  <2> QED BY <1>1, <2>4
<1>3. ASSUME NEW k \in 0 .. n - 1, k \in P PROVE k + 1 \in P
  <2>1. acc[k] \in Accs /\ acc[k + 1] = EncodeByte(acc[k], data[k + 1])
    BY <1>1 DEF CobsAcc
  <2>2. data[k + 1] \in Byte
    BY <1>1
  <2>3. EncodedLength(acc[k], k) /\ k \in Nat
    BY <1>3
  <2>4. EncodedLength(acc[k + 1], k + 1)
    BY <2>1, <2>2, <2>3, LengthGrows
  <2>5. k + 1 \in 0 .. n
    BY <1>1
  <2> QED BY <2>4, <2>5
<1>4. n \in P
  <2> HIDE DEF P, n
  <2>1. 0 .. n \subseteq P
    BY <1>1, <1>2, <1>3, CountUp
  <2> QED BY <1>1, <2>1
<1> DEFINE last == acc[n]
<1>5. last \in Accs /\ EncodedLength(last, n)
  BY <1>4 DEF CobsAcc
<1> HIDE DEF last
<1>6. /\ last.out \in Seq(NonZero) /\ last.block \in Seq(NonZero)
      /\ Len(last.block) + 1 < FullBlock /\ Len(last.block) \in Nat
  BY <1>5, AccFields
<1>7. PICK f \in Nat : /\ Len(last.out) + Len(last.block) = n + f
                       /\ f * (FullBlock - 1) + Len(last.block) <= n
  BY <1>5 DEF EncodedLength
<1>8. CloseBlock(last.block) \in Seq(NonZero) /\ Len(CloseBlock(last.block)) = Len(last.block) + 1
  BY <1>6, CloseBlockType, CodeIsNonZero
<1>9. Len(last.out \o CloseBlock(last.block)) = n + f + 1
  <2>1. Len(last.out) \in Nat
    BY <1>6
  <2>2. Len(last.out \o CloseBlock(last.block)) = Len(last.out) + Len(CloseBlock(last.block))
    BY <1>6, <1>8, Joined DEF IsJoin
  <2>3. Len(last.out) + (Len(last.block) + 1) = n + f + 1
    <3>1. Len(last.out) + Len(last.block) = n + f /\ Len(last.block) \in Nat
      BY <1>6, <1>7
    <3> DEFINE a == Len(last.out)
               b == Len(last.block)
    <3>2. \A x, y, f1, n1 \in Nat : x + y = n1 + f1 => x + (y + 1) = n1 + f1 + 1
      OBVIOUS
    <3>3. a \in Nat /\ b \in Nat /\ n \in Nat /\ f \in Nat /\ a + b = n + f
      BY <1>1, <2>1, <3>1, Zenon
    <3> HIDE DEF n, a, b
    <3>4. a + (b + 1) = n + f + 1
      BY <3>2, <3>3
    <3> QED BY <3>4 DEF a, b
  <2> QED BY <1>8, <2>2, <2>3
<1>10. MaxData \in Nat /\ FullBlock - 1 \in Nat /\ FullBlock - 1 > 0 /\ n <= MaxData
  BY FrameAssumption DEF MaxData, HeaderBytes, CrcBytes
<1>11. f * (FullBlock - 1) <= n
  BY <1>1, <1>6, <1>7, <1>10, OneMoreBlock
<1> HIDE DEF n
<1>12. f <= MaxData \div (FullBlock - 1)
  BY <1>1, <1>10, <1>11, FullBlocksFit
<1>13. n + f + 1 < MaxFrame
  <2> DEFINE q == MaxData \div (FullBlock - 1)
  <2>1. q \in Int
    BY <1>10
  <2> HIDE DEF q
  <2>2. f <= q
    BY <1>12 DEF q
  <2>3. n + f + 1 < MaxData + q + 2
    BY <1>1, <1>10, <2>1, <2>2
  <2> QED BY <2>3 DEF q, MaxFrame
<1> QED
  BY <1>9, <1>13 DEF CobsBlock, n, last

-----------------------------------------------------------------------------
(* The COBS decoder, from the last block back to the first.                *)
\* One step of CobsDecode's function at byte i.
CobsStep(data, dec, i) ==
  IF i > Len(data) THEN << <<>> >>
  ELSE IF data[i] = Delimiter \/ i + data[i] > Len(data) + 1 THEN <<>>
  ELSE IF dec[i + data[i]] = <<>> THEN <<>>
  ELSE << SubSeq(data, i + 1, (i + data[i]) - 1)
            \o (IF data[i] # FullBlock /\ i + data[i] <= Len(data) THEN <<Delimiter>> ELSE <<>>)
            \o dec[i + data[i]][1] >>

\* CobsDecode's function on the positions from m.
CobsFrom(data, dec, m) ==
  dec = [i \in m .. Len(data) + 1 |-> CobsStep(data, dec, i)]

\* Decoding at byte i uses only what is decoded after it.
LEMMA CobsStepLooksAhead ==
  ASSUME NEW data \in Seq(NonZero), NEW i \in 1 .. Len(data) + 1, NEW f, NEW g,
         \A j \in i + 1 .. Len(data) + 1 : f[j] = g[j]
  PROVE  CobsStep(data, f, i) = CobsStep(data, g, i)
<1>1. CASE i > Len(data)
  BY <1>1 DEF CobsStep
<1>2. CASE i <= Len(data)
  <2>1. data[i] \in NonZero
    BY <1>2
  <2>2. data[i] \in Nat /\ data[i] > 0
    <3>1. \A byte \in NonZero : byte \in Nat /\ byte > 0
      BY DEF NonZero
    <3> QED BY <2>1, <3>1
  <2>3. CASE i + data[i] > Len(data) + 1
    BY <1>2, <2>3 DEF CobsStep
  <2>4. CASE i + data[i] <= Len(data) + 1
    <3>1. f[i + data[i]] = g[i + data[i]]
      BY <2>2, <2>4
    <3> QED BY <3>1 DEF CobsStep
  <2> QED BY <2>2, <2>3, <2>4
<1> QED
  BY <1>1, <1>2

\* Decoding from every position is well defined.
LEMMA CobsFromExists ==
  ASSUME NEW data \in Seq(NonZero) PROVE \E dec : CobsFrom(data, dec, 1)
<1> DEFINE n == Len(data)
           P == {k \in 0 .. n : \E dec : CobsFrom(data, dec, n + 1 - k)}
<1>1. n \in Nat
  OBVIOUS
<1>2. 0 \in P
  <2> DEFINE d == [i \in n + 1 .. n + 1 |-> << <<>> >>]
  <2>1. \A i \in n + 1 .. n + 1 : CobsStep(data, d, i) = << <<>> >>
    BY <1>1 DEF CobsStep
  <2>2. CobsFrom(data, d, n + 1)
    BY <2>1 DEF CobsFrom
  <2>3. n + 1 - 0 = n + 1
    BY <1>1
  <2> HIDE DEF d
  <2> QED BY <1>1, <2>2, <2>3
<1>3. ASSUME NEW k \in 0 .. n - 1, k \in P PROVE k + 1 \in P
  <2>1. PICK f : CobsFrom(data, f, n + 1 - k)
    BY <1>3
  <2> DEFINE m == n - k
             d == [i \in m .. n + 1 |-> IF i = m THEN CobsStep(data, f, m) ELSE f[i]]
  <2>2. m \in 1 .. n /\ n + 1 - k = m + 1 /\ n + 1 - (k + 1) = m /\ k + 1 \in 0 .. n
    BY <1>1
  <2>3. \A i \in m + 1 .. n + 1 : f[i] = CobsStep(data, f, i)
    BY <2>1, <2>2 DEF CobsFrom
  <2>4. \A i \in m + 1 .. n + 1 : d[i] = f[i] /\ i # m /\ i \in m .. n + 1
    BY <2>2
  <2>5. d[m] = CobsStep(data, f, m) /\ m \in m .. n + 1
    BY <2>2
  <2>6. d = [i \in m .. n + 1 |-> d[i]]
    OBVIOUS
  <2> HIDE DEF d
  <2>7. ASSUME NEW i \in m .. n + 1 PROVE d[i] = CobsStep(data, d, i)
    <3>1. i \in 1 .. n + 1 /\ (i = m \/ i \in m + 1 .. n + 1)
      BY <1>1, <2>2
    <3>2. \A j \in i + 1 .. n + 1 : d[j] = f[j]
      BY <2>2, <2>4
    <3>3. CobsStep(data, d, i) = CobsStep(data, f, i)
      BY <3>1, <3>2, CobsStepLooksAhead
    <3> QED BY <2>3, <2>4, <2>5, <3>1, <3>3
  <2>8. CobsFrom(data, d, m)
    BY <2>6, <2>7 DEF CobsFrom
  <2> QED BY <2>2, <2>8
<1>4. n \in P
  <2> HIDE DEF P, n
  <2>1. 0 .. n \subseteq P
    BY <1>1, <1>2, <1>3, CountUp
  <2> QED BY <1>1, <2>1
<1> QED
  BY <1>1, <1>4

\* CobsDecode is that function at the first byte, unless the data is too long.
LEMMA CobsDecodes ==
  ASSUME NEW data \in Seq(NonZero)
  PROVE  \E dec : /\ CobsFrom(data, dec, 1)
                  /\ CobsDecode(data) = IF dec[1] # <<>> /\ Len(dec[1][1]) > MaxData
                                          THEN <<>> ELSE dec[1]
<1> DEFINE c == CHOOSE decoded : CobsFrom(data, decoded, 1)
<1>1. CobsFrom(data, c, 1)
  BY CobsFromExists
<1>2. CobsDecode(data) = IF c[1] # <<>> /\ Len(c[1][1]) > MaxData THEN <<>> ELSE c[1]
  BY DEF CobsDecode, CobsFrom, CobsStep
<1> QED
  BY <1>1, <1>2

\* A piece of a sequence, element by element.
LEMMA SubSeqIs ==
  ASSUME NEW S, NEW s \in Seq(S), NEW b \in Seq(S), NEW at \in Nat,
         at + Len(b) <= Len(s), \A i \in 1 .. Len(b) : s[at + i] = b[i]
  PROVE  SubSeq(s, at + 1, at + Len(b)) = b
<1> DEFINE q == SubSeq(s, at + 1, at + Len(b))
<1>1. q \in Seq(S) /\ Len(q) = Len(b) /\ \A i \in 1 .. Len(b) : q[i] = s[at + i]
  OBVIOUS
<1> HIDE DEF q
<1>2. q = b
  BY <1>1
<1> QED
  BY <1>2 DEF q

\* Where a block stands in what is decoded.
BlockAt(o, b, r) == o \o CloseBlock(b) \o r

\* Where the code and the bytes of a block stand.
LEMMA BlockAtIs ==
  ASSUME NEW o \in Seq(NonZero), NEW b \in Seq(NonZero), NEW r \in Seq(NonZero),
         Len(b) + 1 <= FullBlock
  PROVE  LET E == BlockAt(o, b, r)
             at == Len(o) + 1
         IN  /\ E \in Seq(NonZero) /\ at \in 1 .. Len(E) /\ E[at] = Len(b) + 1
             /\ Len(o \o CloseBlock(b)) = at + Len(b)
             /\ Len(E) = at + Len(b) + Len(r)
             /\ SubSeq(E, at + 1, at + Len(b)) = b
<1> DEFINE c == CloseBlock(b)
           p == o \o c
           E == p \o r
           at == Len(o) + 1
<1>1. /\ c \in Seq(NonZero) /\ Len(c) = Len(b) + 1 /\ c[1] = Len(b) + 1
      /\ \A i \in 1 .. Len(b) : c[i + 1] = b[i]
  BY CloseBlockType
<1> HIDE DEF c
<1>2. /\ p \in Seq(NonZero) /\ Len(p) = Len(o) + Len(c) /\ Len(o) \in Nat
      /\ \A i \in 1 .. Len(c) : p[Len(o) + i] = c[i]
  <2>1. p \in Seq(NonZero) /\ IsJoin(o, c, p)
    BY <1>1, Joined
  <2> QED BY <2>1 DEF IsJoin
<1> HIDE DEF p
<1>3. /\ E \in Seq(NonZero) /\ Len(E) = Len(p) + Len(r) /\ Len(r) \in Nat
      /\ \A i \in 1 .. Len(p) : E[i] = p[i]
  <2>1. E \in Seq(NonZero) /\ IsJoin(p, r, E)
    BY <1>2, Joined
  <2> QED BY <2>1 DEF IsJoin
<1> HIDE DEF E
<1>4. Len(b) \in Nat /\ Len(p) = at + Len(b) /\ Len(E) = at + Len(b) + Len(r) /\ at \in Nat
  BY <1>1, <1>2, <1>3
<1>5. at \in 1 .. Len(p) /\ at \in 1 .. Len(E) /\ 1 \in 1 .. Len(c)
  BY <1>1, <1>2, <1>3, <1>4
<1>6. E[at] = Len(b) + 1
  BY <1>1, <1>2, <1>3, <1>5
<1>7. ASSUME NEW i \in 1 .. Len(b) PROVE E[at + i] = b[i]
  <2>1. i + 1 \in 1 .. Len(c) /\ Len(o) + (i + 1) = at + i /\ at + i \in 1 .. Len(p)
    BY <1>1, <1>2, <1>4
  <2> QED BY <1>1, <1>2, <1>3, <2>1
<1>8. SubSeq(E, at + 1, at + Len(b)) = b
  <2>1. at + Len(b) <= Len(E)
    BY <1>3, <1>4
  <2> HIDE DEF at
  <2> QED BY <1>3, <1>4, <1>7, <2>1, SubSeqIs
<1> QED
  BY <1>3, <1>4, <1>5, <1>6, <1>8 DEF BlockAt, E, p, c

\* A block after o and before r, and the v that follows it once decoded.
BlockBefore(o, b, r, dec, v) ==
  /\ o \in Seq(NonZero) /\ b \in Seq(NonZero) /\ r \in Seq(NonZero)
  /\ Len(b) + 1 <= FullBlock
  /\ CobsFrom(BlockAt(o, b, r), dec, 1)
  /\ dec[Len(o \o CloseBlock(b)) + 1] = <<v>>

\* Its bytes, a zero unless it was full or the last, and v.
BlockDecoded(o, b, r, dec, v) ==
  dec[Len(o) + 1] =
    << b \o (IF Len(b) + 1 # FullBlock /\ r # <<>> THEN <<Delimiter>> ELSE <<>>) \o v >>

\* Decoding at the code of a block gives that.
LEMMA BlockDecodes ==
  ASSUME NEW o, NEW b, NEW r, NEW dec, NEW v, BlockBefore(o, b, r, dec, v)
  PROVE  BlockDecoded(o, b, r, dec, v)
<1>1. /\ o \in Seq(NonZero) /\ b \in Seq(NonZero) /\ r \in Seq(NonZero)
      /\ Len(b) + 1 <= FullBlock
  BY DEF BlockBefore
<1>2. CobsFrom(BlockAt(o, b, r), dec, 1) /\ dec[Len(o \o CloseBlock(b)) + 1] = <<v>>
  BY DEF BlockBefore
<1> DEFINE E == BlockAt(o, b, r)
           at == Len(o) + 1
           next == at + E[at]
<1>3. /\ E \in Seq(NonZero) /\ at \in 1 .. Len(E) /\ E[at] = Len(b) + 1
      /\ Len(o \o CloseBlock(b)) = at + Len(b)
      /\ Len(E) = at + Len(b) + Len(r)
      /\ SubSeq(E, at + 1, at + Len(b)) = b
  BY <1>1, BlockAtIs
<1>4. dec[at] = CobsStep(E, dec, at)
  <2>1. at \in 1 .. Len(E) + 1
    BY <1>3
  <2> HIDE DEF E, at
  <2>2. CobsFrom(E, dec, 1)
    BY <1>2 DEF E
  <2> QED BY <2>1, <2>2 DEF CobsFrom
<1> HIDE DEF E
<1>5. Len(b) \in Nat /\ Len(r) \in Nat /\ at \in Nat /\ (r # <<>> <=> Len(r) > 0)
  BY <1>1
<1>6. E[at] \in NonZero
  BY <1>3
<1>7. E[at] # Delimiter
  BY <1>6, ByteSplit
<1>8. next = Len(o \o CloseBlock(b)) + 1 /\ next - 1 = at + Len(b)
  BY <1>3, <1>5
<1>9. ~ (at > Len(E)) /\ ~ (next > Len(E) + 1) /\ (next <= Len(E) <=> r # <<>>)
  BY <1>3, <1>5, <1>8
<1>10. dec[next] = <<v>> /\ <<v>> # <<>> /\ <<v>>[1] = v
  BY <1>8, <1>2
<1> HIDE DEF at, next
<1>11. CobsStep(E, dec, at) =
        << SubSeq(E, at + 1, next - 1)
             \o (IF E[at] # FullBlock /\ next <= Len(E) THEN <<Delimiter>> ELSE <<>>) \o v >>
  BY <1>7, <1>9, <1>10 DEF CobsStep, next
<1>12. SubSeq(E, at + 1, next - 1) = b
  BY <1>3, <1>8
<1>13. (E[at] # FullBlock /\ next <= Len(E)) <=> (Len(b) + 1 # FullBlock /\ r # <<>>)
  BY <1>3, <1>9
<1> QED
  BY <1>4, <1>11, <1>12, <1>13 DEF at, BlockDecoded

\* What is left of data after k bytes.
Remaining(data, k) == SubSeq(data, k + 1, Len(data))

\* What is left starts with the next byte.
LEMMA RestUnfolds ==
  ASSUME NEW data \in Seq(Byte), NEW k \in 0 .. Len(data) - 1
  PROVE  /\ Remaining(data, k) = <<data[k + 1]>> \o Remaining(data, k + 1)
         /\ data[k + 1] \in Byte
         /\ Remaining(data, k) \in Seq(Byte) /\ Remaining(data, k + 1) \in Seq(Byte)
BY DEF Remaining

\* At first everything is left, at last nothing.
LEMMA RestEnds ==
  ASSUME NEW data \in Seq(Byte) PROVE Remaining(data, 0) = data /\ Remaining(data, Len(data)) = <<>>
BY DEF Remaining

\* From the state acc of the encoder on, the rest of the block decodes to what
\* the encoder has not closed yet, and rest.
DecodesFrom(E, dec, acc, rest) ==
  /\ \E r \in Seq(NonZero) : r # <<>> /\ E = acc.out \o r
  /\ dec[Len(acc.out) + 1] = << acc.block \o rest >>

\* Concatenation is associative.
LEMMA Associative ==
  ASSUME NEW S, NEW a \in Seq(S), NEW b \in Seq(S), NEW c \in Seq(S)
  PROVE  (a \o b) \o c = a \o (b \o c)
<1>1. /\ (a \o b) \o c \in Seq(S) /\ a \o (b \o c) \in Seq(S)
      /\ Len((a \o b) \o c) = Len(a \o (b \o c))
  OBVIOUS
<1>2. \A i \in 1 .. Len((a \o b) \o c) : ((a \o b) \o c)[i] = (a \o (b \o c))[i]
  OBVIOUS
<1> QED
  BY <1>1, <1>2

\* The empty sequence joins without effect.
LEMMA EmptyJoins ==
  ASSUME NEW S, NEW s \in Seq(S) PROVE s \o <<>> = s /\ <<>> \o s = s
OBVIOUS

\* Bytes other than the delimiter are bytes.
LEMMA NonZeroAreBytes == Seq(NonZero) \subseteq Seq(Byte)
<1>1. NonZero \subseteq Byte
  BY ByteSplit
<1> QED
  BY <1>1

\* The decoder undoes one EncodeByte.
LEMMA DecodesBack ==
  ASSUME NEW E \in Seq(NonZero), NEW dec, CobsFrom(E, dec, 1), NEW acc \in Accs, NEW byte \in Byte,
         NEW rest \in Seq(Byte), DecodesFrom(E, dec, EncodeByte(acc, byte), rest)
  PROVE  DecodesFrom(E, dec, acc, <<byte>> \o rest)
<1> DEFINE next == EncodeByte(acc, byte)
<1>1. Closes(acc, byte, next) \/ Fills(acc, byte, next) \/ Extends(acc, byte, next)
  BY EncodeByteCases
<1> HIDE DEF next
<1>2. PICK r \in Seq(NonZero) : r # <<>> /\ E = next.out \o r
  BY DEF DecodesFrom, next
<1>3. dec[Len(next.out) + 1] = << next.block \o rest >>
  BY DEF DecodesFrom, next
<1>4. PICK o, b : acc = [out |-> o, block |-> b]
  BY AccFields
<1>5. acc.out = o /\ acc.block = b
  BY <1>4
<1>6. o \in Seq(NonZero) /\ b \in Seq(NonZero) /\ Len(b) + 1 < FullBlock /\ Len(b) \in Nat
  BY <1>5, AccFields
<1>7. ASSUME Closes(acc, byte, next) PROVE DecodesFrom(E, dec, acc, <<byte>> \o rest)
  <2>1. next.out = o \o CloseBlock(b) /\ next.block = <<>> /\ byte = Delimiter
    BY <1>5, <1>7 DEF Closes
  <2>2. E = BlockAt(o, b, r)
    BY <1>2, <2>1 DEF BlockAt
  <2>3. <<>> \o rest = rest
    BY EmptyJoins
  <2>4. dec[Len(o \o CloseBlock(b)) + 1] = <<rest>>
    BY <1>3, <2>1, <2>3
  <2>5. Len(b) + 1 <= FullBlock /\ Len(b) + 1 # FullBlock
    BY <1>6, CodeIsNonZero
  <2>6. dec[Len(o) + 1] =
          << b \o (IF Len(b) + 1 # FullBlock /\ r # <<>> THEN <<Delimiter>> ELSE <<>>) \o rest >>
    <3>1. BlockBefore(o, b, r, dec, rest)
      BY <1>2, <1>6, <2>2, <2>4, <2>5 DEF BlockBefore
    <3>2. BlockDecoded(o, b, r, dec, rest)
      BY <3>1, BlockDecodes
    <3> QED BY <3>2 DEF BlockDecoded
  <2>7. dec[Len(o) + 1] = << (b \o <<byte>>) \o rest >>
    BY <1>2, <2>1, <2>5, <2>6
  <2>8. CloseBlock(b) \in Seq(NonZero) /\ Len(CloseBlock(b)) = Len(b) + 1
    BY <1>6, <2>5, CloseBlockType
  <2>9. E = o \o (CloseBlock(b) \o r)
    <3>1. (o \o CloseBlock(b)) \o r = o \o (CloseBlock(b) \o r)
      <4> DEFINE c == CloseBlock(b)
      <4>1. o \in Seq(NonZero) /\ c \in Seq(NonZero) /\ r \in Seq(NonZero)
        BY <1>2, <1>6, <2>8
      <4> HIDE DEF c
      <4>2. (o \o c) \o r = o \o (c \o r)
        BY <4>1, Associative
      <4> QED BY <4>2 DEF c
    <3> QED BY <2>2, <3>1 DEF BlockAt
  <2>10. CloseBlock(b) \o r \in Seq(NonZero) /\ CloseBlock(b) \o r # <<>>
    BY <1>6, <2>8
  <2>11. (b \o <<byte>>) \o rest = b \o (<<byte>> \o rest)
    <3>1. b \in Seq(Byte) /\ <<byte>> \in Seq(Byte)
      BY <1>6, NonZeroAreBytes
    <3> QED BY <3>1, Associative
  <2> QED BY <1>5, <2>7, <2>9, <2>10, <2>11 DEF DecodesFrom
<1>8. ASSUME Fills(acc, byte, next) PROVE DecodesFrom(E, dec, acc, <<byte>> \o rest)
  <2> DEFINE f == Append(b, byte)
  <2>1. next.out = o \o CloseBlock(f) /\ next.block = <<>> /\ byte \in NonZero
        /\ Len(b) + 2 = FullBlock
    BY <1>5, <1>8 DEF Fills
  <2>2. f \in Seq(NonZero) /\ Len(f) = Len(b) + 1 /\ f = b \o <<byte>>
    BY <1>6, <2>1
  <2> HIDE DEF f
  <2>3. E = BlockAt(o, f, r)
    BY <1>2, <2>1 DEF BlockAt
  <2>4. <<>> \o rest = rest
    BY EmptyJoins
  <2>5. dec[Len(o \o CloseBlock(f)) + 1] = <<rest>>
    BY <1>3, <2>1, <2>4
  <2>6. Len(f) + 1 <= FullBlock /\ Len(f) + 1 = FullBlock
    BY <1>6, <2>1, <2>2, CodeIsNonZero
  <2>7. dec[Len(o) + 1] =
          << f \o (IF Len(f) + 1 # FullBlock /\ r # <<>> THEN <<Delimiter>> ELSE <<>>) \o rest >>
    <3>1. BlockBefore(o, f, r, dec, rest)
      BY <1>2, <1>6, <2>2, <2>3, <2>5, <2>6 DEF BlockBefore
    <3>2. BlockDecoded(o, f, r, dec, rest)
      BY <3>1, BlockDecodes
    <3> QED BY <3>2 DEF BlockDecoded
  <2>8. f \o <<>> = f
    BY <2>2, EmptyJoins
  <2>9. dec[Len(o) + 1] = << (b \o <<byte>>) \o rest >>
    BY <2>2, <2>6, <2>7, <2>8
  <2>10. CloseBlock(f) \in Seq(NonZero) /\ Len(CloseBlock(f)) = Len(f) + 1
    BY <2>2, <2>6, CloseBlockType
  <2>11. E = o \o (CloseBlock(f) \o r)
    <3>1. (o \o CloseBlock(f)) \o r = o \o (CloseBlock(f) \o r)
      <4> DEFINE c == CloseBlock(f)
      <4>1. o \in Seq(NonZero) /\ c \in Seq(NonZero) /\ r \in Seq(NonZero)
        BY <1>2, <1>6, <2>10
      <4> HIDE DEF c
      <4>2. (o \o c) \o r = o \o (c \o r)
        BY <4>1, Associative
      <4> QED BY <4>2 DEF c
    <3> QED BY <2>3, <3>1 DEF BlockAt
  <2>12. CloseBlock(f) \o r \in Seq(NonZero) /\ CloseBlock(f) \o r # <<>>
    BY <1>6, <2>2, <2>10
  <2>13. (b \o <<byte>>) \o rest = b \o (<<byte>> \o rest)
    <3>1. b \in Seq(Byte) /\ <<byte>> \in Seq(Byte)
      BY <1>6, NonZeroAreBytes
    <3> QED BY <3>1, Associative
  <2> QED BY <1>5, <2>9, <2>11, <2>12, <2>13 DEF DecodesFrom
<1>9. ASSUME Extends(acc, byte, next) PROVE DecodesFrom(E, dec, acc, <<byte>> \o rest)
  <2>1. next.out = o /\ next.block = Append(b, byte) /\ byte \in NonZero
    BY <1>5, <1>9 DEF Extends
  <2>2. Append(b, byte) = b \o <<byte>>
    BY <1>6, <2>1
  <2>3. (b \o <<byte>>) \o rest = b \o (<<byte>> \o rest)
    <3>1. b \in Seq(Byte) /\ <<byte>> \in Seq(Byte)
      BY <1>6, NonZeroAreBytes
    <3> QED BY <3>1, Associative
  <2> QED BY <1>2, <1>3, <1>5, <2>1, <2>2, <2>3 DEF DecodesFrom
<1> QED
  BY <1>1, <1>7, <1>8, <1>9 DEF next

\* What CobsEncode makes of a message, CobsDecode turns back into it: for every
\* message the buffers hold and every length of a full block (rudder_protocol.h,
\* cobs_encode and cobs_decode).
THEOREM CobsRoundTrip ==
  ASSUME NEW data \in Seq(Byte), NEW acc, CobsAcc(data, acc), Len(data) <= MaxData
  PROVE  CobsDecode(CobsBlock(data, acc)) = <<data>>
<1> DEFINE n == Len(data)
           E == CobsBlock(data, acc)
<1>1. E \in Seq(NonZero) /\ n \in Nat
  BY CobsBlockType
<1>2. PICK dec : /\ CobsFrom(E, dec, 1)
                 /\ CobsDecode(E) = IF dec[1] # <<>> /\ Len(dec[1][1]) > MaxData
                                      THEN <<>> ELSE dec[1]
  <2> HIDE DEF E
  <2> QED BY <1>1, CobsDecodes
<1> DEFINE P == {k \in 0 .. n : DecodesFrom(E, dec, acc[k], Remaining(data, k))}
<1>3. n \in P
  <2> DEFINE last == acc[n]
  <2>1. last \in Accs
    BY DEF CobsAcc
  <2> HIDE DEF last
  <2>2. PICK o, b : last = [out |-> o, block |-> b]
    BY <2>1, AccFields
  <2>3. last.out = o /\ last.block = b
    BY <2>2
  <2>4. o \in Seq(NonZero) /\ b \in Seq(NonZero) /\ Len(b) + 1 < FullBlock /\ Len(b) \in Nat
    BY <2>1, <2>3, AccFields
  <2>5. E = o \o CloseBlock(b)
    BY <2>3 DEF CobsBlock, last
  <2>6. CloseBlock(b) \in Seq(NonZero) /\ Len(CloseBlock(b)) = Len(b) + 1 /\ Len(b) + 1 <= FullBlock
    BY <2>4, CloseBlockType, CodeIsNonZero
  <2>7. CloseBlock(b) # <<>>
    BY <2>4, <2>6
  <2> HIDE DEF E
  <2>8. <<>> \in Seq(NonZero)
    OBVIOUS
  <2>9. E = BlockAt(o, b, <<>>)
    BY <1>1, <2>5, EmptyJoins DEF BlockAt
  <2>10. dec[Len(o \o CloseBlock(b)) + 1] = << <<>> >>
    <3>1. Len(E) + 1 \in 1 .. Len(E) + 1 /\ Len(E) + 1 > Len(E)
      BY <1>1
    <3>2. dec[Len(E) + 1] = CobsStep(E, dec, Len(E) + 1)
      BY <1>2, <3>1 DEF CobsFrom
    <3> QED BY <2>5, <3>1, <3>2 DEF CobsStep
  <2>11. CobsFrom(BlockAt(o, b, <<>>), dec, 1)
    BY <1>2, <2>9
  <2>12. dec[Len(o) + 1] =
          << b \o (IF Len(b) + 1 # FullBlock /\ <<>> # <<>> THEN <<Delimiter>> ELSE <<>>) \o <<>> >>
    <3>1. BlockBefore(o, b, <<>>, dec, <<>>)
      BY <2>4, <2>6, <2>8, <2>10, <2>11 DEF BlockBefore
    <3>2. BlockDecoded(o, b, <<>>, dec, <<>>)
      BY <3>1, BlockDecodes
    <3> QED BY <3>2 DEF BlockDecoded
  <2>13. b \o <<>> = b
    BY <2>4, EmptyJoins
  <2>14. dec[Len(o) + 1] = <<b>>
    BY <2>12, <2>13
  <2>15. DecodesFrom(E, dec, last, <<>>)
    BY <2>3, <2>5, <2>6, <2>7, <2>13, <2>14 DEF DecodesFrom
  <2>16. Remaining(data, n) = <<>>
    BY RestEnds
  <2>17. n \in 0 .. n
    BY <1>1
  <2> QED BY <2>15, <2>16, <2>17 DEF last
<1>4. ASSUME NEW k \in 0 .. n - 1, k + 1 \in P PROVE k \in P
  <2>1. acc[k] \in Accs /\ acc[k + 1] = EncodeByte(acc[k], data[k + 1])
    BY <1>1 DEF CobsAcc
  <2>2. /\ Remaining(data, k) = <<data[k + 1]>> \o Remaining(data, k + 1) /\ data[k + 1] \in Byte
        /\ Remaining(data, k + 1) \in Seq(Byte)
    BY RestUnfolds
  <2>3. DecodesFrom(E, dec, EncodeByte(acc[k], data[k + 1]), Remaining(data, k + 1))
    BY <1>4, <2>1
  <2> HIDE DEF E
  <2>4. DecodesFrom(E, dec, acc[k], <<data[k + 1]>> \o Remaining(data, k + 1))
    BY <1>1, <1>2, <2>1, <2>2, <2>3, DecodesBack
  <2>5. k \in 0 .. n
    BY <1>1
  <2> QED BY <2>2, <2>4, <2>5
<1>5. 0 \in P
  <2> HIDE DEF P, n
  <2>1. 0 .. n \subseteq P
    BY <1>1, <1>3, <1>4, CountDown
  <2> QED BY <1>1, <2>1
<1>6. DecodesFrom(E, dec, NoBytes, data)
  BY <1>5, RestEnds DEF CobsAcc
<1>7. <<>> \o data = data
  OBVIOUS
<1>8. dec[1] = <<data>>
  BY <1>6, <1>7 DEF DecodesFrom, NoBytes
<1>9. MaxData \in Nat
  BY FrameAssumption DEF MaxData, HeaderBytes, CrcBytes
<1>10. CobsDecode(E) = <<data>>
  <2> HIDE DEF E
  <2>1. dec[1] # <<>> /\ dec[1][1] = data
    BY <1>8
  <2>2. ~ (Len(data) > MaxData)
    BY <1>1, <1>9
  <2> QED BY <1>2, <1>8, <2>1, <2>2
<1> QED
  BY <1>10

-----------------------------------------------------------------------------
(* Frames and their bytes.                                                 *)
\* What arrives as block w is parsed as that frame, and the parser can hold it.
Carries(w, frame) ==
  /\ w \in Seq(NonZero) /\ w # <<>> /\ Len(w) < MaxFrame
  /\ ParseBlock(w) = <<frame>>

\* The parts of a frame's bytes, where ParseBlock looks for them.
BodyOf(body, checked, crc, id, number, payload) ==
  /\ body \in Seq(Byte) /\ Len(body) = 3 + Len(payload) + 2
  /\ body[1] = ProtocolVersion /\ body[2] = id /\ body[3] = number
  /\ SubSeq(body, Len(body) - 2 + 1, Len(body)) = crc
  /\ SubSeq(body, 1, Len(body) - 2) = checked
  /\ SubSeq(body, 3 + 1, Len(body) - 2) = payload

\* Version, header, payload and CRC stand where ParseBlock looks for them.
LEMMA BodyParts ==
  ASSUME NEW id \in Byte, NEW number \in Byte, NEW payload \in Seq(Byte), NEW crc \in Seq(Byte),
         Len(crc) = 2
  PROVE  BodyOf((<<ProtocolVersion, id, number>> \o payload) \o crc,
                <<ProtocolVersion, id, number>> \o payload, crc, id, number, payload)
<1> DEFINE header  == <<ProtocolVersion, id, number>>
           checked == header \o payload
           body    == checked \o crc
<1>1. /\ header \in Seq(Byte) /\ Len(header) = 3
      /\ header[1] = ProtocolVersion /\ header[2] = id /\ header[3] = number
  <2>1. ProtocolVersion \in Byte
    BY DEF ProtocolVersion, Byte
  <2> QED BY <2>1
<1> HIDE DEF header
<1>2. checked \in Seq(Byte) /\ IsJoin(header, payload, checked)
  BY <1>1, Joined
<1> HIDE DEF checked
<1>3. body \in Seq(Byte) /\ IsJoin(checked, crc, body)
  BY <1>2, Joined
<1> HIDE DEF body
<1>4. /\ Len(checked) = 3 + Len(payload) /\ Len(body) = 3 + Len(payload) + 2
      /\ Len(payload) \in Nat /\ Len(checked) \in Nat /\ Len(body) \in Nat
  BY <1>1, <1>2, <1>3 DEF IsJoin
<1>5. body[1] = checked[1] /\ body[2] = checked[2] /\ body[3] = checked[3]
  BY <1>3, <1>4 DEF IsJoin
<1>6. checked[1] = header[1] /\ checked[2] = header[2] /\ checked[3] = header[3]
  BY <1>1, <1>2 DEF IsJoin
<1>7. SubSeq(body, Len(body) - 2 + 1, Len(body)) = crc
  <2>1. \A i \in 1 .. Len(crc) : body[Len(checked) + i] = crc[i]
    BY <1>3 DEF IsJoin
  <2>2. /\ Len(checked) + Len(crc) = Len(body) /\ Len(checked) + Len(crc) <= Len(body)
        /\ Len(body) - 2 = Len(checked)
    BY <1>4
  <2>3. SubSeq(body, Len(checked) + 1, Len(checked) + Len(crc)) = crc
    BY <1>3, <1>4, <2>1, <2>2, SubSeqIs
  <2> QED BY <2>2, <2>3
<1>8. SubSeq(body, 1, Len(body) - 2) = checked
  <2>1. \A i \in 1 .. Len(checked) : body[0 + i] = checked[i]
    BY <1>3, <1>4 DEF IsJoin
  <2>2. 0 + Len(checked) <= Len(body) /\ Len(body) - 2 = 0 + Len(checked) /\ 0 + 1 = 1
    BY <1>4
  <2>3. SubSeq(body, 0 + 1, 0 + Len(checked)) = checked
    BY <1>2, <1>3, <2>1, <2>2, SubSeqIs
  <2> QED BY <2>2, <2>3
<1>9. SubSeq(body, 3 + 1, Len(body) - 2) = payload
  <2>1. \A i \in 1 .. Len(payload) : body[3 + i] = payload[i]
    <3>1. ASSUME NEW i \in 1 .. Len(payload) PROVE body[3 + i] = payload[i]
      <4>1. 3 + i \in 1 .. Len(checked) /\ checked[3 + i] = payload[i]
        BY <1>1, <1>2, <1>4 DEF IsJoin
      <4> QED BY <1>3, <4>1 DEF IsJoin
    <3> QED BY <3>1
  <2>2. 3 + Len(payload) <= Len(body) /\ Len(body) - 2 = 3 + Len(payload)
    BY <1>4
  <2>3. SubSeq(body, 3 + 1, 3 + Len(payload)) = payload
    BY <1>3, <2>1, <2>2, SubSeqIs
  <2> QED BY <2>2, <2>3
<1> QED
  BY <1>1, <1>2, <1>3, <1>4, <1>5, <1>6, <1>7, <1>8, <1>9 DEF BodyOf, body, checked, header

\* Every frame that encode() makes parses as the frame it was made of, and fits
\* in the buffer of the parser (rudder_protocol.h, encode and Parser::parse).
THEOREM EncodedFrame ==
  ASSUME NEW id \in Byte, NEW number \in Byte, NEW n \in 0 .. MaxPayload,
         NEW payload \in [1 .. n -> Byte]
  PROVE  \E w : /\ Carries(w, Frame(id, number, payload))
                /\ Encode(id, number, payload) = w \o <<Delimiter>>
<1> DEFINE checked == <<ProtocolVersion, id, number>> \o payload
           crc     == Crc16(checked)
           body    == Body(id, number, payload)
<1>1. n \in Nat /\ n <= MaxPayload
  BY FrameAssumption
<1>2. payload \in Seq(Byte) /\ Len(payload) = n
  BY <1>1
<1>3. crc \in Seq(Byte) /\ Len(crc) = 2
  BY CrcIsTwoBytes DEF Crc16
<1> HIDE DEF crc
<1>4. body = checked \o crc
  BY DEF Body, crc
<1> HIDE DEF body
<1>5. BodyOf(checked \o crc, checked, crc, id, number, payload)
  BY <1>2, <1>3, BodyParts
<1>6. /\ body \in Seq(Byte) /\ Len(body) = 3 + Len(payload) + 2
      /\ body[1] = ProtocolVersion /\ body[2] = id /\ body[3] = number
      /\ SubSeq(body, Len(body) - 2 + 1, Len(body)) = crc
      /\ SubSeq(body, 1, Len(body) - 2) = checked
      /\ SubSeq(body, 3 + 1, Len(body) - 2) = payload
  BY <1>4, <1>5 DEF BodyOf
<1> HIDE DEF checked
<1>7. Len(body) <= MaxData
  BY <1>1, <1>2, <1>6, FrameAssumption DEF MaxData, HeaderBytes, CrcBytes
<1>8. PICK acc : /\ CobsAcc(body, acc)
                 /\ CobsEncode(body) = acc[Len(body)].out \o CloseBlock(acc[Len(body)].block)
                                         \o <<Delimiter>>
  BY <1>6, CobsUnfolds
<1> DEFINE w == CobsBlock(body, acc)
<1>9. w \in Seq(NonZero) /\ w # <<>>
  BY <1>6, <1>8, CobsBlockType
<1>10. Len(w) < MaxFrame
  BY <1>6, <1>7, <1>8, CobsBlockFits
<1>11. CobsDecode(w) = <<body>>
  BY <1>6, <1>7, <1>8, CobsRoundTrip
<1>12. Encode(id, number, payload) = w \o <<Delimiter>>
  BY <1>8 DEF Encode, CobsBlock, body
<1> HIDE DEF w
<1>13. CrcMatches(body)
  BY <1>6 DEF CrcMatches, CrcBytes, crc
<1>14. <<body>> # <<>> /\ <<body>>[1] = body
  OBVIOUS
<1>15. Len(body) >= HeaderBytes + CrcBytes
  BY <1>1, <1>2, <1>6 DEF HeaderBytes, CrcBytes
<1>16. SubSeq(body, HeaderBytes + 1, Len(body) - CrcBytes) = payload
  BY <1>6 DEF HeaderBytes, CrcBytes
<1>17. ParseBlock(w) = << Frame(id, number, payload) >>
  BY <1>6, <1>11, <1>13, <1>14, <1>15, <1>16 DEF ParseBlock
<1> QED
  BY <1>9, <1>10, <1>12, <1>17 DEF Carries

-----------------------------------------------------------------------------
(* Parser::feed.                                                           *)

\* What ParseBlock may return.
Parsed == {ParseBlock(block)[1] : block \in Seq(Byte)}

\* The frames a Sender makes.
Frames == [id : Byte, seq : Byte, payload : Seq(Byte)]

\* The states of the parser: _buf and _overflow.
RudderParser == {p \in [block : Seq(Byte), overflow : BOOLEAN] : p.overflow => p.block # <<>>}

\* The parser that has taken the bytes of block.
Holding(block) == [block |-> block, overflow |-> FALSE]

\* MAX_FRAME is not 0.
LEMMA MaxFrameIsNat == MaxFrame \in Nat /\ MaxFrame > 0
<1>1. MaxData \in Nat /\ FullBlock - 1 \in Nat /\ FullBlock - 1 > 0
  BY FrameAssumption DEF MaxData, HeaderBytes, CrcBytes
<1> DEFINE q == MaxData \div (FullBlock - 1)
<1>2. q \in Nat
  BY <1>1
<1> HIDE DEF q
<1>3. MaxData + q + 2 \in Nat /\ MaxData + q + 2 > 0
  BY <1>1, <1>2
<1> QED
  BY <1>3 DEF MaxFrame, q

\* The parts of a parser state.
LEMMA ParserFields ==
  ASSUME NEW p \in RudderParser
  PROVE  /\ p.block \in Seq(Byte) /\ p.overflow \in BOOLEAN /\ (p.overflow => p.block # <<>>)
         /\ p = [block |-> p.block, overflow |-> p.overflow]
BY DEF RudderParser

\* A parser state from its parts.
LEMMA ParserBuilt ==
  ASSUME NEW block \in Seq(Byte), NEW overflow \in BOOLEAN, overflow => block # <<>>
  PROVE  [block |-> block, overflow |-> overflow] \in RudderParser
BY DEF RudderParser

\* What a byte leaves on the line.
LEMMA TailOfLine ==
  ASSUME NEW S, NEW l \in Seq(S), Len(l) > 0
  PROVE  /\ Tail(l) \in Seq(S) /\ (Len(l) = 1 \/ Len(l) > 1)
         /\ Len(l) = 1 => Tail(l) = <<>>
         /\ Len(l) > 1 => Tail(l) # <<>> /\ Len(l) # 1
<1>1. Tail(l) \in Seq(S) /\ Len(Tail(l)) = Len(l) - 1
  BY l # <<>>
<1> DEFINE t == Tail(l)
<1>2. t \in Seq(S) /\ Len(t) = Len(l) - 1
  BY <1>1
<1> HIDE DEF t
<1>3. Len(l) = 1 => t = <<>>
  BY <1>2
<1>4. Len(l) > 1 => t # <<>> /\ Len(l) # 1
  BY <1>2, SMTT(30)
<1>5. Len(l) = 1 \/ Len(l) > 1
  <2>1. Len(l) \in Nat
    OBVIOUS
  <2>2. \A n \in Nat : n > 0 => n = 1 \/ n > 1
    OBVIOUS
  <2> QED BY <2>1, <2>2
<1>6. /\ t \in Seq(S) /\ (Len(l) = 1 \/ Len(l) > 1)
      /\ Len(l) = 1 => t = <<>>
      /\ Len(l) > 1 => t # <<>> /\ Len(l) # 1
  BY <1>2, <1>3, <1>4, <1>5
<1> QED
  BY <1>6 DEF t

\* ParseBlock returns at most one frame.
LEMMA ParseBlockType ==
  ASSUME NEW block \in Seq(Byte) PROVE ParseBlock(block) \in Seq(Parsed)
<1> DEFINE r == ParseBlock(block)
<1>1. r = <<>> \/ \E x : r = <<x>>
  BY DEF ParseBlock
<1>2. r[1] \in Parsed
  BY DEF Parsed
<1> HIDE DEF r
<1>3. ASSUME NEW x, r = <<x>> PROVE r \in Seq(Parsed)
  <2>1. x \in Parsed
    BY <1>2, <1>3
  <2> QED BY <1>3, <2>1
<1>4. <<>> \in Seq(Parsed)
  OBVIOUS
<1>5. r \in Seq(Parsed)
  BY <1>1, <1>3, <1>4
<1> QED
  BY <1>5 DEF r

\* feed() leaves a parser state and returns at most one frame.
LEMMA FeedType ==
  ASSUME NEW p \in RudderParser, NEW byte \in Byte, NEW late \in BOOLEAN
  PROVE  /\ RudderFeed(p, byte, late).parser \in RudderParser
         /\ RudderFeed(p, byte, late).out \in Seq(Parsed)
<1> DEFINE held == IF p.block # <<>> /\ late THEN RudderIdle ELSE p
<1>1. RudderIdle \in RudderParser
  BY DEF RudderParser, RudderIdle
<1>2. held \in RudderParser
  BY <1>1
<1>3. RudderFeed(p, byte, late) = IF byte = Delimiter THEN RudderClose(held) ELSE RudderTake(held, byte)
  BY DEF RudderFeed
<1> HIDE DEF held
<1>4. PICK block, overflow : held = [block |-> block, overflow |-> overflow]
  BY <1>2, ParserFields
<1>5. /\ held.block = block /\ held.overflow = overflow
      /\ block \in Seq(Byte) /\ overflow \in BOOLEAN /\ (overflow => block # <<>>)
  <2>1. held.block = block /\ held.overflow = overflow
    BY <1>4
  <2> QED BY <1>2, <2>1, ParserFields
<1>6. <<>> \in Seq(Parsed) /\ ParseBlock(block) \in Seq(Parsed)
  BY <1>5, ParseBlockType
<1>7. RudderClose(held).parser \in RudderParser /\ RudderClose(held).out \in Seq(Parsed)
  BY <1>1, <1>5, <1>6 DEF RudderClose
<1>8. Append(block, byte) \in Seq(Byte) /\ Append(block, byte) # <<>>
  BY <1>5
<1>9. /\ [held EXCEPT !.block = Append(@, byte)] = [block |-> Append(block, byte), overflow |-> overflow]
      /\ [held EXCEPT !.overflow = TRUE] = [block |-> block, overflow |-> TRUE]
  <2>1. [held EXCEPT !.block = Append(block, byte)] = [block |-> Append(block, byte), overflow |-> overflow]
    BY <1>4
  <2>2. [held EXCEPT !.overflow = TRUE] = [block |-> block, overflow |-> TRUE]
    <3> DEFINE yes == TRUE
    <3> HIDE DEF yes
    <3>1. [held EXCEPT !.overflow = yes] = [block |-> block, overflow |-> yes]
      BY <1>4
    <3> QED BY <3>1 DEF yes
  <2> QED BY <1>5, <2>1, <2>2
<1>10. [block |-> Append(block, byte), overflow |-> overflow] \in RudderParser
  BY <1>5, <1>8, ParserBuilt
<1>11. ~ (Len(block) < MaxFrame) => [block |-> block, overflow |-> TRUE] \in RudderParser
  <2>1. ASSUME ~ (Len(block) < MaxFrame) PROVE block # <<>>
    BY <2>1, MaxFrameIsNat
  <2> QED BY <1>5, <2>1, ParserBuilt
<1>12. RudderTake(held, byte).parser \in RudderParser /\ RudderTake(held, byte).out \in Seq(Parsed)
  BY <1>5, <1>6, <1>9, <1>10, <1>11 DEF RudderTake
<1> QED
  BY <1>3, <1>7, <1>12

\* A late byte comes to an empty parser.
LEMMA FeedLate ==
  ASSUME NEW p \in RudderParser, NEW byte
  PROVE  RudderFeed(p, byte, TRUE) = RudderFeed(RudderIdle, byte, FALSE)
<1>1. p.block = <<>> => p = RudderIdle
  BY ParserFields DEF RudderIdle
<1>2. (IF p.block # <<>> /\ TRUE THEN RudderIdle ELSE p) = RudderIdle
  BY <1>1
<1> QED
  BY <1>2 DEF RudderFeed

\* A byte within a frame is taken into the buffer while it has room.
LEMMA FeedTakes ==
  ASSUME NEW block \in Seq(Byte), Len(block) < MaxFrame, NEW byte \in NonZero
  PROVE  RudderFeed(Holding(block), byte, FALSE) = [parser |-> Holding(Append(block, byte)), out |-> <<>>]
<1>1. byte # Delimiter
  BY ByteSplit
<1>2. /\ Holding(block).block = block
      /\ [Holding(block) EXCEPT !.block = Append(@, byte)] = Holding(Append(block, byte))
  <2>1. Holding(block).block = block
    BY DEF Holding
  <2>2. [Holding(block) EXCEPT !.block = Append(block, byte)] = Holding(Append(block, byte))
    <3> DEFINE no == FALSE
    <3> HIDE DEF no
    <3>1. [ [block |-> block, overflow |-> no] EXCEPT !.block = Append(block, byte)]
            = [block |-> Append(block, byte), overflow |-> no]
      OBVIOUS
    <3> QED BY <3>1 DEF Holding, no
  <2> QED BY <2>1, <2>2
<1> QED
  BY <1>1, <1>2 DEF RudderFeed, RudderTake

\* The delimiter empties the parser, and returns what the buffer parses as.
LEMMA FeedCloses ==
  ASSUME NEW p, NEW late
  PROVE  /\ RudderFeed(p, Delimiter, late).parser = RudderIdle
         /\ \A block : p = Holding(block) /\ block # <<>> /\ late = FALSE =>
              RudderFeed(p, Delimiter, late).out = ParseBlock(block)
<1>1. RudderFeed(p, Delimiter, late).parser = RudderIdle
  BY DEF RudderFeed, RudderClose
<1>2. ASSUME NEW block, p = Holding(block), block # <<>>, late = FALSE
      PROVE  RudderFeed(p, Delimiter, late).out = ParseBlock(block)
  <2>1. p.block = block /\ p.overflow = FALSE
    BY <1>2 DEF Holding
  <2> QED BY <1>2, <2>1 DEF RudderFeed, RudderClose
<1> QED
  BY <1>1, <1>2

\* How far the block w has come: p has gone, l is still on the line.
Underway(w, p, l) == p \in Seq(NonZero) /\ l \in Seq(Byte) /\ w \o <<Delimiter>> = p \o l

\* The next byte is the delimiter: all of w has gone.
AtDelimiter(w, p, l) == Head(l) = Delimiter /\ Tail(l) = <<>> /\ p = w /\ Len(l) = 1

\* The next byte is one of w.
AtByte(w, p, l) ==
  /\ Head(l) \in NonZero /\ Tail(l) # <<>> /\ Len(l) # 1 /\ Len(p) < Len(w)
  /\ Underway(w, Append(p, Head(l)), Tail(l))

\* The next byte of a frame underway is one or the other.
LEMMA NextByte ==
  ASSUME NEW w \in Seq(NonZero), NEW p, NEW l, Underway(w, p, l), l # <<>>
  PROVE  AtDelimiter(w, p, l) \/ AtByte(w, p, l)
<1>1. p \in Seq(NonZero) /\ l \in Seq(Byte) /\ w \o <<Delimiter>> = p \o l
  BY DEF Underway
<1>2. <<Delimiter>> \in Seq(Byte) /\ w \in Seq(Byte) /\ p \in Seq(Byte)
  <2>1. Delimiter \in Byte
    BY DEF Delimiter, Byte
  <2> QED BY <1>1, <2>1, NonZeroAreBytes
<1>3. Len(w) + 1 = Len(p) + Len(l) /\ Len(l) \in Nat /\ Len(l) > 0 /\ Len(w) \in Nat /\ Len(p) \in Nat
  <2>1. Len(w \o <<Delimiter>>) = Len(w) + 1 /\ Len(p \o l) = Len(p) + Len(l)
    BY <1>1, <1>2
  <2> QED BY <1>1, <2>1
<1> DEFINE s == w \o <<Delimiter>>
<1>4. \A i \in 1 .. Len(w) : s[i] = w[i]
  BY <1>2
<1>5. s[Len(w) + 1] = Delimiter
  BY <1>2
<1>6. s[Len(p) + 1] = l[1]
  <2>1. (p \o l)[Len(p) + 1] = l[1]
    BY <1>1, <1>2, <1>3
  <2> QED BY <1>1, <2>1
<1>7. \A i \in 1 .. Len(p) : s[i] = p[i]
  <2>1. \A i \in 1 .. Len(p) : (p \o l)[i] = p[i]
    BY <1>1, <1>2
  <2> QED BY <1>1, <2>1
<1> HIDE DEF s
<1>8. CASE Len(l) = 1
  <2>1. Len(p) = Len(w)
    BY <1>3, <1>8
  <2>2. p = w
    <3>1. \A i \in 1 .. Len(w) : p[i] = w[i]
      BY <1>4, <1>7, <2>1
    <3> QED BY <1>1, <2>1, <3>1
  <2>3. Head(l) = Delimiter
    BY <1>1, <1>5, <1>6, <1>8, <2>1
  <2>4. Tail(l) = <<>>
    BY <1>1, <1>3, <1>8, TailOfLine
  <2> QED BY <1>8, <2>2, <2>3, <2>4 DEF AtDelimiter
<1>9. CASE Len(l) > 1
  <2>1. Len(p) < Len(w) /\ Len(p) + 1 \in 1 .. Len(w)
    BY <1>3, <1>9
  <2>2. Head(l) = w[Len(p) + 1]
    BY <1>1, <1>4, <1>6, <1>9, <2>1
  <2>3. w[Len(p) + 1] \in NonZero
    BY <2>1
  <2>4. Head(l) \in NonZero
    BY <2>2, <2>3
  <2>5. Tail(l) \in Seq(Byte) /\ Tail(l) # <<>>
    BY <1>1, <1>3, <1>9, TailOfLine
  <2>6. l = <<Head(l)>> \o Tail(l) /\ <<Head(l)>> \in Seq(Byte)
    BY <1>1, <1>9
  <2>7. Append(p, Head(l)) = p \o <<Head(l)>> /\ Append(p, Head(l)) \in Seq(NonZero)
    BY <1>1, <2>4
  <2>8. (p \o <<Head(l)>>) \o Tail(l) = p \o (<<Head(l)>> \o Tail(l))
    BY <1>2, <2>5, <2>6, Associative
  <2>9. Underway(w, Append(p, Head(l)), Tail(l))
    BY <1>1, <2>5, <2>6, <2>7, <2>8 DEF Underway
  <2>10. Len(l) # 1
    BY <1>1, <1>3, <1>9, TailOfLine
  <2> QED BY <2>1, <2>4, <2>5, <2>9, <2>10 DEF AtByte
<1>10. Len(l) = 1 \/ Len(l) > 1
  BY <1>1, <1>3, TailOfLine
<1> QED
  BY <1>8, <1>9, <1>10

-----------------------------------------------------------------------------
(* The invariant of the rudder line.                                       *)

\* Type correctness of the rudder line.
RudderType ==
  /\ seq \in Byte /\ line \in Seq(Byte) /\ untouched \in BOOLEAN
  /\ parser \in RudderParser /\ sent \in Seq(Frames) /\ delivered \in Seq(Parsed)
  /\ hurt \subseteq 1 .. Len(sent) /\ endLost \subseteq 1 .. Len(sent)
  /\ rested \subseteq 1 .. Len(sent)

\* The parser has what has gone of the frame on the line.
Holds(p) ==
  IF untouched THEN p = <<>> /\ (Current - 1 \notin endLost => parser = RudderIdle)
  ELSE Current \notin hurt /\ InStep(Current) => parser = Holding(p)

\* What is on the line is the rest of the frame sent last.
RudderLine ==
  line # <<>> =>
    /\ Current > 0 /\ Current \notin endLost /\ (untouched => Current \notin rested)
    /\ \E w, p : Carries(w, sent[Current]) /\ Underway(w, p, line) /\ Holds(p)

\* Between frames the parser is empty, unless the last delimiter was lost.
RudderAtRest == line = <<>> /\ Current \notin endLost => parser = RudderIdle

\* The property for each frame whose last byte has gone.
Arrived ==
  \A i \in 1 .. Len(sent) :
    (i < Len(sent) \/ line = <<>>) /\ Unhurt(i) /\ InStep(i) => sent[i] \in ToSet(delivered)

\* The inductive invariant of the rudder line.
RudderInv == port = "rudder" /\ RudderType /\ RudderLine /\ RudderAtRest /\ Arrived

-----------------------------------------------------------------------------
(* Steps with a byte.                                                      *)
\* What every step with a byte has in common.
ByteStep ==
  /\ line # <<>> /\ port' = port /\ sent' = sent /\ seq' = seq
  /\ untouched' = FALSE /\ parser' \in RudderParser
  /\ \E out \in Seq(Parsed) : delivered' = delivered \o out

\* What was delivered stays delivered.
LEMMA JoinedSet ==
  ASSUME NEW S, NEW s \in Seq(S), NEW r \in Seq(S), NEW x
  PROVE  /\ x \in ToSet(s) => x \in ToSet(s \o r)
         /\ r = <<x>> => x \in ToSet(s \o r)
<1> DEFINE j == s \o r
<1>1. j \in Seq(S) /\ IsJoin(s, r, j)
  BY Joined
<1> HIDE DEF j
<1>2. ASSUME x \in ToSet(s) PROVE x \in ToSet(j)
  <2>1. PICK i \in 1 .. Len(s) : s[i] = x
    BY <1>2 DEF ToSet
  <2>2. i \in 1 .. Len(j) /\ j[i] = x
    BY <1>1, <2>1 DEF IsJoin
  <2> QED BY <1>1, <2>2 DEF ToSet
<1>3. ASSUME r = <<x>> PROVE x \in ToSet(j)
  <2>1. Len(r) = 1 /\ r[1] = x
    BY <1>3
  <2>2. Len(s) + 1 \in 1 .. Len(j) /\ j[Len(s) + 1] = x
    BY <1>1, <2>1 DEF IsJoin
  <2> QED BY <1>1, <2>2 DEF ToSet
<1> QED
  BY <1>2, <1>3 DEF j

\* A byte step disturbs no frame but the one on the line.
LEMMA OthersArrived ==
  ASSUME RudderInv, ByteStep, hurt \subseteq hurt', endLost \subseteq endLost',
         rested' \subseteq rested \cup {Current}
  PROVE  \A i \in 1 .. Len(sent') :
           i < Len(sent') /\ Unhurt(i)' /\ InStep(i)' => sent'[i] \in ToSet(delivered')
<1>1. port = "rudder" /\ delivered \in Seq(Parsed) /\ sent \in Seq(Frames)
  BY DEF RudderInv, RudderType
<1>2. sent' = sent /\ port' = port
  BY DEF ByteStep
<1>3. PICK out \in Seq(Parsed) : delivered' = delivered \o out
  BY DEF ByteStep
<1>4. ASSUME NEW i \in 1 .. Len(sent), i < Len(sent), Unhurt(i)', InStep(i)'
      PROVE  sent[i] \in ToSet(delivered')
  <2>1. Unhurt(i)
    BY <1>4 DEF Unhurt
  <2>2. i # Current
    BY <1>1, <1>4 DEF Current
  <2>3. InStep(i)
    BY <1>1, <1>2, <1>4, <2>2 DEF InStep
  <2>4. sent[i] \in ToSet(delivered)
    BY <1>4, <2>1, <2>3 DEF RudderInv, Arrived
  <2> QED BY <1>1, <1>3, <2>4, JoinedSet
<1> QED
  BY <1>2, <1>4

\* A byte step keeps the types.
LEMMA RudderTypeStays ==
  ASSUME RudderInv, ByteStep, line' \in Seq(Byte), hurt' \subseteq hurt \cup {Current},
         endLost' \subseteq endLost \cup {Current}, rested' \subseteq rested \cup {Current}
  PROVE  RudderType'
<1>1. RudderType /\ Current > 0
  BY DEF RudderInv, RudderLine, ByteStep
<1>2. Len(sent) \in Nat
  BY <1>1 DEF RudderType
<1>3. Current \in 1 .. Len(sent)
  BY <1>1, <1>2 DEF Current
<1>4. delivered' \in Seq(Parsed)
  BY <1>1 DEF RudderType, ByteStep
<1> QED
  BY <1>1, <1>3, <1>4 DEF RudderType, ByteStep

\* A line of bytes, taken apart.
LEMMA LineBytes ==
  ASSUME NEW l \in Seq(Byte), l # <<>> PROVE Head(l) \in Byte /\ Tail(l) \in Seq(Byte)
OBVIOUS

\* A step that hurts the frame on the line.
HurtingStep ==
  /\ ByteStep /\ rested' = rested
  /\ \/ line' = Tail(line) /\ Harm
     \/ line' = line /\ hurt' = hurt \cup {Current} /\ endLost' = endLost

\* A step that hurts the frame on the line keeps the invariant, whatever it
\* feeds the parser.
LEMMA HurtingKeeps ==
  ASSUME RudderInv, HurtingStep
  PROVE  RudderInv'
<1>1. /\ ByteStep /\ line # <<>> /\ port' = port /\ sent' = sent /\ untouched' = FALSE
      /\ rested' = rested /\ port = "rudder" /\ RudderType
  BY DEF HurtingStep, ByteStep, RudderInv
<1>2. Current' = Current
  BY <1>1 DEF Current
<1>3. line \in Seq(Byte)
  BY <1>1 DEF RudderType
<1>4. line' \in Seq(Byte)
  BY <1>1, <1>3, LineBytes DEF HurtingStep
<1>5. /\ hurt \subseteq hurt' /\ hurt' \subseteq hurt \cup {Current}
      /\ endLost \subseteq endLost' /\ endLost' \subseteq endLost \cup {Current}
      /\ rested' \subseteq rested \cup {Current}
  BY <1>1 DEF HurtingStep, Harm
<1>6. RudderType'
  BY <1>1, <1>4, <1>5, RudderTypeStays
<1>7. /\ Current > 0 /\ Current \notin endLost
      /\ \E w, p : Carries(w, sent[Current]) /\ Underway(w, p, line)
  BY <1>1 DEF RudderInv, RudderLine
<1>8. PICK w, p : Carries(w, sent[Current]) /\ Underway(w, p, line)
  BY <1>7
<1>9. w \in Seq(NonZero) /\ w # <<>>
  BY <1>8 DEF Carries
<1>10. AtDelimiter(w, p, line) \/ AtByte(w, p, line)
  BY <1>1, <1>8, <1>9, NextByte
<1>11. Current \in hurt' \/ Current \in endLost'
  BY DEF HurtingStep, Harm
<1>12. line' # <<>> => Current \in hurt' /\ Current \notin endLost'
  BY <1>1, <1>7, <1>10 DEF HurtingStep, Harm, AtDelimiter, AtByte
<1>13. line' = <<>> => Current \in endLost'
  BY <1>1, <1>10 DEF HurtingStep, Harm, AtDelimiter, AtByte
<1>14. RudderLine'
  <2> SUFFICES ASSUME line' # <<>> PROVE RudderLine'
    BY DEF RudderLine
  <2>1. \E q : Underway(w, q, line')
    BY <1>1, <1>8, <1>10 DEF HurtingStep, AtDelimiter, AtByte
  <2>2. PICK q : Underway(w, q, line')
    BY <2>1
  <2>3. Holds(q)'
    BY <1>1, <1>2, <1>12 DEF Holds
  <2>4. Carries(w, sent'[Current'])
    BY <1>1, <1>2, <1>8
  <2> QED BY <1>1, <1>2, <1>7, <1>12, <2>2, <2>3, <2>4 DEF RudderLine
<1>15. RudderAtRest'
  BY <1>2, <1>13 DEF RudderAtRest
<1>16. Arrived'
  <2>1. \A i \in 1 .. Len(sent') :
           i < Len(sent') /\ Unhurt(i)' /\ InStep(i)' => sent'[i] \in ToSet(delivered')
    BY <1>1, <1>5, OthersArrived
  <2>2. \A i \in 1 .. Len(sent') : i = Current => ~ Unhurt(i)'
    BY <1>11 DEF Unhurt
  <2>3. \A i \in 1 .. Len(sent') : i < Len(sent') \/ i = Current
    BY <1>1 DEF Current, RudderType
  <2>4. ASSUME NEW i \in 1 .. Len(sent'), Unhurt(i)', InStep(i)'
        PROVE  sent'[i] \in ToSet(delivered')
    BY <2>1, <2>2, <2>3, <2>4
  <2> QED BY <2>4 DEF Arrived
<1> QED
  BY <1>1, <1>6, <1>14, <1>15, <1>16 DEF RudderInv

\* Feed is RudderFeed on the rudder line.
LEMMA FeedSteps ==
  ASSUME RudderInv, NEW byte \in Byte, NEW late \in BOOLEAN, Feed(byte, late)
  PROVE  /\ parser' = RudderFeed(parser, byte, late).parser
         /\ delivered' = delivered \o RudderFeed(parser, byte, late).out
         /\ parser' \in RudderParser /\ RudderFeed(parser, byte, late).out \in Seq(Parsed)
<1>1. port = "rudder" /\ parser \in RudderParser
  BY DEF RudderInv, RudderType
<1>2. /\ parser' = RudderFeed(parser, byte, late).parser
      /\ delivered' = delivered \o RudderFeed(parser, byte, late).out
  BY <1>1 DEF Feed
<1> QED
  BY <1>1, <1>2, FeedType

\* The invariant under ByteLost.
LEMMA ByteLostKeeps == RudderInv /\ ByteLost => RudderInv'
<1> SUFFICES ASSUME RudderInv, ByteLost PROVE RudderInv'
  OBVIOUS
<1>1. parser' \in RudderParser /\ delivered \in Seq(Parsed)
  BY DEF ByteLost, RudderInv, RudderType
<1>2. delivered' = delivered \o <<>> /\ <<>> \in Seq(Parsed)
  BY <1>1, EmptyJoins DEF ByteLost
<1>3. HurtingStep
  BY <1>1, <1>2 DEF ByteLost, HurtingStep, ByteStep
<1> QED
  BY <1>3, HurtingKeeps

\* The invariant under ByteChanged.
LEMMA ByteChangedKeeps == RudderInv /\ ByteChanged => RudderInv'
<1> SUFFICES ASSUME RudderInv, ByteChanged PROVE RudderInv'
  OBVIOUS
<1>1. port \in Ports
  BY DEF RudderInv, Ports
<1>2. PICK byte \in Noise[port] \ {Head(line)} : Feed(byte, FALSE)
  BY DEF ByteChanged
<1>3. byte \in Byte
  BY <1>1, <1>2, LinkAssumption DEF Byte
<1>4. /\ delivered' = delivered \o RudderFeed(parser, byte, FALSE).out
      /\ parser' \in RudderParser /\ RudderFeed(parser, byte, FALSE).out \in Seq(Parsed)
  BY <1>2, <1>3, FeedSteps
<1>5. HurtingStep
  BY <1>4 DEF ByteChanged, HurtingStep, ByteStep
<1> QED
  BY <1>5, HurtingKeeps

\* The invariant under NoiseArrives.
LEMMA NoiseArrivesKeeps == RudderInv /\ NoiseArrives => RudderInv'
<1> SUFFICES ASSUME RudderInv, NoiseArrives PROVE RudderInv'
  OBVIOUS
<1>1. port \in Ports
  BY DEF RudderInv, Ports
<1>2. PICK byte \in Noise[port], late \in BOOLEAN : Feed(byte, late)
  BY DEF NoiseArrives
<1>3. byte \in Byte
  BY <1>1, <1>2, LinkAssumption DEF Byte
<1>4. /\ delivered' = delivered \o RudderFeed(parser, byte, late).out
      /\ parser' \in RudderParser /\ RudderFeed(parser, byte, late).out \in Seq(Parsed)
  BY <1>2, <1>3, FeedSteps
<1>5. HurtingStep
  BY <1>4 DEF NoiseArrives, HurtingStep, ByteStep
<1> QED
  BY <1>5, HurtingKeeps

\* The empty parser holds no byte.
LEMMA IdleHolds == RudderIdle = Holding(<<>>)
BY DEF RudderIdle, Holding

\* What a byte of the frame does: it is the delimiter or not, and if the frame's
\* start is found and nothing has hurt it, it comes to a parser that holds p.
ByteFed(w, p, fed) ==
  /\ Carries(w, sent[Current]) /\ Underway(w, p, line)
  /\ AtDelimiter(w, p, line) \/ (AtByte(w, p, line) /\ Len(p) < MaxFrame)
  /\ parser' = fed.parser /\ delivered' = delivered \o fed.out /\ fed.out \in Seq(Parsed)
  /\ Head(line) = Delimiter => fed.parser = RudderIdle
  /\ Current \notin hurt' /\ (Current \in rested' \/ Current - 1 \notin endLost) =>
       fed = RudderFeed(Holding(p), Head(line), FALSE)

\* ByteArrives feeds such a byte.
LEMMA ByteIsFed ==
  ASSUME RudderInv, ByteArrives
  PROVE  \E w, p, fed : ByteFed(w, p, fed)
<1>1. line # <<>> /\ port = "rudder" /\ RudderType
  BY DEF ByteArrives, RudderInv
<1>2. PICK late \in BOOLEAN :
        /\ Feed(Head(line), late)
        /\ IF late /\ ~untouched
             THEN Fault /\ hurt' = hurt \cup {Current}
             ELSE UNCHANGED <<faults, hurt>>
        /\ IF late /\ untouched THEN Rest ELSE UNCHANGED rested
  BY DEF ByteArrives
<1>3. Head(line) \in Byte
  BY <1>1, LineBytes DEF RudderType
<1> DEFINE fed == RudderFeed(parser, Head(line), late)
<1>4. /\ parser' = fed.parser /\ delivered' = delivered \o fed.out /\ fed.out \in Seq(Parsed)
  BY <1>2, <1>3, FeedSteps
<1>5. Head(line) = Delimiter => fed.parser = RudderIdle
  BY FeedCloses
<1> HIDE DEF fed
<1>6. PICK w, p : Carries(w, sent[Current]) /\ Underway(w, p, line) /\ Holds(p)
  BY <1>1 DEF RudderInv, RudderLine
<1>7. w \in Seq(NonZero) /\ Len(w) < MaxFrame
  BY <1>6 DEF Carries
<1>8. AtDelimiter(w, p, line) \/ AtByte(w, p, line)
  BY <1>1, <1>6, <1>7, NextByte
<1>9. AtByte(w, p, line) => Len(p) < MaxFrame
  <2> SUFFICES ASSUME AtByte(w, p, line) PROVE Len(p) < MaxFrame
    OBVIOUS
  <2>1. Len(p) < Len(w) /\ p \in Seq(NonZero)
    BY <1>6 DEF AtByte, Underway
  <2> QED BY <1>7, <2>1, MaxFrameIsNat
<1>10. untouched => Current \notin rested
  BY <1>1 DEF RudderInv, RudderLine
<1>11. ASSUME untouched, Current \in rested' \/ Current - 1 \notin endLost
       PROVE  p = <<>> /\ fed = RudderFeed(Holding(<<>>), Head(line), FALSE)
  <2>1. p = <<>>
    BY <1>6, <1>11 DEF Holds
  <2>2. CASE late
    BY <1>1, <2>1, <2>2, FeedLate, IdleHolds DEF fed, RudderType
  <2>3. CASE ~ late
    <3>1. Current \notin rested'
      BY <1>2, <1>10, <1>11, <2>3
    <3>2. parser = RudderIdle
      BY <1>6, <1>11, <3>1 DEF Holds
    <3> QED BY <2>1, <2>3, <3>2, IdleHolds DEF fed
  <2> QED BY <2>2, <2>3
<1>12. ASSUME ~untouched, Current \notin hurt', Current \in rested' \/ Current - 1 \notin endLost
       PROVE  fed = RudderFeed(Holding(p), Head(line), FALSE)
  <2>1. ~ late
    BY <1>2, <1>12
  <2>2. Current \notin hurt /\ (Current \in rested \/ Current - 1 \notin endLost)
    BY <1>2, <1>12, <2>1
  <2>3. InStep(Current)
    BY <1>1, <2>2 DEF InStep
  <2>4. parser = Holding(p)
    BY <1>6, <1>12, <2>2, <2>3 DEF Holds
  <2> QED BY <2>1, <2>4 DEF fed
<1>13. ASSUME Current \notin hurt', Current \in rested' \/ Current - 1 \notin endLost
       PROVE  fed = RudderFeed(Holding(p), Head(line), FALSE)
  BY <1>11, <1>12, <1>13
<1>14. ByteFed(w, p, fed)
  BY <1>4, <1>5, <1>6, <1>8, <1>9, <1>13 DEF ByteFed
<1> QED
  BY <1>14

\* What the parser makes of such a byte.
LEMMA FedInStep ==
  ASSUME RudderInv, NEW w, NEW p, NEW fed, ByteFed(w, p, fed), Current \notin hurt',
         Current \in rested' \/ Current - 1 \notin endLost
  PROVE  /\ AtByte(w, p, line) =>
              parser' = Holding(Append(p, Head(line))) /\ delivered' = delivered
         /\ AtDelimiter(w, p, line) =>
              delivered' = delivered \o <<sent[Current]>> /\ <<sent[Current]>> \in Seq(Parsed)
<1>1. fed = RudderFeed(Holding(p), Head(line), FALSE)
  BY DEF ByteFed
<1>2. ASSUME AtByte(w, p, line)
      PROVE  parser' = Holding(Append(p, Head(line))) /\ delivered' = delivered
  <2>1. Head(line) \in NonZero /\ Len(p) < MaxFrame /\ p \in Seq(Byte)
    <3>1. ~ AtDelimiter(w, p, line)
      BY <1>2 DEF AtByte, AtDelimiter
    <3>2. p \in Seq(NonZero)
      BY DEF ByteFed, Underway
    <3> QED BY <1>2, <3>1, <3>2, NonZeroAreBytes DEF AtByte, ByteFed
  <2> DEFINE h == Holding(Append(p, Head(line)))
  <2>2. fed = [parser |-> h, out |-> <<>>]
    BY <1>1, <2>1, FeedTakes
  <2> HIDE DEF h
  <2>3. fed.parser = h /\ fed.out = <<>>
    BY <2>2
  <2>4. parser' = h
    BY <2>3 DEF ByteFed
  <2>5. delivered' = delivered
    BY <2>3, EmptyJoins DEF ByteFed, RudderInv, RudderType
  <2> QED BY <2>4, <2>5 DEF h
<1>3. ASSUME AtDelimiter(w, p, line)
      PROVE  delivered' = delivered \o <<sent[Current]>> /\ <<sent[Current]>> \in Seq(Parsed)
  <2>1. Head(line) = Delimiter /\ p = w /\ w # <<>> /\ ParseBlock(w) = <<sent[Current]>>
    BY <1>3 DEF AtDelimiter, ByteFed, Carries
  <2>2. fed.out = <<sent[Current]>>
    BY <1>1, <2>1, FeedCloses
  <2> QED BY <2>2 DEF ByteFed
<1> QED
  BY <1>2, <1>3

\* The invariant under ByteArrives.
LEMMA ByteArrivesKeeps == RudderInv /\ ByteArrives => RudderInv'
<1> SUFFICES ASSUME RudderInv, ByteArrives PROVE RudderInv'
  OBVIOUS
<1>1. /\ line # <<>> /\ port' = port /\ sent' = sent /\ seq' = seq /\ endLost' = endLost
      /\ line' = Tail(line) /\ untouched' = FALSE /\ port = "rudder" /\ RudderType
  BY DEF ByteArrives, RudderInv
<1>2. PICK late \in BOOLEAN :
        /\ Feed(Head(line), late)
        /\ IF late /\ ~untouched
             THEN Fault /\ hurt' = hurt \cup {Current}
             ELSE UNCHANGED <<faults, hurt>>
        /\ IF late /\ untouched THEN Rest ELSE UNCHANGED rested
  BY DEF ByteArrives
<1>3. line \in Seq(Byte) /\ Head(line) \in Byte /\ Tail(line) \in Seq(Byte)
  BY <1>1, LineBytes DEF RudderType
<1>4. ByteStep
  BY <1>1, <1>2, <1>3, FeedSteps DEF ByteStep
<1>5. Current' = Current
  BY <1>1 DEF Current
<1>6. /\ hurt \subseteq hurt' /\ hurt' \subseteq hurt \cup {Current}
      /\ endLost \subseteq endLost' /\ endLost' \subseteq endLost \cup {Current}
      /\ rested' \subseteq rested \cup {Current}
  BY <1>1, <1>2 DEF Rest
<1>7. RudderType'
  BY <1>1, <1>3, <1>4, <1>6, RudderTypeStays
<1>8. \A i \in 1 .. Len(sent') :
         i < Len(sent') /\ Unhurt(i)' /\ InStep(i)' => sent'[i] \in ToSet(delivered')
  BY <1>4, <1>6, OthersArrived
<1>9. \A i \in 1 .. Len(sent') : i < Len(sent') \/ i = Current
  BY <1>1 DEF Current, RudderType
<1>10. Current > 0 /\ Current \notin endLost
  BY <1>1 DEF RudderInv, RudderLine
<1>11. PICK w, p, fed : ByteFed(w, p, fed)
  BY ByteIsFed
<1>12. Carries(w, sent[Current]) /\ (AtDelimiter(w, p, line) \/ AtByte(w, p, line))
  BY <1>11 DEF ByteFed
<1>13. ASSUME AtByte(w, p, line) PROVE RudderInv'
  <2>1. Head(line) \in NonZero /\ line' # <<>> /\ Underway(w, Append(p, Head(line)), line')
    BY <1>1, <1>13 DEF AtByte
  <2>2. PICK q : q = Append(p, Head(line))
    OBVIOUS
  <2>3. ASSUME Current \notin hurt', Current \in rested' \/ Current - 1 \notin endLost
        PROVE  parser' = Holding(q)
    BY <1>11, <1>13, <2>2, <2>3, FedInStep
  <2>4. Holds(q)'
    BY <1>1, <1>5, <2>3 DEF Holds, InStep
  <2>5. Carries(w, sent'[Current']) /\ Underway(w, q, line')
    BY <1>1, <1>5, <1>12, <2>1, <2>2
  <2>6. RudderLine'
    BY <1>1, <1>5, <1>10, <2>4, <2>5 DEF RudderLine
  <2>7. RudderAtRest' /\ Arrived'
    BY <1>8, <2>1 DEF RudderAtRest, Arrived
  <2> QED BY <1>1, <1>7, <2>6, <2>7 DEF RudderInv
<1>14. ASSUME AtDelimiter(w, p, line) PROVE RudderInv'
  <2>1. Head(line) = Delimiter /\ line' = <<>> /\ p = w
    BY <1>1, <1>14 DEF AtDelimiter
  <2>2. parser' = RudderIdle
    BY <1>11, <2>1 DEF ByteFed
  <2>3. RudderLine' /\ RudderAtRest'
    BY <2>1, <2>2 DEF RudderLine, RudderAtRest
  <2>4. ASSUME Unhurt(Current)', InStep(Current)'
        PROVE  sent[Current] \in ToSet(delivered')
    <3>1. Current \notin hurt' /\ (Current \in rested' \/ Current - 1 \notin endLost)
      BY <1>1, <1>5, <2>4 DEF Unhurt, InStep
    <3>2. delivered' = delivered \o <<sent[Current]>> /\ <<sent[Current]>> \in Seq(Parsed)
      BY <1>11, <1>14, <3>1, FedInStep
    <3> QED BY <1>1, <3>2, JoinedSet DEF RudderType
  <2>5. ASSUME NEW i \in 1 .. Len(sent'), Unhurt(i)', InStep(i)'
        PROVE  sent'[i] \in ToSet(delivered')
    <3>1. CASE i < Len(sent')
      BY <1>8, <2>5, <3>1
    <3>2. CASE i = Current
      BY <1>1, <1>5, <2>4, <2>5, <3>2
    <3> QED BY <1>9, <3>1, <3>2
  <2>6. Arrived'
    BY <2>5 DEF Arrived
  <2> QED BY <1>1, <1>7, <2>3, <2>6 DEF RudderInv
<1> QED
  BY <1>12, <1>13, <1>14

\* What a Sender stamps is bytes.
LEMMA LinkBytes ==
  /\ MsgIds \subseteq Byte /\ PayloadBytes \subseteq Byte /\ FirstSeq \subseteq Byte
  /\ \A number \in Byte : (number + 1) % 256 \in Byte
<1>1. \A number \in Byte : (number + 1) % 256 \in Byte
  BY DEF Byte
<1> QED
  BY <1>1, LinkAssumption DEF Byte

\* The invariant under Send.
LEMMA SendKeeps == RudderInv /\ Send => RudderInv'
<1> SUFFICES ASSUME RudderInv, Send PROVE RudderInv'
  OBVIOUS
<1>1. /\ line = <<>> /\ port' = port /\ parser' = parser /\ delivered' = delivered
      /\ hurt' = hurt /\ endLost' = endLost /\ rested' = rested /\ untouched' = TRUE
      /\ seq' = NextSeq /\ port = "rudder" /\ RudderType
  BY DEF Send, RudderInv
<1>2. PICK id \in MsgIds, n \in 0 .. MaxPayload : \E payload \in [1 .. n -> PayloadBytes] :
        line' = Encode(id, seq, payload) /\ sent' = Append(sent, Frame(id, seq, payload))
  BY DEF Send
<1>3. PICK payload \in [1 .. n -> PayloadBytes] :
        line' = Encode(id, seq, payload) /\ sent' = Append(sent, Frame(id, seq, payload))
  BY <1>2
<1>4. id \in Byte /\ payload \in [1 .. n -> Byte] /\ seq \in Byte /\ NextSeq \in Byte
  BY <1>1, <1>2, <1>3, LinkBytes DEF RudderType, NextSeq
<1> DEFINE frame == Frame(id, seq, payload)
<1>5. frame \in Frames
  <2>1. payload \in Seq(Byte)
    BY <1>4, FrameAssumption
  <2> QED BY <1>4, <2>1 DEF Frame, Frames
<1>6. PICK w : Carries(w, frame) /\ Encode(id, seq, payload) = w \o <<Delimiter>>
  BY <1>4, EncodedFrame
<1> HIDE DEF frame
<1>7. sent' = Append(sent, frame)
  BY <1>3 DEF frame
<1>8. sent \in Seq(Frames) /\ Len(sent) \in Nat
  BY <1>1 DEF RudderType
<1>9. /\ sent' \in Seq(Frames) /\ Current' = Current + 1 /\ Len(sent') = Len(sent) + 1
      /\ sent'[Len(sent) + 1] = frame /\ \A i \in 1 .. Len(sent) : sent'[i] = sent[i]
  BY <1>5, <1>7, <1>8 DEF Current
<1>10. w \in Seq(Byte) /\ <<Delimiter>> \in Seq(Byte) /\ line' = w \o <<Delimiter>>
  BY <1>3, <1>6, NonZeroAreBytes DEF Carries, Delimiter, Byte
<1>11. line' \in Seq(Byte) /\ line' # <<>>
  BY <1>10
<1>12. RudderType'
  BY <1>1, <1>4, <1>9, <1>11 DEF RudderType
<1>13. Underway(w, <<>>, line')
  <2>1. <<>> \o line' = line' /\ <<>> \in Seq(NonZero)
    BY <1>11
  <2> QED BY <1>10, <1>11, <2>1 DEF Underway
<1>14. Carries(w, sent'[Current'])
  BY <1>6, <1>9 DEF Current
<1>15. Current' > 0 /\ Current' \notin endLost' /\ Current' \notin rested' /\ Current' - 1 = Current
  BY <1>1, <1>8, <1>9 DEF RudderType, Current
<1>16. Holds(<<>>)'
  BY <1>1, <1>15 DEF RudderInv, RudderAtRest, Holds
<1>17. RudderLine'
  BY <1>1, <1>13, <1>14, <1>15, <1>16 DEF RudderLine
<1>18. Arrived'
  <2>1. ASSUME NEW i \in 1 .. Len(sent'), i < Len(sent'), Unhurt(i)', InStep(i)'
        PROVE  sent'[i] \in ToSet(delivered')
    <3>1. i \in 1 .. Len(sent)
      BY <1>8, <1>9, <2>1
    <3>2. Unhurt(i) /\ InStep(i)
      BY <1>1, <2>1 DEF Unhurt, InStep
    <3> QED BY <1>1, <1>9, <3>1, <3>2 DEF RudderInv, Arrived
  <2> QED BY <1>11, <2>1 DEF Arrived
<1> QED
  BY <1>1, <1>11, <1>12, <1>17, <1>18 DEF RudderInv, RudderAtRest

\* The invariant at the start.
LEMMA RudderInit == Init /\ port = "rudder" => RudderInv
<1> SUFFICES ASSUME Init, port = "rudder" PROVE RudderInv
  OBVIOUS
<1>1. /\ parser = RudderIdle /\ seq \in FirstSeq /\ line = <<>> /\ untouched = FALSE
      /\ sent = <<>> /\ delivered = <<>> /\ hurt = {} /\ endLost = {} /\ rested = {}
  BY DEF Init
<1>2. RudderIdle \in RudderParser
  BY DEF RudderIdle, RudderParser
<1>3. RudderType
  <2>1. seq \in Byte /\ line \in Seq(Byte) /\ sent \in Seq(Frames) /\ delivered \in Seq(Parsed)
    BY <1>1, LinkBytes
  <2>2. untouched \in BOOLEAN
    BY <1>1
  <2> QED BY <1>1, <1>2, <2>1, <2>2 DEF RudderType
<1>4. RudderLine /\ RudderAtRest /\ Arrived
  BY <1>1 DEF RudderLine, RudderAtRest, Arrived
<1> QED
  BY <1>3, <1>4 DEF RudderInv

\* The invariant under every step.
LEMMA RudderStep == RudderInv /\ [Next]_vars => RudderInv'
<1> SUFFICES ASSUME RudderInv, [Next]_vars PROVE RudderInv'
  OBVIOUS
<1>1. CASE Send
  BY <1>1, SendKeeps
<1>2. CASE ReceiverSend
  BY <1>2 DEF ReceiverSend, RudderInv
<1>3. CASE ByteArrives
  BY <1>3, ByteArrivesKeeps
<1>4. CASE ByteLost
  BY <1>4, ByteLostKeeps
<1>5. CASE ByteChanged
  BY <1>5, ByteChangedKeeps
<1>6. CASE NoiseArrives
  BY <1>6, NoiseArrivesKeeps
<1>7. CASE UNCHANGED vars
  BY <1>7 DEF vars, RudderInv, RudderType, RudderLine, RudderAtRest, Arrived, Holds, Current,
       Unhurt, InStep
<1> QED
  BY <1>1, <1>2, <1>3, <1>4, <1>5, <1>6, <1>7 DEF Next

\* UnhurtFramesArrive on the rudder line: however many frames are sent, of any
\* payloads and with any faults, a frame that arrives unhurt at a parser in step
\* is delivered (rudder_protocol.h, Sender::next and Parser::feed).
THEOREM RudderFramesArrive == Spec => [](port = "rudder" => UnhurtFramesArrive)
<1> DEFINE Inv == port = "rudder" => RudderInv
<1>1. Init => Inv
  BY RudderInit
<1>2. Inv /\ [Next]_vars => Inv'
  <2> SUFFICES ASSUME Inv, [Next]_vars, port' = "rudder" PROVE RudderInv'
    OBVIOUS
  <2>1. port' = port
    BY DEF Next, vars, Send, ReceiverSend, ByteArrives, ByteLost, ByteChanged, NoiseArrives
  <2> QED BY <2>1, RudderStep
<1>3. Inv => (port = "rudder" => UnhurtFramesArrive)
  BY DEF RudderInv, RudderType, Arrived, UnhurtFramesArrive
<1> QED
  BY <1>1, <1>2, <1>3, PTL DEF Spec

-----------------------------------------------------------------------------
(* The counter.                                                            *)

\* seq has advanced by one for each frame sent since.
Numbered ==
  \A m \in 1 .. Len(sent) :
    /\ (seq - sent[m].seq) % 256 = (Len(sent) + 1 - m) % 256
    /\ \A n \in 1 .. Len(sent) : (sent[n].seq - sent[m].seq) % 256 = (n - m) % 256

\* Differences modulo 256 when a counter advances by one.
LEMMA SeqAdvances ==
  /\ \A a, b, k \in Int : (a - b) % 256 = k % 256 => (((a + 1) % 256) - b) % 256 = (k + 1) % 256
  /\ \A a, b, k \in Int : (a - b) % 256 = k % 256 => (b - a) % 256 = (0 - k) % 256
  /\ \A a \in Int : (a - a) % 256 = 0 % 256 /\ (((a + 1) % 256) - a) % 256 = 1 % 256
OBVIOUS

\* Send keeps the frames numbered.
LEMMA SendNumbers == RudderInv /\ Numbered /\ Send => Numbered'
<1> SUFFICES ASSUME RudderInv, Numbered, Send PROVE Numbered'
  OBVIOUS
<1>1. sent \in Seq(Frames) /\ seq \in Byte /\ Len(sent) \in Nat
  BY DEF RudderInv, RudderType
<1>2. PICK id \in MsgIds, n \in 0 .. MaxPayload : \E payload \in [1 .. n -> PayloadBytes] :
        sent' = Append(sent, Frame(id, seq, payload))
  BY DEF Send
<1>3. PICK payload : sent' = Append(sent, Frame(id, seq, payload))
  BY <1>2
<1>4. Frame(id, seq, payload).seq = seq
  BY DEF Frame
<1> DEFINE frame == Frame(id, seq, payload)
           l == Len(sent)
<1> HIDE DEF frame
<1>5. /\ Len(sent') = l + 1 /\ sent'[l + 1] = frame
      /\ \A i \in 1 .. l : sent'[i] = sent[i]
  BY <1>1, <1>3 DEF frame
<1>6. sent'[l + 1].seq = seq /\ \A i \in 1 .. l : sent'[i].seq = sent[i].seq
  BY <1>4, <1>5 DEF frame
<1>7. seq \in Int /\ \A i \in 1 .. l : sent[i].seq \in Int
  <2>1. \A s \in Byte : s \in Int
    BY DEF Byte
  <2>2. \A i \in 1 .. l : sent[i] \in Frames
    BY <1>1
  <2>3. \A f \in Frames : f.seq \in Byte
    BY DEF Frames
  <2> QED BY <1>1, <2>1, <2>2, <2>3
<1>8. seq' = (seq + 1) % 256
  BY DEF Send, NextSeq
<1>9. \A m \in 1 .. l : /\ (seq - sent[m].seq) % 256 = (l + 1 - m) % 256
                        /\ \A k \in 1 .. l : (sent[k].seq - sent[m].seq) % 256 = (k - m) % 256
  BY DEF Numbered
<1>10. \A i \in 1 .. l + 1 : i \in Int /\ (i = l + 1 \/ i \in 1 .. l)
  BY <1>1
<1> DEFINE s == [i \in 1 .. l + 1 |-> sent'[i].seq]
<1>11. s[l + 1] = seq /\ \A i \in 1 .. l : s[i] = sent[i].seq /\ s[i] \in Int
  BY <1>1, <1>6, <1>7, <1>10
<1>12. \A i \in 1 .. l + 1 : s[i] = sent'[i].seq
  OBVIOUS
<1> HIDE DEF s, l
<1>13. l \in Nat
  BY <1>1 DEF l
<1>14. ASSUME NEW m \in 1 .. l + 1 PROVE (seq' - s[m]) % 256 = ((l + 1) + 1 - m) % 256
  <2>1. CASE m = l + 1
    <3>1. (seq' - s[m]) % 256 = 1 % 256
      BY <1>7, <1>8, <1>11, <2>1, SeqAdvances
    <3>2. (l + 1) + 1 - m = 1
      BY <1>13, <2>1
    <3> QED BY <3>1, <3>2
  <2>2. CASE m \in 1 .. l
    <3>1. (seq - s[m]) % 256 = (l + 1 - m) % 256
      BY <1>9, <1>11, <2>2
    <3> DEFINE k == l + 1 - m
    <3>2. k \in Int /\ k + 1 = (l + 1) + 1 - m /\ s[m] \in Int
      BY <1>11, <1>13, <2>2
    <3> HIDE DEF k
    <3>3. (seq' - s[m]) % 256 = (k + 1) % 256
      BY <1>7, <1>8, <3>1, <3>2, SeqAdvances DEF k
    <3> QED BY <3>2, <3>3
  <2> QED BY <1>10, <2>1, <2>2
<1>15. ASSUME NEW m \in 1 .. l + 1, NEW k \in 1 .. l + 1 PROVE (s[k] - s[m]) % 256 = (k - m) % 256
  <2>1. CASE k \in 1 .. l /\ m \in 1 .. l
    BY <1>9, <1>11, <2>1
  <2>2. CASE k = l + 1 /\ m \in 1 .. l
    <3>1. (seq - s[m]) % 256 = (l + 1 - m) % 256
      BY <1>9, <1>11, <2>2
    <3>2. s[k] = seq
      BY <1>11, <2>2
    <3>3. l + 1 - m = k - m
      BY <1>13, <2>2
    <3> QED BY <3>1, <3>2, <3>3
  <2>3. CASE k \in 1 .. l /\ m = l + 1
    <3>1. (seq - s[k]) % 256 = (l + 1 - k) % 256 /\ s[k] \in Int
      BY <1>9, <1>11, <2>3
    <3> DEFINE d == l + 1 - k
    <3>2. d \in Int /\ 0 - d = k - m
      BY <1>13, <2>3
    <3> HIDE DEF d
    <3>3. (s[k] - seq) % 256 = (0 - d) % 256
      BY <1>7, <3>1, <3>2, SeqAdvances DEF d
    <3> QED BY <1>11, <2>3, <3>2, <3>3
  <2>4. CASE k = l + 1 /\ m = l + 1
    <3>1. k - m = 0 /\ s[k] = seq /\ s[m] = seq
      BY <1>11, <1>13, <2>4
    <3> QED BY <1>7, <3>1, SeqAdvances
  <2> QED BY <1>10, <2>1, <2>2, <2>3, <2>4
<1>16. Len(sent') = l + 1
  BY <1>5 DEF l
<1>17. \A m \in 1 .. Len(sent') : (seq' - sent'[m].seq) % 256 = (Len(sent') + 1 - m) % 256
  <2>1. \A m \in 1 .. l + 1 : (seq' - sent'[m].seq) % 256 = ((l + 1) + 1 - m) % 256
    BY <1>12, <1>14
  <2> QED BY <1>16, <2>1
<1>18. \A m, k \in 1 .. Len(sent') : (sent'[k].seq - sent'[m].seq) % 256 = (k - m) % 256
  <2>1. \A m, k \in 1 .. l + 1 : (sent'[k].seq - sent'[m].seq) % 256 = (k - m) % 256
    BY <1>12, <1>15
  <2> QED BY <1>16, <2>1
<1> QED
  BY <1>17, <1>18, SMTT(30) DEF Numbered

\* DropsAreCounted whenever what is delivered was sent: seq tells, modulo 256, how
\* many frames went missing between two delivered ones (rudder_protocol.h, _seq).
THEOREM RudderDropsAreCounted == Spec => [](DeliveredWereSent => DropsAreCounted)
<1> DEFINE Inv == port = "rudder" => RudderInv /\ Numbered
<1>1. Init => Inv
  <2> SUFFICES ASSUME Init, port = "rudder" PROVE RudderInv /\ Numbered
    OBVIOUS
  <2>1. sent = <<>>
    BY DEF Init
  <2> QED BY <2>1, RudderInit DEF Numbered
<1>2. Inv /\ [Next]_vars => Inv'
  <2> SUFFICES ASSUME Inv, [Next]_vars, port' = "rudder" PROVE RudderInv' /\ Numbered'
    OBVIOUS
  <2>1. port' = port
    BY DEF Next, vars, Send, ReceiverSend, ByteArrives, ByteLost, ByteChanged, NoiseArrives
  <2>2. RudderInv'
    BY <2>1, RudderStep
  <2>3. CASE Send
    BY <2>1, <2>2, <2>3, SendNumbers
  <2>4. CASE ~ Send
    <3>1. sent' = sent /\ seq' = seq
      BY <2>1, <2>4 DEF Next, vars, ReceiverSend, ByteArrives, ByteLost, ByteChanged, NoiseArrives
    <3>2. Numbered
      BY <2>1
    <3>3. Numbered'
      BY <3>1, <3>2 DEF Numbered
    <3> QED BY <2>2, <3>3
  <2> QED BY <2>3, <2>4
<1>3. Inv => (DeliveredWereSent => DropsAreCounted)
  <2> SUFFICES ASSUME Inv, port = "rudder", DeliveredWereSent PROVE DropsAreCounted
    BY DEF DropsAreCounted
  <2>1. delivered \in Seq(Parsed) /\ sent \in Seq(Frames)
    BY DEF RudderInv, RudderType
  <2>2. PICK at \in [DOMAIN delivered -> DOMAIN sent] :
          /\ \A i, j \in DOMAIN delivered : i < j => at[i] < at[j]
          /\ \A i \in DOMAIN delivered : delivered[i] = sent[at[i]]
    <3>1. Covered = DOMAIN delivered
      BY DEF Covered
    <3> QED BY <3>1 DEF DeliveredWereSent
  <2>3. ASSUME NEW i \in DOMAIN delivered \ {1}
        PROVE  \E m, n \in DOMAIN sent :
                 /\ delivered[i - 1] = sent[m] /\ delivered[i] = sent[n]
                 /\ m < n /\ (n - m) % 256 = (delivered[i].seq - delivered[i - 1].seq) % 256
    <3>1. i - 1 \in DOMAIN delivered /\ i \in DOMAIN delivered /\ i - 1 < i
      BY <2>1
    <3> DEFINE m == at[i - 1]
               n == at[i]
    <3>2. /\ m \in DOMAIN sent /\ n \in DOMAIN sent /\ m < n
          /\ delivered[i - 1] = sent[m] /\ delivered[i] = sent[n]
      BY <2>2, <3>1
    <3> HIDE DEF m, n
    <3>3. (sent[n].seq - sent[m].seq) % 256 = (n - m) % 256
      <4>1. Numbered /\ m \in 1 .. Len(sent) /\ n \in 1 .. Len(sent)
        BY <2>1, <3>2
      <4> QED BY <4>1 DEF Numbered
    <3> QED BY <3>2, <3>3
  <2> QED BY <2>3 DEF DropsAreCounted
<1> QED
  BY <1>1, <1>2, <1>3, PTL DEF Spec

-----------------------------------------------------------------------------
(* A line without faults.                                                  *)
\* Without a fault every frame is delivered, in order, the one on the line last.
Faultless ==
  faults = 0 =>
    /\ hurt = {} /\ endLost = {}
    /\ line = <<>> => delivered = sent
    /\ line # <<>> => sent = Append(delivered, sent[Current])

\* Every step keeps Faultless.
LEMMA FaultlessStep ==
  RudderInv /\ faults \in Nat /\ Faultless /\ [Next]_vars => faults' \in Nat /\ Faultless'
<1> SUFFICES ASSUME RudderInv, faults \in Nat, Faultless, [Next]_vars
             PROVE  faults' \in Nat /\ Faultless'
  OBVIOUS
<1>1. /\ port = "rudder" /\ sent \in Seq(Frames) /\ delivered \in Seq(Parsed) /\ Len(sent) \in Nat
      /\ line \in Seq(Byte)
  BY DEF RudderInv, RudderType
<1>2. Fault => faults' \in Nat /\ faults' # 0
  BY DEF Fault
<1>3. CASE Send
  <2>1. /\ line = <<>> /\ faults' = faults /\ hurt' = hurt /\ endLost' = endLost
        /\ delivered' = delivered
    BY <1>3 DEF Send
  <2>2. PICK id \in MsgIds, n \in 0 .. MaxPayload : \E payload \in [1 .. n -> PayloadBytes] :
          sent' = Append(sent, Frame(id, seq, payload))
    BY <1>3 DEF Send
  <2>3. PICK frame : sent' = Append(sent, frame)
    BY <2>2
  <2>4. sent'[Current'] = frame
    BY <1>1, <2>3 DEF Current
  <2>5. line' # <<>>
    <3>1. PICK id1 \in MsgIds, n1 \in 0 .. MaxPayload : \E payload \in [1 .. n1 -> PayloadBytes] :
            line' = Encode(id1, seq, payload)
      BY <1>3 DEF Send
    <3>2. PICK payload \in [1 .. n1 -> PayloadBytes] : line' = Encode(id1, seq, payload)
      BY <3>1
    <3>3. id1 \in Byte /\ payload \in [1 .. n1 -> Byte] /\ seq \in Byte
      BY <3>1, <3>2, LinkBytes DEF RudderInv, RudderType
    <3>4. PICK w : Carries(w, Frame(id1, seq, payload)) /\ Encode(id1, seq, payload) = w \o <<Delimiter>>
      BY <3>3, EncodedFrame
    <3>5. w \in Seq(Byte) /\ <<Delimiter>> \in Seq(Byte) /\ line' = w \o <<Delimiter>>
      BY <3>2, <3>4, NonZeroAreBytes DEF Carries, Delimiter, Byte
    <3> QED BY <3>5
  <2> QED BY <2>1, <2>3, <2>4, <2>5 DEF Faultless
<1>4. CASE ReceiverSend
  BY <1>1, <1>4 DEF ReceiverSend
<1>5. CASE ByteLost \/ ByteChanged \/ NoiseArrives
  BY <1>2, <1>5 DEF ByteLost, ByteChanged, NoiseArrives, Faultless
<1>6. CASE ByteArrives
  <2> USE <1>6
  <2>1. /\ line # <<>> /\ sent' = sent /\ endLost' = endLost /\ line' = Tail(line)
    BY DEF ByteArrives
  <2>2. \/ Fault
        \/ faults' = faults /\ hurt' = hurt
    BY DEF ByteArrives
  <2>3. CASE Fault
    BY <1>2, <2>3 DEF Faultless
  <2>4. CASE ~ Fault
    <3>1. faults' = faults /\ hurt' = hurt
      BY <2>2, <2>4
    <3> SUFFICES ASSUME faults = 0 PROVE Faultless'
      BY <3>1 DEF Faultless
    <3>2. hurt = {} /\ endLost = {} /\ sent = Append(delivered, sent[Current])
      BY <2>1 DEF Faultless
    <3>3. PICK w, p, fed : ByteFed(w, p, fed)
      BY ByteIsFed
    <3>4. Current \notin hurt' /\ Current - 1 \notin endLost
      BY <3>1, <3>2
    <3>5. AtDelimiter(w, p, line) \/ AtByte(w, p, line)
      BY <3>3 DEF ByteFed
    <3>6. ASSUME AtByte(w, p, line) PROVE Faultless'
      <4>1. delivered' = delivered /\ line' # <<>>
        BY <2>1, <3>3, <3>4, <3>6, FedInStep DEF AtByte
      <4> QED BY <2>1, <3>1, <3>2, <4>1 DEF Faultless, Current
    <3>7. ASSUME AtDelimiter(w, p, line) PROVE Faultless'
      <4>1. delivered' = delivered \o <<sent[Current]>> /\ line' = <<>>
        BY <2>1, <3>3, <3>4, <3>7, FedInStep DEF AtDelimiter
      <4>2. delivered \o <<sent[Current]>> = Append(delivered, sent[Current])
        BY <1>1
      <4>3. delivered' = sent'
        BY <2>1, <3>2, <4>1, <4>2
      <4> QED BY <2>1, <3>1, <3>2, <4>1, <4>3 DEF Faultless
    <3> QED BY <3>5, <3>6, <3>7
  <2> QED BY <2>3, <2>4
<1>7. CASE UNCHANGED vars
  BY <1>7 DEF vars, Faultless, Current
<1> QED
  BY <1>3, <1>4, <1>5, <1>6, <1>7 DEF Next

\* DeliveredWereSent on a line without faults: pauses between frames and payloads
\* of any bytes make the parser neither drop, double, reorder nor invent a frame.
THEOREM RudderFaultless == Spec => [](port = "rudder" /\ faults = 0 => DeliveredWereSent)
<1> DEFINE Inv == port = "rudder" => RudderInv /\ faults \in Nat /\ Faultless
<1>1. Init => Inv
  <2> SUFFICES ASSUME Init, port = "rudder" PROVE RudderInv /\ faults \in Nat /\ Faultless
    OBVIOUS
  <2>1. faults = 0 /\ hurt = {} /\ endLost = {} /\ line = <<>> /\ delivered = sent
    BY DEF Init
  <2> QED BY <2>1, RudderInit DEF Faultless
<1>2. Inv /\ [Next]_vars => Inv'
  <2> SUFFICES ASSUME Inv, [Next]_vars, port' = "rudder"
               PROVE  RudderInv' /\ faults' \in Nat /\ Faultless'
    OBVIOUS
  <2>1. port' = port
    BY DEF Next, vars, Send, ReceiverSend, ByteArrives, ByteLost, ByteChanged, NoiseArrives
  <2> QED BY <2>1, RudderStep, FaultlessStep
<1>3. Inv => (port = "rudder" /\ faults = 0 => DeliveredWereSent)
  <2> SUFFICES ASSUME Inv, port = "rudder", faults = 0 PROVE DeliveredWereSent
    OBVIOUS
  <2>1. delivered \in Seq(Parsed) /\ sent \in Seq(Frames)
    BY DEF RudderInv, RudderType
  <2>2. delivered = sent \/ \E x : sent = Append(delivered, x)
    BY DEF Faultless
  <2>3. \A i \in DOMAIN delivered : i \in DOMAIN sent /\ delivered[i] = sent[i]
    BY <2>1, <2>2
  <2> DEFINE at == [i \in DOMAIN delivered |-> i]
  <2>4. /\ at \in [DOMAIN delivered -> DOMAIN sent]
        /\ \A i, j \in DOMAIN delivered : i < j => at[i] < at[j]
        /\ \A i \in DOMAIN delivered : delivered[i] = sent[at[i]]
    BY <2>3
  <2> HIDE DEF at
  <2>5. Covered = DOMAIN delivered
    BY DEF Covered
  <2> QED BY <2>4, <2>5 DEF DeliveredWereSent
<1> QED
  BY <1>1, <1>2, <1>3, PTL DEF Spec

-----------------------------------------------------------------------------
(* The receiver's messages and their bytes.                                *)
\* A byte takes the parser from p to next.
Leads(p, byte, next, out) == WireFeed(p, byte, FALSE) = [parser |-> next, out |-> out]

\* The parser takes the bytes w of a message through the states st and delivers it
\* with byte at.
Course(w, message, st, at) ==
  /\ at \in 1 .. Len(w)
  /\ st[0] = WireIdle /\ st[Len(w)] = WireIdle
  /\ \A k \in 0 .. Len(w) - 1 :
       Leads(st[k], w[k + 1], st[k + 1], IF k + 1 = at THEN <<message>> ELSE <<>>)

\* What is held after j bytes of s.
Prefix(s, j) == SubSeq(s, 1, j)

\* Prefixes grow byte by byte.
LEMMA PrefixGrows ==
  ASSUME NEW S, NEW s \in Seq(S), NEW j \in 0 .. Len(s)
  PROVE  /\ Prefix(s, j) \in Seq(S) /\ Len(Prefix(s, j)) = j
         /\ \A i \in 1 .. j : Prefix(s, j)[i] = s[i]
         /\ j < Len(s) => Append(Prefix(s, j), s[j + 1]) = Prefix(s, j + 1)
         /\ Prefix(s, 0) = <<>> /\ Prefix(s, Len(s)) = s
<1>1. Prefix(s, j) \in Seq(S) /\ Len(Prefix(s, j)) = j /\ \A i \in 1 .. j : Prefix(s, j)[i] = s[i]
  BY DEF Prefix
<1>2. ASSUME j < Len(s) PROVE Append(Prefix(s, j), s[j + 1]) = Prefix(s, j + 1)
  <2> DEFINE p == Prefix(s, j)
             q == Prefix(s, j + 1)
  <2>1. q \in Seq(S) /\ Len(q) = j + 1 /\ \A i \in 1 .. j + 1 : q[i] = s[i]
    BY <1>2 DEF Prefix
  <2>2. s[j + 1] \in S
    BY <1>2
  <2> HIDE DEF p, q
  <2>3. Append(p, s[j + 1]) \in Seq(S) /\ Len(Append(p, s[j + 1])) = j + 1
    BY <1>1, <2>2 DEF p
  <2>4. \A i \in 1 .. j + 1 : Append(p, s[j + 1])[i] = q[i]
    BY <1>1, <2>1, <2>2 DEF p
  <2> QED BY <2>1, <2>3, <2>4 DEF p, q
<1>3. Prefix(s, 0) = <<>> /\ Prefix(s, Len(s)) = s
  BY DEF Prefix
<1> QED
  BY <1>1, <1>2, <1>3

\* A parser state is made of five fields.
IsParser(p) ==
  p = [state |-> p.state, held |-> p.held, kind |-> p.kind, promptAt |-> p.promptAt,
       high |-> p.high]

\* What Hold makes.
LEMMA HoldIs ==
  ASSUME NEW state, NEW held
  PROVE  /\ Hold(state, held).out = <<>>
         /\ Hold(state, held).parser.state = state /\ Hold(state, held).parser.held = held
         /\ Hold(state, held) = [parser |-> Hold(state, held).parser, out |-> <<>>]
         /\ IsParser(Hold(state, held).parser)
BY DEF Hold, WireIdle, IsParser

\* What WireIdle, Dropped and Finished are.
LEMMA IdleIs ==
  /\ WireIdle.state = "Idle" /\ IsParser(WireIdle)
  /\ Dropped = [parser |-> WireIdle, out |-> <<>>]
  /\ \A message : Finished(message) = [parser |-> WireIdle, out |-> <<message>>]
BY DEF WireIdle, IsParser, Dropped, Finished

\* The state Hold leaves.
Holder(state, held) == Hold(state, held).parser

\* What WireFeed does in each state.
LEMMA FeedBy ==
  ASSUME NEW p, NEW byte
  PROVE  /\ p.state = "Idle" /\ byte = Dollar =>
              WireFeed(p, byte, FALSE) = Hold("AfterDollar", <<>>)
         /\ p.state = "Idle" /\ byte # Dollar => WireFeed(p, byte, FALSE) = Dropped
         /\ p.state = "AfterDollar" => WireFeed(p, byte, FALSE) = AfterDollarByte(byte)
         /\ p.state = "AfterR" => WireFeed(p, byte, FALSE) = AfterRByte(byte)
         /\ p.state = "SbfHeader" => WireFeed(p, byte, FALSE) = SbfHeaderByte(p.held, byte)
         /\ p.state = "SbfBody" => WireFeed(p, byte, FALSE) = SbfBodyByte(p.held, byte)
         /\ p.state = "NmeaBody" => WireFeed(p, byte, FALSE) = NmeaByte(p.held, byte)
         /\ p.state = "NmeaChecksumHi" => WireFeed(p, byte, FALSE) = ChecksumHiByte(p.held, byte)
         /\ p.state = "NmeaChecksumLo" =>
              WireFeed(p, byte, FALSE) = ChecksumLoByte(p.held, p.high, byte)
         /\ p.state = "ReplyBody" => WireFeed(p, byte, FALSE) = ReplyByte(p, byte)
BY DEF WireFeed

\* The parts of a block, where the parser looks for them.
BlockParts(b, crc, covered, message) ==
  LET n == Len(message.data)
  IN  /\ b \in Seq(Byte) /\ Len(b) = 6 + n
      /\ SubSeq(b, 1, 2) = crc /\ SubSeq(b, 3, Len(b)) = covered
      /\ b[3] + 256 * b[4] = message.id /\ b[5] + 256 * b[6] = HeaderLen + n
      /\ SubSeq(b, 7, Len(b)) = message.data

\* A number in two bytes.
LEMMA TwoBytesAre ==
  ASSUME NEW n \in Nat, n < 65536
  PROVE  /\ TwoBytes(n) \in Seq(Byte) /\ Len(TwoBytes(n)) = 2
         /\ TwoBytes(n)[1] + 256 * TwoBytes(n)[2] = n
<1> DEFINE low == n % 256
           high == n \div 256
<1>1. low \in Byte /\ high \in Byte /\ low + 256 * high = n
  BY DEF Byte
<1> HIDE DEF low, high
<1>2. <<low, high>> \in Seq(Byte) /\ Len(<<low, high>>) = 2
  BY <1>1
<1>3. TwoBytes(n) = <<low, high>>
  BY DEF TwoBytes, low, high
<1> QED
  BY <1>1, <1>2, <1>3

\* A block laid out from its CRC, its header and its data.
LEMMA BlockLayout ==
  ASSUME NEW crc \in Seq(Byte), Len(crc) = 2, NEW head \in Seq(Byte), Len(head) = 4,
         NEW data \in Seq(Byte), NEW covered \in Seq(Byte), IsJoin(head, data, covered),
         NEW b \in Seq(Byte), IsJoin(crc, covered, b)
  PROVE  /\ Len(b) = 6 + Len(data) /\ SubSeq(b, 1, 2) = crc
         /\ SubSeq(b, 3, Len(b)) = covered /\ SubSeq(b, 7, Len(b)) = data
         /\ b[3] = head[1] /\ b[4] = head[2] /\ b[5] = head[3] /\ b[6] = head[4]
<1> DEFINE n == Len(data)
<1>1. /\ n \in Nat /\ Len(covered) = 4 + n /\ Len(b) = 6 + n
  BY DEF IsJoin
<1>2. /\ \A i \in 1 .. 4 : covered[i] = head[i]
      /\ \A i \in 1 .. n : covered[4 + i] = data[i]
  BY DEF IsJoin
<1>3. /\ \A i \in 1 .. 2 : b[i] = crc[i]
      /\ \A i \in 1 .. 4 + n : b[2 + i] = covered[i]
  BY <1>1 DEF IsJoin
<1>4. Len(data) = n
  OBVIOUS
<1> HIDE DEF n
<1>5. SubSeq(b, 1, 2) = crc
  <2>1. 0 + Len(crc) <= Len(b) /\ \A i \in 1 .. Len(crc) : b[0 + i] = crc[i]
    BY <1>1, <1>3
  <2>2. SubSeq(b, 0 + 1, 0 + Len(crc)) = crc
    BY <2>1, SubSeqIs, 0 \in Nat
  <2> QED BY <2>2
<1>6. SubSeq(b, 3, Len(b)) = covered
  <2>1. 2 + Len(covered) <= Len(b) /\ \A i \in 1 .. Len(covered) : b[2 + i] = covered[i]
    BY <1>1, <1>3
  <2>2. SubSeq(b, 2 + 1, 2 + Len(covered)) = covered
    BY <2>1, SubSeqIs, 2 \in Nat
  <2>3. 2 + 1 = 3 /\ 2 + Len(covered) = Len(b)
    BY <1>1
  <2> QED BY <2>2, <2>3
<1>7. SubSeq(b, 7, Len(b)) = data
  <2>1. ASSUME NEW i \in 1 .. n PROVE b[6 + i] = data[i]
    <3>1. 4 + i \in 1 .. 4 + n /\ 2 + (4 + i) = 6 + i
      BY <1>1
    <3>2. b[2 + (4 + i)] = covered[4 + i] /\ covered[4 + i] = data[i]
      BY <1>2, <1>3, <3>1
    <3> QED BY <3>1, <3>2
  <2>2. 6 + Len(data) <= Len(b) /\ \A i \in 1 .. Len(data) : b[6 + i] = data[i]
    BY <1>1, <1>4, <2>1
  <2>3. SubSeq(b, 6 + 1, 6 + Len(data)) = data
    BY <2>2, SubSeqIs, 6 \in Nat
  <2>4. 6 + 1 = 7 /\ 6 + Len(data) = Len(b)
    BY <1>1, <1>4
  <2> QED BY <2>3, <2>4
<1>8. b[3] = head[1] /\ b[4] = head[2] /\ b[5] = head[3] /\ b[6] = head[4]
  <2>1. ASSUME NEW i \in 1 .. 4 PROVE b[2 + i] = head[i]
    <3>1. i \in 1 .. 4 + n
      BY <1>1
    <3> QED BY <1>2, <1>3, <3>1
  <2>2. b[2 + 1] = head[1] /\ b[2 + 2] = head[2] /\ b[2 + 3] = head[3] /\ b[2 + 4] = head[4]
    BY <2>1
  <2> QED BY <2>2
<1> QED
  BY <1>1, <1>4, <1>5, <1>6, <1>7, <1>8

\* What is sent for a block.
LEMMA BlockIsMade ==
  ASSUME NEW message, IsBlock(message)
  PROVE  \E crc, covered, b : /\ crc = CrcCcitt(covered)
                              /\ SbfEncode(message) = <<Dollar, At>> \o b
                              /\ BlockParts(b, crc, covered, message)
<1>1. PICK data : data = message.data
  OBVIOUS
<1>2. PICK number : number = message.id
  OBVIOUS
<1>3. PICK length : length = HeaderLen + Len(data)
  OBVIOUS
<1>4. /\ data \in Seq(Byte) /\ number \in Nat /\ number < 65536
      /\ length \in Nat /\ length < 65536
  BY <1>1, <1>2, <1>3 DEF IsBlock, Byte, HeaderLen
<1>5. PICK id : id = TwoBytes(number)
  OBVIOUS
<1>6. PICK size : size = TwoBytes(length)
  OBVIOUS
<1>7. /\ id \in Seq(Byte) /\ Len(id) = 2 /\ id[1] + 256 * id[2] = number
      /\ size \in Seq(Byte) /\ Len(size) = 2 /\ size[1] + 256 * size[2] = length
  <2>1. /\ id \in Seq(Byte) /\ Len(id) = 2 /\ id[1] + 256 * id[2] = number
    BY <1>4, <1>5, TwoBytesAre
  <2>2. /\ size \in Seq(Byte) /\ Len(size) = 2 /\ size[1] + 256 * size[2] = length
    BY <1>4, <1>6, TwoBytesAre
  <2> QED BY <2>1, <2>2
<1>8. PICK head : head = id \o size
  OBVIOUS
<1>9. /\ head \in Seq(Byte) /\ Len(head) = 4
      /\ head[1] = id[1] /\ head[2] = id[2] /\ head[3] = size[1] /\ head[4] = size[2]
  <2>1. head \in Seq(Byte) /\ IsJoin(id, size, head)
    BY <1>7, <1>8, Joined
  <2>2. \A i \in 1 .. 2 : head[i] = id[i] /\ head[2 + i] = size[i]
    BY <1>7, <2>1 DEF IsJoin
  <2>3. head[2 + 1] = size[1] /\ head[2 + 2] = size[2]
    BY <2>2
  <2> QED BY <1>7, <2>1, <2>2, <2>3 DEF IsJoin
<1>10. PICK covered : covered = head \o data
  OBVIOUS
<1>11. covered \in Seq(Byte) /\ IsJoin(head, data, covered)
  BY <1>4, <1>9, <1>10, Joined
<1>12. PICK crc : crc = CrcCcitt(covered)
  OBVIOUS
<1>13. crc \in Seq(Byte) /\ Len(crc) = 2
  BY <1>12, CrcIsTwoBytes DEF CrcCcitt
<1>14. PICK b : b = crc \o covered
  OBVIOUS
<1>15. b \in Seq(Byte) /\ IsJoin(crc, covered, b)
  BY <1>11, <1>13, <1>14, Joined
<1>16. SbfEncode(message) = <<Dollar, At>> \o b
  <2>1. <<Dollar, At>> \in Seq(Byte)
    BY DEF Dollar, At, Byte
  <2>2. SbfEncode(message) = (<<Dollar, At>> \o crc) \o covered
    BY <1>1, <1>2, <1>3, <1>5, <1>6, <1>8, <1>10, <1>12, Zenon DEF SbfEncode
  <2>3. PICK start : start = <<Dollar, At>>
    OBVIOUS
  <2>4. (start \o crc) \o covered = start \o (crc \o covered)
    BY <1>11, <1>13, <2>1, <2>3, Associative
  <2> QED BY <1>14, <2>2, <2>3, <2>4, Zenon
<1>17. BlockParts(b, crc, covered, message)
  <2>1. /\ Len(b) = 6 + Len(data) /\ SubSeq(b, 1, 2) = crc
        /\ SubSeq(b, 3, Len(b)) = covered /\ SubSeq(b, 7, Len(b)) = data
        /\ b[3] = head[1] /\ b[4] = head[2] /\ b[5] = head[3] /\ b[6] = head[4]
    BY <1>4, <1>9, <1>11, <1>13, <1>15, BlockLayout, SMTT(30)
  <2>2. b[3] + 256 * b[4] = message.id /\ b[5] + 256 * b[6] = HeaderLen + Len(message.data)
    <3>1. b[3] = id[1] /\ b[4] = id[2] /\ b[5] = size[1] /\ b[6] = size[2]
      BY <1>9, <2>1, Zenon
    <3>2. b[3] + 256 * b[4] = number
      BY <1>7, <3>1, Zenon
    <3>3. b[5] + 256 * b[6] = length
      BY <1>7, <3>1, Zenon
    <3> QED BY <1>1, <1>2, <1>3, <3>2, <3>3, Zenon
  <2>3. /\ Len(b) = 6 + Len(message.data) /\ SubSeq(b, 7, Len(b)) = message.data
    BY <1>1, <2>1, Zenon
  <2> QED BY <1>15, <2>1, <2>2, <2>3, Zenon DEF BlockParts
<1> QED
  BY <1>12, <1>14, <1>16, <1>17, Zenon

\* A byte of a block on its way: in the header, at its end, and in the body.
LEMMA BlockByte ==
  ASSUME NEW message, IsBlock(message), NEW crc, NEW covered, crc = CrcCcitt(covered),
         NEW b, BlockParts(b, crc, covered, message), NEW j \in 0 .. 5 + Len(message.data)
  PROVE  LET n == Len(message.data)
         IN  /\ j < 5 => SbfHeaderByte(Prefix(b, j), b[j + 1]) = Hold("SbfHeader", Prefix(b, j + 1))
             /\ j = 5 /\ n # 0 =>
                  SbfHeaderByte(Prefix(b, j), b[j + 1]) = Hold("SbfBody", Prefix(b, j + 1))
             /\ j = 5 /\ n = 0 => SbfHeaderByte(Prefix(b, j), b[j + 1]) = Finished(message)
             /\ 6 <= j /\ j < 5 + n =>
                  SbfBodyByte(Prefix(b, j), b[j + 1]) = Hold("SbfBody", Prefix(b, j + 1))
             /\ 6 <= j /\ j = 5 + n => SbfBodyByte(Prefix(b, j), b[j + 1]) = Finished(message)
<1> DEFINE n == Len(message.data)
           p == Prefix(b, j)
           q == Prefix(b, j + 1)
<1>1. n \in Nat /\ n % 4 = 0 /\ n <= MaxBody
  BY DEF IsBlock
<1>2. b \in Seq(Byte) /\ Len(b) = 6 + n
  BY DEF BlockParts
<1>3. Len(p) = j /\ Len(q) = j + 1 /\ Append(p, b[j + 1]) = q
  <2>1. j \in 0 .. Len(b) /\ j + 1 \in 0 .. Len(b) /\ j < Len(b)
    BY <1>1, <1>2
  <2> QED BY <1>2, <2>1, PrefixGrows
<1>4. j = 5 + n => q = b
  BY <1>2, PrefixGrows
<1>5. SbfVerify(b) = Finished(message)
  <2>1. [type |-> "sbf", id |-> b[3] + 256 * b[4], data |-> SubSeq(b, 7, Len(b))] = message
    <3>1. b[3] + 256 * b[4] = message.id /\ SubSeq(b, 7, Len(b)) = message.data
      BY DEF BlockParts
    <3>2. message \in [type : {"sbf"}, id : Nat, data : Seq(0 .. 255)]
      BY DEF IsBlock
    <3>3. message = [type |-> "sbf", id |-> message.id, data |-> message.data]
      BY <3>2
    <3> QED BY <3>1, <3>3
  <2>2. SubSeq(b, 1, 2) = CrcCcitt(SubSeq(b, 3, Len(b)))
    BY DEF BlockParts
  <2> QED BY <2>1, <2>2, Zenon DEF SbfVerify
<1>6. j >= 5 => SbfLength(q) = HeaderLen + n
  <2>1. SUFFICES ASSUME j >= 5 PROVE SbfLength(q) = HeaderLen + n
    OBVIOUS
  <2>2. b[5] + 256 * b[6] = HeaderLen + n
    BY DEF BlockParts
  <2>3. j + 1 \in 0 .. Len(b)
    BY <1>1, <1>2
  <2>4. \A i \in 1 .. j + 1 : q[i] = b[i]
    BY <1>2, <2>3, PrefixGrows
  <2>5. q[5] = b[5] /\ q[6] = b[6]
    BY <2>1, <2>4, <1>1
  <2> QED BY <2>2, <2>5 DEF SbfLength
<1>7. j >= 6 => SbfLength(p) = HeaderLen + n
  <2>1. SUFFICES ASSUME j >= 6 PROVE SbfLength(p) = HeaderLen + n
    OBVIOUS
  <2>2. b[5] + 256 * b[6] = HeaderLen + n
    BY DEF BlockParts
  <2>3. j \in 0 .. Len(b)
    BY <1>1, <1>2
  <2>4. \A i \in 1 .. j : p[i] = b[i]
    BY <1>2, <2>3, PrefixGrows
  <2>5. p[5] = b[5] /\ p[6] = b[6]
    BY <2>1, <2>4, <1>1
  <2> QED BY <2>2, <2>5 DEF SbfLength
<1> HIDE DEF p, q
<1>8. j < 5 => SbfHeaderByte(p, b[j + 1]) = Hold("SbfHeader", q)
  BY <1>3 DEF SbfHeaderByte
<1>9. j = 5 => SbfHeaderByte(p, b[j + 1]) = IF n = 0 THEN Finished(message) ELSE Hold("SbfBody", q)
  <2>1. SUFFICES ASSUME j = 5
                 PROVE  SbfHeaderByte(p, b[j + 1]) = IF n = 0 THEN Finished(message) ELSE Hold("SbfBody", q)
    OBVIOUS
  <2>2. SbfHeaderByte(p, b[j + 1]) = SbfEnterBody(q)
    BY <1>3, <2>1 DEF SbfHeaderByte
  <2>3. SbfLength(q) = 8 + n
    BY <1>6, <2>1 DEF HeaderLen
  <2>4. SbfEnterBody(q) = IF n = 0 THEN SbfVerify(q) ELSE Hold("SbfBody", q)
    <3> HIDE DEF n
    <3>1. (8 + n) % 4 = 0 /\ MaxBody \in Nat
      BY <1>1, WireAssumption
    <3>2. ~ (SbfLength(q) < HeaderLen \/ SbfLength(q) % 4 # 0 \/ SbfLength(q) > HeaderLen + MaxBody)
      BY <1>1, <2>3, <3>1 DEF HeaderLen
    <3>3. SbfLength(q) = HeaderLen <=> n = 0
      BY <1>1, <2>3 DEF HeaderLen
    <3> QED BY <3>2, <3>3, Zenon DEF SbfEnterBody
  <2>5. n = 0 => q = b
    BY <1>4, <2>1
  <2> QED BY <1>5, <2>2, <2>4, <2>5, Zenon
<1>10. j >= 6 => SbfBodyByte(p, b[j + 1]) = IF j = 5 + n THEN Finished(message) ELSE Hold("SbfBody", q)
  <2>1. SUFFICES ASSUME j >= 6
                 PROVE  SbfBodyByte(p, b[j + 1]) = IF j = 5 + n THEN Finished(message) ELSE Hold("SbfBody", q)
    OBVIOUS
  <2>2. Len(p) + 1 = SbfLength(p) - 2 <=> j = 5 + n
    BY <1>1, <1>3, <1>7, <2>1 DEF HeaderLen
  <2> QED BY <1>3, <1>4, <1>5, <2>2, Zenon DEF SbfBodyByte
<1> QED
  BY <1>1, <1>8, <1>9, <1>10 DEF p, q

\* What the parser does in each state it is held in.
LEMMA HolderFeeds ==
  ASSUME NEW held, NEW byte
  PROVE  /\ WireFeed(WireIdle, byte, FALSE) =
              IF byte = Dollar THEN Hold("AfterDollar", <<>>) ELSE Dropped
         /\ WireFeed(Holder("AfterDollar", held), byte, FALSE) = AfterDollarByte(byte)
         /\ WireFeed(Holder("AfterR", held), byte, FALSE) = AfterRByte(byte)
         /\ WireFeed(Holder("SbfHeader", held), byte, FALSE) = SbfHeaderByte(held, byte)
         /\ WireFeed(Holder("SbfBody", held), byte, FALSE) = SbfBodyByte(held, byte)
         /\ WireFeed(Holder("NmeaBody", held), byte, FALSE) = NmeaByte(held, byte)
         /\ WireFeed(Holder("NmeaChecksumHi", held), byte, FALSE) = ChecksumHiByte(held, byte)
<1>1. ASSUME NEW state PROVE Holder(state, held).state = state /\ Holder(state, held).held = held
  BY HoldIs DEF Holder
<1>2. WireIdle.state = "Idle"
  BY IdleIs
<1>3. /\ WireFeed(WireIdle, Dollar, FALSE) = Hold("AfterDollar", <<>>)
      /\ byte # Dollar => WireFeed(WireIdle, byte, FALSE) = Dropped
  BY <1>2, FeedBy, Zenon
<1>4. WireFeed(Holder("AfterDollar", held), byte, FALSE) = AfterDollarByte(byte)
  BY <1>1, FeedBy, Zenon
<1>5. WireFeed(Holder("AfterR", held), byte, FALSE) = AfterRByte(byte)
  BY <1>1, FeedBy, Zenon
<1>6. WireFeed(Holder("SbfHeader", held), byte, FALSE) = SbfHeaderByte(held, byte)
  <2>1. PICK p : p = Holder("SbfHeader", held)
    OBVIOUS
  <2>2. p.state = "SbfHeader" /\ p.held = held
    BY <1>1, <2>1, Zenon
  <2>3. WireFeed(p, byte, FALSE) = SbfHeaderByte(p.held, byte)
    BY <2>2, FeedBy, Zenon
  <2> QED BY <2>1, <2>2, <2>3, Zenon
<1>7. WireFeed(Holder("SbfBody", held), byte, FALSE) = SbfBodyByte(held, byte)
  <2>1. PICK p : p = Holder("SbfBody", held)
    OBVIOUS
  <2>2. p.state = "SbfBody" /\ p.held = held
    BY <1>1, <2>1, Zenon
  <2>3. WireFeed(p, byte, FALSE) = SbfBodyByte(p.held, byte)
    BY <2>2, FeedBy, Zenon
  <2> QED BY <2>1, <2>2, <2>3, Zenon
<1>8. WireFeed(Holder("NmeaBody", held), byte, FALSE) = NmeaByte(held, byte)
  <2>1. PICK p : p = Holder("NmeaBody", held)
    OBVIOUS
  <2>2. p.state = "NmeaBody" /\ p.held = held
    BY <1>1, <2>1, Zenon
  <2>3. WireFeed(p, byte, FALSE) = NmeaByte(p.held, byte)
    BY <2>2, FeedBy, Zenon
  <2> QED BY <2>1, <2>2, <2>3, Zenon
<1>9. WireFeed(Holder("NmeaChecksumHi", held), byte, FALSE) = ChecksumHiByte(held, byte)
  <2>1. PICK p : p = Holder("NmeaChecksumHi", held)
    OBVIOUS
  <2>2. p.state = "NmeaChecksumHi" /\ p.held = held
    BY <1>1, <2>1, Zenon
  <2>3. WireFeed(p, byte, FALSE) = ChecksumHiByte(p.held, byte)
    BY <2>2, FeedBy, Zenon
  <2> QED BY <2>1, <2>2, <2>3, Zenon
<1> QED
  BY <1>3, <1>4, <1>5, <1>6, <1>7, <1>8, <1>9, Zenon

\* The state Hold leaves is one the byte leads to; so is the idle one.
LEMMA HoldLeads ==
  ASSUME NEW p, NEW byte
  PROVE  /\ \A state, held : WireFeed(p, byte, FALSE) = Hold(state, held) =>
              Leads(p, byte, Holder(state, held), <<>>)
         /\ \A message : WireFeed(p, byte, FALSE) = Finished(message) =>
              Leads(p, byte, WireIdle, <<message>>)
         /\ WireFeed(p, byte, FALSE) = Dropped => Leads(p, byte, WireIdle, <<>>)
<1>1. ASSUME NEW state, NEW held
      PROVE  Hold(state, held) = [parser |-> Holder(state, held), out |-> <<>>]
  BY HoldIs DEF Holder
<1> QED
  BY <1>1, IdleIs DEF Leads

\* The first byte of a message, and what tells a block from a reply.
LEMMA FirstBytes ==
  /\ Leads(WireIdle, Dollar, Holder("AfterDollar", <<>>), <<>>)
  /\ \A held : /\ Leads(Holder("AfterDollar", held), At, Holder("SbfHeader", <<>>), <<>>)
               /\ Leads(Holder("AfterDollar", held), LetterR, Holder("AfterR", <<>>), <<>>)
<1>1. WireFeed(WireIdle, Dollar, FALSE) = Hold("AfterDollar", <<>>)
  BY HolderFeeds
<1>2. ASSUME NEW held
      PROVE  /\ WireFeed(Holder("AfterDollar", held), At, FALSE) = Hold("SbfHeader", <<>>)
             /\ WireFeed(Holder("AfterDollar", held), LetterR, FALSE) = Hold("AfterR", <<>>)
  <2>1. AfterDollarByte(At) = Hold("SbfHeader", <<>>) /\ AfterDollarByte(LetterR) = Hold("AfterR", <<>>)
    BY DEF AfterDollarByte, At, LetterR, Dollar
  <2> QED BY <2>1, HolderFeeds
<1> QED
  BY <1>1, <1>2, HoldLeads

\* What the parser holds of the block b after k bytes.
BlockState(b, k) ==
  IF k = 0 \/ k = Len(b) + 2 THEN WireIdle
  ELSE IF k = 1 THEN Holder("AfterDollar", <<>>)
  ELSE IF k < 8 THEN Holder("SbfHeader", Prefix(b, k - 2))
  ELSE Holder("SbfBody", Prefix(b, k - 2))

\* A block is taken to its end.
LEMMA BlockCourse ==
  ASSUME NEW message, IsBlock(message)
  PROVE  /\ SbfEncode(message) \in Seq(Byte)
         /\ \E st : Course(SbfEncode(message), message, st, Len(SbfEncode(message)))
<1>1. PICK crc, covered, b : /\ crc = CrcCcitt(covered)
                             /\ SbfEncode(message) = <<Dollar, At>> \o b
                             /\ BlockParts(b, crc, covered, message)
  BY BlockIsMade
<1>2. PICK n : n = Len(message.data)
  OBVIOUS
<1>3. n \in Nat
  BY <1>2 DEF IsBlock
<1>4. b \in Seq(Byte) /\ Len(b) = 6 + n
  BY <1>1, <1>2 DEF BlockParts
<1>5. PICK w : w = <<Dollar, At>> \o b
  OBVIOUS
<1>6. /\ w \in Seq(Byte) /\ Len(w) = 8 + n /\ w[1] = Dollar /\ w[2] = At
      /\ \A j \in 0 .. 5 + n : w[2 + (j + 1)] = b[j + 1]
  <2>1. PICK start : start = <<Dollar, At>>
    OBVIOUS
  <2>2. start \in Seq(Byte) /\ Len(start) = 2 /\ start[1] = Dollar /\ start[2] = At
    BY <2>1 DEF Dollar, At, Byte
  <2>3. w \in Seq(Byte) /\ IsJoin(start, b, w)
    BY <1>4, <1>5, <2>1, <2>2, Joined
  <2> QED BY <1>3, <1>4, <2>2, <2>3 DEF IsJoin
<1> DEFINE st == [k \in 0 .. 8 + n |-> BlockState(b, k)]
<1>7. ASSUME NEW k \in 0 .. 7 + n
      PROVE  Leads(st[k], w[k + 1], st[k + 1], IF k + 1 = 8 + n THEN <<message>> ELSE <<>>)
  <2>1. PICK x : x = BlockState(b, k)
    OBVIOUS
  <2>2. PICK y : y = BlockState(b, k + 1)
    OBVIOUS
  <2>3. st[k] = x /\ st[k + 1] = y
    BY <1>3, <2>1, <2>2
  <2> HIDE DEF st
  <2>4. PICK out : out = IF k + 1 = 8 + n THEN <<message>> ELSE <<>>
    OBVIOUS
  <2>5. SUFFICES Leads(x, w[k + 1], y, out)
    BY <2>3, <2>4, Zenon
  <2>6. CASE k = 0
    <3>1. x = WireIdle /\ y = Holder("AfterDollar", <<>>) /\ out = <<>> /\ w[k + 1] = Dollar
      BY <1>3, <1>4, <1>6, <2>1, <2>2, <2>4, <2>6 DEF BlockState
    <3> QED BY <3>1, FirstBytes, Zenon
  <2>7. CASE k = 1
    <3>1. Prefix(b, 0) = <<>>
      BY <1>4, PrefixGrows
    <3>2. x = Holder("AfterDollar", <<>>) /\ y = Holder("SbfHeader", Prefix(b, 0)) /\ out = <<>>
      BY <1>3, <1>4, <2>1, <2>2, <2>4, <2>7 DEF BlockState
    <3>3. w[k + 1] = At
      BY <1>6, <2>7
    <3> QED BY <3>1, <3>2, <3>3, FirstBytes, Zenon
  <2>8. CASE k \in 2 .. 7 + n
    <3>1. PICK j : j = k - 2
      OBVIOUS
    <3>2. j \in 0 .. 5 + n /\ k = j + 2 /\ k + 1 = 2 + (j + 1) /\ (k + 1) - 2 = j + 1
      BY <1>3, <2>8, <3>1
    <3>3. w[k + 1] = b[j + 1]
      BY <1>6, <3>2
    <3>4. /\ j < 5 => SbfHeaderByte(Prefix(b, j), b[j + 1]) = Hold("SbfHeader", Prefix(b, j + 1))
          /\ j = 5 /\ n # 0 =>
               SbfHeaderByte(Prefix(b, j), b[j + 1]) = Hold("SbfBody", Prefix(b, j + 1))
          /\ j = 5 /\ n = 0 => SbfHeaderByte(Prefix(b, j), b[j + 1]) = Finished(message)
          /\ 6 <= j /\ j < 5 + n =>
               SbfBodyByte(Prefix(b, j), b[j + 1]) = Hold("SbfBody", Prefix(b, j + 1))
          /\ 6 <= j /\ j = 5 + n => SbfBodyByte(Prefix(b, j), b[j + 1]) = Finished(message)
      BY <1>1, <1>2, <3>2, BlockByte
    <3>5. x = IF j < 6 THEN Holder("SbfHeader", Prefix(b, j)) ELSE Holder("SbfBody", Prefix(b, j))
      BY <1>3, <1>4, <2>1, <3>1, <3>2 DEF BlockState
    <3>6. y = IF j = 5 + n THEN WireIdle
              ELSE IF j < 5 THEN Holder("SbfHeader", Prefix(b, j + 1))
              ELSE Holder("SbfBody", Prefix(b, j + 1))
      BY <1>3, <1>4, <2>2, <3>2 DEF BlockState
    <3>7. WireFeed(x, b[j + 1], FALSE) = IF j < 6 THEN SbfHeaderByte(Prefix(b, j), b[j + 1])
                                                 ELSE SbfBodyByte(Prefix(b, j), b[j + 1])
      BY <3>5, HolderFeeds, Zenon
    <3>8. CASE j = 5 + n
      <4>1. WireFeed(x, b[j + 1], FALSE) = Finished(message)
        <5>1. IF n = 0 THEN j = 5 /\ j < 6 ELSE 6 <= j /\ ~ j < 6
          BY <1>3, <3>8
        <5> QED BY <3>4, <3>7, <3>8, <5>1, Zenon
      <4>2. y = WireIdle /\ out = <<message>>
        BY <1>3, <2>4, <3>2, <3>6, <3>8
      <4> QED BY <3>3, <4>1, <4>2, HoldLeads, Zenon
    <3>9. CASE j < 5
      <4>1. WireFeed(x, b[j + 1], FALSE) = Hold("SbfHeader", Prefix(b, j + 1))
        <5>1. j < 6
          BY <3>2, <3>9
        <5> QED BY <3>4, <3>7, <3>9, <5>1, Zenon
      <4>2. y = Holder("SbfHeader", Prefix(b, j + 1)) /\ out = <<>>
        BY <1>3, <2>4, <3>2, <3>6, <3>9
      <4> QED BY <3>3, <4>1, <4>2, HoldLeads, Zenon
    <3>10. CASE 5 <= j /\ j < 5 + n
      <4>1. WireFeed(x, b[j + 1], FALSE) = Hold("SbfBody", Prefix(b, j + 1))
        <5>1. IF j = 5 THEN j < 6 /\ n # 0 ELSE 6 <= j /\ ~ j < 6
          BY <1>3, <3>2, <3>10
        <5> QED BY <3>4, <3>7, <3>10, <5>1, Zenon
      <4>2. y = Holder("SbfBody", Prefix(b, j + 1)) /\ out = <<>>
        BY <1>3, <2>4, <3>2, <3>6, <3>10
      <4> QED BY <3>3, <4>1, <4>2, HoldLeads, Zenon
    <3> QED BY <1>3, <3>2, <3>8, <3>9, <3>10
  <2>9. k = 0 \/ k = 1 \/ k \in 2 .. 7 + n
    BY <1>3
  <2> QED BY <2>6, <2>7, <2>8, <2>9, Zenon
<1>8. st[0] = WireIdle /\ st[8 + n] = WireIdle
  BY <1>3, <1>4 DEF BlockState
<1> HIDE DEF st
<1>9. Course(w, message, st, Len(w))
  <2>1. Len(w) \in 1 .. Len(w) /\ st[Len(w)] = WireIdle
    BY <1>3, <1>6, <1>8
  <2>2. \A k \in 0 .. Len(w) - 1 :
          Leads(st[k], w[k + 1], st[k + 1], IF k + 1 = Len(w) THEN <<message>> ELSE <<>>)
    <3>1. Len(w) - 1 = 7 + n /\ Len(w) = 8 + n
      BY <1>3, <1>6
    <3> QED BY <1>7, <3>1, Zenon
  <2> QED BY <1>8, <2>1, <2>2 DEF Course
<1>10. SbfEncode(message) = w
  BY <1>1, <1>5
<1> QED
  BY <1>6, <1>9, <1>10

\* The bits of a byte.
Bits == SUBSET (0 .. 7)

\* None of them.
NoBits == {}

\* The fold that NmeaXor stands for, over the positions of data.
XorFold(data, f) ==
  f = [s \in SUBSET DOMAIN data |->
         IF s = {} THEN NoBits ELSE Xor(f[s \ {Max(s)}], BitsOf(data[Max(s)]))]

\* The last of the first positions.
LEMMA LastPosition ==
  ASSUME NEW k \in Nat
  PROVE  Max(1 .. k + 1) = k + 1 /\ (1 .. k + 1) \ {k + 1} = 1 .. k /\ 1 .. k + 1 # {}
<1>1. 1 .. k + 1 \in SUBSET (1 .. k + 1) /\ k + 1 \in 1 .. k + 1
  OBVIOUS
<1>2. Max(1 .. k + 1) = k + 1
  BY <1>1, MaxBelow
<1>3. (1 .. k + 1) \ {k + 1} = 1 .. k /\ 1 .. k + 1 # {}
  OBVIOUS
<1> QED
  BY <1>2, <1>3, Zenon

\* Bits stay bits.
LEMMA XorType ==
  ASSUME NEW a \in Bits, NEW byte PROVE Xor(a, BitsOf(byte)) \in Bits
BY DEF Bits, Xor, BitsOf

\* There is such a fold.
LEMMA XorFoldExists ==
  ASSUME NEW data \in Seq(Byte) PROVE \E f : XorFold(data, f)
<1> DEFINE n == Len(data)
           g == [p \in Bits \X (1 .. n) |-> Xor(p[1], BitsOf(data[p[2]]))]
<1>1. g \in [Bits \X (1 .. n) -> Bits]
  BY XorType
<1>2. \A v \in Bits, i \in 1 .. n : g[v, i] = Xor(v, BitsOf(data[i]))
  <2>1. ASSUME NEW v \in Bits, NEW i \in 1 .. n PROVE g[v, i] = Xor(v, BitsOf(data[i]))
    <3> HIDE DEF n
    <3> QED OBVIOUS
  <2> QED BY <2>1, Zenon
<1>3. n \in Nat /\ NoBits \in Bits
  BY DEF Bits, NoBits
<1> HIDE DEF g
<1>4. PICK f : FoldFrom(Bits, f, g, NoBits, n)
  <2> HIDE DEF n
  <2> QED BY <1>1, <1>3, FoldsExist
<1>5. ASSUME NEW s \in SUBSET (1 .. n), s # {} PROVE Max(s) \in 1 .. n /\ s \ {Max(s)} \in SUBSET (1 .. n)
  BY <1>3, <1>5, MaxIsMember
<1>6. ASSUME NEW s \in SUBSET (1 .. n)
      PROVE f[s] = IF s = {} THEN NoBits ELSE Xor(f[s \ {Max(s)}], BitsOf(data[Max(s)]))
  BY <1>2, <1>4, <1>5 DEF FoldFrom
<1>7. DOMAIN data = 1 .. n
  OBVIOUS
<1> QED
  BY <1>4, <1>6, <1>7 DEF FoldFrom, XorFold

\* The checksum of a sentence is a byte.
LEMMA XorIsByte ==
  ASSUME NEW data \in Seq(Byte) PROVE NmeaXor(data) \in Byte
<1> DEFINE n == Len(data)
           c == CHOOSE f : XorFold(data, f)
<1>1. n \in Nat /\ DOMAIN data = 1 .. n
  OBVIOUS
<1>2. XorFold(data, c)
  BY XorFoldExists
<1>3. NmeaXor(data) = Number(c[1 .. n])
  BY <1>1 DEF NmeaXor, FoldLeft, MapThenFoldSet, XorFold, NoBits
<1> HIDE DEF c, n
<1>4. 0 .. n \subseteq {k \in 0 .. n : c[1 .. k] \in Bits}
  <2> DEFINE P == {k \in 0 .. n : c[1 .. k] \in Bits}
  <2>1. 0 \in P
    <3>1. 1 .. 0 = {} /\ NoBits \in Bits
      BY DEF Bits, NoBits
    <3>2. c[1 .. 0] = NoBits
      BY <1>2, <3>1 DEF XorFold
    <3> QED BY <1>1, <3>1, <3>2
  <2>2. ASSUME NEW k \in 0 .. n - 1, k \in P PROVE k + 1 \in P
    <3>1. Max(1 .. k + 1) = k + 1 /\ (1 .. k + 1) \ {k + 1} = 1 .. k /\ 1 .. k + 1 # {}
      <4>1. k \in Nat
        BY <1>1
      <4> QED BY <4>1, LastPosition
    <3>2. 1 .. k + 1 \in SUBSET DOMAIN data
      BY <1>1
    <3>3. c[1 .. k + 1] = Xor(c[1 .. k], BitsOf(data[k + 1]))
      BY <1>2, <3>1, <3>2 DEF XorFold
    <3>4. c[1 .. k] \in Bits /\ k + 1 \in 0 .. n
      BY <1>1, <2>2
    <3> QED BY <3>3, <3>4, XorType
  <2> HIDE DEF P
  <2>3. 0 .. n \subseteq P
    BY <1>1, <2>1, <2>2, CountUp
  <2> QED BY <2>3 DEF P
<1>5. c[1 .. n] \in SUBSET (0 .. 7)
  BY <1>1, <1>4 DEF Bits
<1> QED
  BY <1>3, <1>5, NumberIsByte

\* A nibble is read as it was written.
LEMMA NibbleIsRead ==
  ASSUME NEW d \in 0 .. 15
  PROVE  HexToNibble(HexDigit(d)) = d /\ HexDigit(d) \in Byte
<1>1. CASE d < 10
  <2>1. HexDigit(d) = 48 + d /\ 48 + d \in 48 .. 57 /\ 48 + d \notin 65 .. 70 /\ 48 + d \notin 97 .. 102
    BY <1>1 DEF HexDigit
  <2> QED BY <2>1 DEF HexToNibble, Byte
<1>2. CASE ~ d < 10
  <2>1. HexDigit(d) = 55 + d /\ 55 + d \in 65 .. 70 /\ 55 + d \notin 48 .. 57 /\ 55 + d \notin 97 .. 102
    BY <1>2 DEF HexDigit
  <2> QED BY <2>1 DEF HexToNibble, Byte
<1> QED
  BY <1>1, <1>2

\* w is s, d and t, one after the other.
AreJoined(s, d, t, w) ==
  /\ Len(w) = Len(s) + Len(d) + Len(t)
  /\ \A i \in 1 .. Len(s) : w[i] = s[i]
  /\ \A i \in 1 .. Len(d) : w[Len(s) + i] = d[i]
  /\ \A i \in 1 .. Len(t) : w[Len(s) + Len(d) + i] = t[i]

\* Concatenation of three, element by element.
LEMMA ThreeJoined ==
  ASSUME NEW S, NEW s \in Seq(S), NEW d \in Seq(S), NEW t \in Seq(S),
         NEW w, w = s \o d \o t
  PROVE  w \in Seq(S) /\ AreJoined(s, d, t, w)
<1>1. PICK u : u = s \o d
  OBVIOUS
<1>2. u \in Seq(S) /\ IsJoin(s, d, u)
  BY <1>1, Joined
<1>3. w \in Seq(S) /\ IsJoin(u, t, w)
  BY <1>1, <1>2, Joined
<1>4. Len(w) = Len(s) + Len(d) + Len(t) /\ Len(u) = Len(s) + Len(d)
  BY <1>2, <1>3 DEF IsJoin
<1>5. ASSUME NEW i \in 1 .. Len(s) PROVE w[i] = s[i]
  <2>1. i \in 1 .. Len(u) /\ u[i] = s[i]
    BY <1>2 DEF IsJoin
  <2> QED BY <1>3, <2>1 DEF IsJoin
<1>6. ASSUME NEW i \in 1 .. Len(d) PROVE w[Len(s) + i] = d[i]
  <2>1. Len(s) + i \in 1 .. Len(u) /\ u[Len(s) + i] = d[i]
    BY <1>2 DEF IsJoin
  <2> QED BY <1>3, <2>1 DEF IsJoin
<1>7. ASSUME NEW i \in 1 .. Len(t) PROVE w[Len(s) + Len(d) + i] = t[i]
  BY <1>3, <1>4 DEF IsJoin
<1> QED
  BY <1>3, <1>4, <1>5, <1>6, <1>7 DEF AreJoined

\* What is sent for a sentence.
LEMMA SentenceIsMade ==
  ASSUME NEW message, IsSentence(message), NEW data, data = message.data,
         NEW xor, xor = NmeaXor(data), NEW w, w = NmeaEncode(message)
  PROVE  /\ w \in Seq(Byte) /\ Len(w) = Len(data) + 6
         /\ w[1] = Dollar /\ \A i \in 1 .. Len(data) : w[i + 1] = data[i]
         /\ w[Len(data) + 2] = Star
         /\ w[Len(data) + 3] = HexDigit(xor \div 16) /\ w[Len(data) + 4] = HexDigit(xor % 16)
         /\ w[Len(data) + 5] = CarriageReturn /\ w[Len(data) + 6] = LineFeed
<1>1. data \in Seq(Byte) /\ Len(data) \in Nat
  BY DEF IsSentence, Byte
<1>2. xor \in Byte
  BY <1>1, XorIsByte
<1>3. PICK a : a = HexDigit(xor \div 16)
  OBVIOUS
<1>4. PICK b : b = HexDigit(xor % 16)
  OBVIOUS
<1>5. a \in Byte /\ b \in Byte
  <2>1. xor \div 16 \in 0 .. 15 /\ xor % 16 \in 0 .. 15
    BY <1>2 DEF Byte
  <2> QED BY <1>3, <1>4, <2>1, NibbleIsRead
<1>6. PICK s : s = <<Dollar>>
  OBVIOUS
<1>7. PICK t : t = <<Star, a, b, CarriageReturn, LineFeed>>
  OBVIOUS
<1>8. s \in Seq(Byte) /\ Len(s) = 1 /\ s[1] = Dollar
  BY <1>6 DEF Dollar, Byte
<1>9. /\ t \in Seq(Byte) /\ Len(t) = 5
      /\ t[1] = Star /\ t[2] = a /\ t[3] = b /\ t[4] = CarriageReturn /\ t[5] = LineFeed
  BY <1>5, <1>7 DEF Star, CarriageReturn, LineFeed, Byte
<1>10. w = s \o data \o t
  BY <1>3, <1>4, <1>6, <1>7, Zenon DEF NmeaEncode
<1>11. w \in Seq(Byte) /\ AreJoined(s, data, t, w)
  BY <1>1, <1>8, <1>9, <1>10, ThreeJoined
<1>12. Len(w) = Len(data) + 6 /\ \A i \in 1 .. 5 : w[1 + Len(data) + i] = t[i]
  BY <1>1, <1>8, <1>9, <1>11 DEF AreJoined
<1>13. /\ w[1 + Len(data) + 1] = t[1] /\ w[1 + Len(data) + 2] = t[2] /\ w[1 + Len(data) + 3] = t[3]
       /\ w[1 + Len(data) + 4] = t[4] /\ w[1 + Len(data) + 5] = t[5]
  BY <1>12
<1>14. w[1] = Dollar /\ \A i \in 1 .. Len(data) : w[i + 1] = data[i]
  BY <1>1, <1>8, <1>11 DEF AreJoined
<1> QED
  BY <1>1, <1>3, <1>4, <1>9, <1>11, <1>12, <1>13, <1>14

\* What the parser holds of a sentence after the dollar and k bytes.
SentenceBody(data, k) ==
  IF k = 0 THEN Holder("AfterDollar", <<>>)
  ELSE IF k = 1 /\ data[1] = LetterR THEN Holder("AfterR", <<>>)
  ELSE Holder("NmeaBody", Prefix(data, k))

\* The state between the two digits of the checksum.
AfterHigh(data, high) == [Holder("NmeaChecksumLo", data) EXCEPT !.high = high]

\* What it holds of the sentence after k bytes of all.
SentenceState(data, high, k) ==
  IF k \in 1 .. Len(data) + 1 THEN SentenceBody(data, k - 1)
  ELSE IF k = Len(data) + 2 THEN Holder("NmeaChecksumHi", data)
  ELSE IF k = Len(data) + 3 THEN AfterHigh(data, high)
  ELSE WireIdle

\* A body is read by NmeaByte, however it is held.
LEMMA SentenceFeeds ==
  ASSUME NEW data \in Seq(Byte), NEW k \in 0 .. Len(data), NEW byte,
         k = 0 => byte \notin {Dollar, At, LetterR},
         k = 1 /\ data[1] = LetterR => byte \notin ReplyKinds
  PROVE  WireFeed(SentenceBody(data, k), byte, FALSE) = NmeaByte(Prefix(data, k), byte)
<1>1. CASE k = 0
  <2>1. SentenceBody(data, k) = Holder("AfterDollar", <<>>) /\ Prefix(data, k) = <<>>
    BY <1>1, PrefixGrows DEF SentenceBody
  <2>2. AfterDollarByte(byte) = NmeaByte(<<>>, byte)
    BY <1>1, Zenon DEF AfterDollarByte
  <2> QED BY <2>1, <2>2, HolderFeeds, Zenon
<1>2. CASE k = 1 /\ data[1] = LetterR
  <2>1. SentenceBody(data, k) = Holder("AfterR", <<>>)
    BY <1>2 DEF SentenceBody
  <2>2. Prefix(data, k) = <<LetterR>>
    <3>1. PICK p : p = Prefix(data, k)
      OBVIOUS
    <3>2. p \in Seq(Byte) /\ Len(p) = k /\ \A i \in 1 .. k : p[i] = data[i]
      BY <3>1, PrefixGrows
    <3>3. p \in Seq(Byte) /\ Len(p) = 1 /\ p[1] = LetterR
      BY <1>2, <3>2
    <3> QED BY <3>1, <3>3
  <2>3. AfterRByte(byte) = NmeaByte(<<LetterR>>, byte)
    BY <1>2, Zenon DEF AfterRByte
  <2>4. WireFeed(Holder("AfterR", <<>>), byte, FALSE) = AfterRByte(byte)
    BY HolderFeeds
  <2> QED BY <2>1, <2>2, <2>3, <2>4, Zenon
<1>3. CASE k # 0 /\ ~(k = 1 /\ data[1] = LetterR)
  <2>1. SentenceBody(data, k) = Holder("NmeaBody", Prefix(data, k))
    BY <1>3, Zenon DEF SentenceBody
  <2> QED BY <2>1, HolderFeeds, Zenon
<1> QED
  BY <1>1, <1>2, <1>3, Zenon

\* What a sentence is made of.
LEMMA SentenceParts ==
  ASSUME NEW message, IsSentence(message), NEW data, data = message.data
  PROVE  /\ data \in Seq(Byte) /\ Len(data) \in 1 .. MaxSentence
         /\ \A i \in 1 .. Len(data) : data[i] \notin {Dollar, Star, CarriageReturn, LineFeed}
         /\ data[1] # At
         /\ data[1] = LetterR /\ Len(data) > 1 => data[2] \notin ReplyKinds
         /\ message = [type |-> "nmea", data |-> data]
<1>1. message \in [type : {"nmea"}, data : Seq(0 .. 255)]
  BY DEF IsSentence
<1>2. message = [type |-> "nmea", data |-> data] /\ data \in Seq(Byte)
  BY <1>1 DEF Byte
<1>3. DOMAIN data = 1 .. Len(data)
  BY <1>2
<1> QED
  BY <1>2, <1>3 DEF IsSentence

\* The bytes of a sentence up to the star.
LEMMA SentenceByte ==
  ASSUME NEW message, IsSentence(message), NEW data, data = message.data,
         NEW k \in 0 .. Len(data)
  PROVE  IF k = Len(data)
           THEN Leads(SentenceBody(data, k), Star, Holder("NmeaChecksumHi", data), <<>>)
           ELSE Leads(SentenceBody(data, k), data[k + 1], SentenceBody(data, k + 1), <<>>)
<1>1. /\ data \in Seq(Byte) /\ Len(data) \in 1 .. MaxSentence
      /\ \A i \in 1 .. Len(data) : data[i] \notin {Dollar, Star, CarriageReturn, LineFeed}
      /\ data[1] # At
      /\ data[1] = LetterR /\ Len(data) > 1 => data[2] \notin ReplyKinds
  BY SentenceParts
<1>2. MaxSentence \in Nat
  BY WireAssumption
<1>3. CASE k = Len(data)
  <2>1. k # 0 /\ Star \notin ReplyKinds
    BY <1>1, <1>2, <1>3 DEF Star, ReplyKinds
  <2>2. WireFeed(SentenceBody(data, k), Star, FALSE) = NmeaByte(Prefix(data, k), Star)
    BY <1>1, <2>1, SentenceFeeds
  <2>3. Prefix(data, k) = data
    BY <1>1, <1>3, PrefixGrows
  <2>4. NmeaByte(data, Star) = Hold("NmeaChecksumHi", data)
    BY DEF NmeaByte, Star, Dollar
  <2> QED BY <1>3, <2>2, <2>3, <2>4, HoldLeads, Zenon
<1>4. CASE k # Len(data)
  <2>1. k + 1 \in 1 .. Len(data) /\ k < Len(data) /\ k < MaxSentence /\ ~ k >= MaxSentence
    BY <1>1, <1>2, <1>4
  <2>2. PICK byte : byte = data[k + 1]
    OBVIOUS
  <2>3. byte \notin {Dollar, Star, CarriageReturn, LineFeed}
    BY <1>1, <2>1, <2>2
  <2>4. CASE k = 0 /\ byte = LetterR
    <3>1. /\ SentenceBody(data, k) = Holder("AfterDollar", <<>>)
          /\ SentenceBody(data, k + 1) = Holder("AfterR", <<>>)
      BY <2>2, <2>4 DEF SentenceBody
    <3> QED BY <1>4, <2>2, <2>4, <3>1, FirstBytes, Zenon
  <2>5. CASE ~(k = 0 /\ byte = LetterR)
    <3>1. k = 0 => byte \notin {Dollar, At, LetterR}
      <4>1. k = 0 => data[k + 1] = data[1]
        OBVIOUS
      <4> QED BY <1>1, <2>2, <2>3, <2>5, <4>1, Zenon
    <3>2. k = 1 /\ data[1] = LetterR => byte \notin ReplyKinds
      <4>1. k = 1 => data[k + 1] = data[2] /\ Len(data) > 1
        BY <1>1, <1>2, <2>1
      <4> QED BY <1>1, <2>2, <4>1, Zenon
    <3>3. WireFeed(SentenceBody(data, k), byte, FALSE) = NmeaByte(Prefix(data, k), byte)
      BY <1>1, <3>1, <3>2, SentenceFeeds
    <3>4. Append(Prefix(data, k), byte) = Prefix(data, k + 1) /\ Len(Prefix(data, k)) = k
      BY <1>1, <2>1, <2>2, PrefixGrows
    <3>5. NmeaByte(Prefix(data, k), byte) = Hold("NmeaBody", Prefix(data, k + 1))
      BY <2>1, <2>3, <3>4, Zenon DEF NmeaByte
    <3>6. SentenceBody(data, k + 1) = Holder("NmeaBody", Prefix(data, k + 1))
      <4>1. k + 1 # 0 /\ (k + 1 = 1 => k = 0 /\ data[k + 1] = data[1])
        OBVIOUS
      <4> QED BY <2>2, <2>5, <4>1, Zenon DEF SentenceBody
    <3> QED BY <1>4, <2>2, <3>3, <3>5, <3>6, HoldLeads, Zenon
  <2> QED BY <2>4, <2>5, Zenon
<1> QED
  BY <1>3, <1>4, Zenon

\* A byte is its two nibbles.
LEMMA NibblesAre ==
  ASSUME NEW byte \in Byte
  PROVE  byte \div 16 \in 0 .. 15 /\ byte % 16 \in 0 .. 15 /\ byte = 16 * (byte \div 16) + (byte % 16)
BY DEF Byte

\* The checksum of a sentence takes it to its end.
LEMMA SentenceEnds ==
  ASSUME NEW data \in Seq(Byte), NEW xor, xor = NmeaXor(data), NEW message,
         message = [type |-> "nmea", data |-> data]
  PROVE  /\ Leads(Holder("NmeaChecksumHi", data), HexDigit(xor \div 16),
                  AfterHigh(data, xor \div 16), <<>>)
         /\ Leads(AfterHigh(data, xor \div 16), HexDigit(xor % 16), WireIdle, <<message>>)
         /\ Leads(WireIdle, CarriageReturn, WireIdle, <<>>)
         /\ Leads(WireIdle, LineFeed, WireIdle, <<>>)
<1>1. xor \in Byte
  BY XorIsByte
<1>2. PICK high : high = xor \div 16
  OBVIOUS
<1>3. PICK low : low = xor % 16
  OBVIOUS
<1>4. high \in 0 .. 15 /\ low \in 0 .. 15 /\ xor = 16 * high + low
  BY <1>1, <1>2, <1>3, NibblesAre
<1>5. HexToNibble(HexDigit(high)) = high /\ HexToNibble(HexDigit(low)) = low
  BY <1>4, NibbleIsRead
<1>6. Leads(Holder("NmeaChecksumHi", data), HexDigit(high), AfterHigh(data, high), <<>>)
  <2>1. ChecksumHiByte(data, HexDigit(high)) = [Hold("NmeaChecksumLo", data) EXCEPT !.parser.high = high]
    BY <1>4, <1>5 DEF ChecksumHiByte
  <2>2. [Hold("NmeaChecksumLo", data) EXCEPT !.parser.high = high] =
          [parser |-> AfterHigh(data, high), out |-> <<>>]
    BY DEF Hold, Holder, AfterHigh
  <2>3. WireFeed(Holder("NmeaChecksumHi", data), HexDigit(high), FALSE) =
          ChecksumHiByte(data, HexDigit(high))
    BY HolderFeeds
  <2> QED BY <2>1, <2>2, <2>3, Zenon DEF Leads
<1>7. Leads(AfterHigh(data, high), HexDigit(low), WireIdle, <<message>>)
  <2>1. PICK p : p = AfterHigh(data, high)
    OBVIOUS
  <2>2. p.state = "NmeaChecksumLo" /\ p.held = data /\ p.high = high
    BY <2>1 DEF AfterHigh, Holder, Hold, WireIdle
  <2>3. WireFeed(p, HexDigit(low), FALSE) = ChecksumLoByte(p.held, p.high, HexDigit(low))
    BY <2>2, FeedBy, Zenon
  <2>4. ChecksumLoByte(data, high, HexDigit(low)) = Finished(message)
    <3>1. low >= 0
      BY <1>4
    <3> QED BY <1>4, <1>5, <3>1, Zenon DEF ChecksumLoByte
  <2> QED BY <2>1, <2>2, <2>3, <2>4, HoldLeads, Zenon
<1>8. /\ Leads(WireIdle, CarriageReturn, WireIdle, <<>>)
      /\ Leads(WireIdle, LineFeed, WireIdle, <<>>)
  <2>1. CarriageReturn # Dollar /\ LineFeed # Dollar
    BY DEF CarriageReturn, LineFeed, Dollar
  <2> QED BY <2>1, HolderFeeds, HoldLeads, Zenon
<1> QED
  BY <1>2, <1>3, <1>6, <1>7, <1>8, Zenon

\* A sentence is taken to the digits of its checksum.
LEMMA SentenceCourse ==
  ASSUME NEW message, IsSentence(message)
  PROVE  /\ NmeaEncode(message) \in Seq(Byte)
         /\ \E st, at : Course(NmeaEncode(message), message, st, at)
<1>1. PICK data : data = message.data
  OBVIOUS
<1>2. PICK xor : xor = NmeaXor(data)
  OBVIOUS
<1>3. PICK w : w = NmeaEncode(message)
  OBVIOUS
<1>4. PICK n : n = Len(data)
  OBVIOUS
<1>5. PICK high : high = xor \div 16
  OBVIOUS
<1>6. /\ data \in Seq(Byte) /\ n \in Nat /\ n > 0
      /\ message = [type |-> "nmea", data |-> data]
  BY <1>1, <1>4, SentenceParts, WireAssumption
<1>7. /\ w \in Seq(Byte) /\ Len(w) = n + 6
      /\ w[1] = Dollar /\ \A i \in 1 .. n : w[i + 1] = data[i]
      /\ w[n + 2] = Star
      /\ w[n + 3] = HexDigit(high) /\ w[n + 4] = HexDigit(xor % 16)
      /\ w[n + 5] = CarriageReturn /\ w[n + 6] = LineFeed
  <2>1. /\ w \in Seq(Byte) /\ Len(w) = Len(data) + 6
        /\ w[1] = Dollar /\ \A i \in 1 .. Len(data) : w[i + 1] = data[i]
        /\ w[Len(data) + 2] = Star
        /\ w[Len(data) + 3] = HexDigit(xor \div 16) /\ w[Len(data) + 4] = HexDigit(xor % 16)
        /\ w[Len(data) + 5] = CarriageReturn /\ w[Len(data) + 6] = LineFeed
    BY <1>1, <1>2, <1>3, SentenceIsMade
  <2> QED BY <1>4, <1>5, <2>1
<1> DEFINE st == [k \in 0 .. n + 6 |-> SentenceState(data, high, k)]
<1>8. ASSUME NEW k \in 0 .. n + 5
      PROVE  Leads(st[k], w[k + 1], st[k + 1], IF k + 1 = n + 4 THEN <<message>> ELSE <<>>)
  <2>1. PICK x : x = SentenceState(data, high, k)
    OBVIOUS
  <2>2. PICK y : y = SentenceState(data, high, k + 1)
    OBVIOUS
  <2>3. st[k] = x /\ st[k + 1] = y
    BY <1>6, <2>1, <2>2
  <2> HIDE DEF st
  <2>4. PICK out : out = IF k + 1 = n + 4 THEN <<message>> ELSE <<>>
    OBVIOUS
  <2>5. SUFFICES Leads(x, w[k + 1], y, out)
    BY <2>3, <2>4, Zenon
  <2>6. CASE k = 0
    <3>1. x = WireIdle /\ y = SentenceBody(data, 0) /\ out = <<>> /\ w[k + 1] = Dollar
      BY <1>4, <1>6, <1>7, <2>1, <2>2, <2>4, <2>6 DEF SentenceState
    <3>2. SentenceBody(data, 0) = Holder("AfterDollar", <<>>)
      BY DEF SentenceBody
    <3> QED BY <3>1, <3>2, FirstBytes, Zenon
  <2>7. CASE k \in 1 .. n
    <3>1. PICK j : j = k - 1
      OBVIOUS
    <3>2. j \in 0 .. n /\ j # n /\ k = j + 1 /\ j + 1 \in 1 .. n
      BY <1>6, <2>7, <3>1
    <3>3. x = SentenceBody(data, j) /\ y = SentenceBody(data, j + 1) /\ out = <<>>
      BY <1>4, <1>6, <2>1, <2>2, <2>4, <3>1, <3>2 DEF SentenceState
    <3>4. w[k + 1] = data[j + 1]
      BY <1>7, <3>2
    <3> QED BY <1>1, <1>4, <3>2, <3>3, <3>4, SentenceByte, Zenon
  <2>8. CASE k = n + 1
    <3>1. x = SentenceBody(data, n) /\ y = Holder("NmeaChecksumHi", data) /\ out = <<>>
      BY <1>4, <1>6, <2>1, <2>2, <2>4, <2>8 DEF SentenceState
    <3>2. w[k + 1] = Star /\ n \in 0 .. n
      BY <1>6, <1>7, <2>8
    <3> QED BY <1>1, <1>4, <3>1, <3>2, SentenceByte, Zenon
  <2>9. CASE k = n + 2
    <3>1. x = Holder("NmeaChecksumHi", data) /\ y = AfterHigh(data, high) /\ out = <<>>
      BY <1>4, <1>6, <2>1, <2>2, <2>4, <2>9 DEF SentenceState
    <3>2. w[k + 1] = HexDigit(high)
      BY <1>6, <1>7, <2>9
    <3> QED BY <1>2, <1>5, <1>6, <3>1, <3>2, SentenceEnds, Zenon
  <2>10. CASE k = n + 3
    <3>1. x = AfterHigh(data, high) /\ y = WireIdle /\ out = <<message>>
      BY <1>4, <1>6, <2>1, <2>2, <2>4, <2>10 DEF SentenceState
    <3>2. w[k + 1] = HexDigit(xor % 16)
      BY <1>6, <1>7, <2>10
    <3> QED BY <1>2, <1>5, <1>6, <3>1, <3>2, SentenceEnds, Zenon
  <2>11. CASE k \in {n + 4, n + 5}
    <3>1. x = WireIdle /\ y = WireIdle /\ out = <<>>
      BY <1>4, <1>6, <2>1, <2>2, <2>4, <2>11 DEF SentenceState
    <3>2. w[k + 1] \in {CarriageReturn, LineFeed}
      BY <1>6, <1>7, <2>11
    <3> QED BY <1>2, <1>6, <3>1, <3>2, SentenceEnds, Zenon
  <2>12. k = 0 \/ k \in 1 .. n \/ k = n + 1 \/ k = n + 2 \/ k = n + 3 \/ k \in {n + 4, n + 5}
    BY <1>6
  <2> QED BY <2>6, <2>7, <2>8, <2>9, <2>10, <2>11, <2>12, Zenon
<1>9. st[0] = WireIdle /\ st[n + 6] = WireIdle
  BY <1>4, <1>6 DEF SentenceState
<1> HIDE DEF st
<1>10. Course(w, message, st, n + 4)
  <2>1. n + 4 \in 1 .. Len(w) /\ st[Len(w)] = WireIdle
    BY <1>6, <1>7, <1>9
  <2>2. \A k \in 0 .. Len(w) - 1 :
          Leads(st[k], w[k + 1], st[k + 1], IF k + 1 = n + 4 THEN <<message>> ELSE <<>>)
    <3>1. Len(w) - 1 = n + 5
      BY <1>6, <1>7
    <3> QED BY <1>8, <3>1, Zenon
  <2> QED BY <1>9, <2>1, <2>2 DEF Course
<1> QED
  BY <1>3, <1>7, <1>10, Zenon

\* Where a prompt may begin in the first j bytes of t, and where ReplyByte takes it to.
Prompts(t, j) == {i \in 1 .. j : t[i] = LineFeed /\ \A k \in i + 1 .. j : IsPromptChar(t[k])}

\* The member of a set of at most one, or 0.
AnyOf(s) == IF s = {} THEN 0 ELSE CHOOSE i \in s : TRUE

\* promptAt after j bytes of the text t.
PromptAfter(t, j) == AnyOf(Prompts(t, j))

\* The state in which a reply is held, and what is held of its text after j bytes.
ReplyHolder(kind, held, promptAt) ==
  [state |-> "ReplyBody", held |-> held, kind |-> kind, promptAt |-> promptAt, high |-> 0]

\* The parser after j bytes of the text t.
ReplyState(kind, t, j) ==
  ReplyHolder(kind, Prefix(t, j), PromptAfter(t, j))

\* The prompt candidate, byte by byte.
LEMMA PromptSteps ==
  ASSUME NEW t, NEW j \in Nat
  PROVE  /\ PromptAfter(t, 0) = 0
         /\ PromptAfter(t, j + 1) = IF t[j + 1] = LineFeed THEN j + 1
                                    ELSE IF IsPromptChar(t[j + 1]) THEN PromptAfter(t, j) ELSE 0
         /\ PromptAfter(t, j) # 0 => PromptAfter(t, j) \in Prompts(t, j)
<1>1. ~ IsPromptChar(LineFeed)
  BY DEF IsPromptChar, LineFeed
<1>2. ASSUME t[j + 1] = LineFeed PROVE PromptAfter(t, j + 1) = j + 1
  <2>1. Prompts(t, j + 1) = {j + 1}
    <3>1. j + 1 \in Prompts(t, j + 1)
      BY <1>2 DEF Prompts
    <3>2. ASSUME NEW i \in Prompts(t, j + 1) PROVE i = j + 1
      <4>1. i \in 1 .. j + 1 /\ \A k \in i + 1 .. j + 1 : IsPromptChar(t[k])
        BY DEF Prompts
      <4>2. i # j + 1 => j + 1 \in i + 1 .. j + 1
        BY <4>1
      <4> QED BY <1>1, <1>2, <4>1, <4>2, Zenon
    <3> QED BY <3>1, <3>2
  <2> QED BY <2>1 DEF PromptAfter, AnyOf
<1>3. ASSUME t[j + 1] # LineFeed, IsPromptChar(t[j + 1])
      PROVE  PromptAfter(t, j + 1) = PromptAfter(t, j)
  <2>1. Prompts(t, j + 1) = Prompts(t, j)
    <3>1. ASSUME NEW i \in Prompts(t, j + 1) PROVE i \in Prompts(t, j)
      <4>1. /\ i \in 1 .. j + 1 /\ t[i] = LineFeed
            /\ \A k \in i + 1 .. j + 1 : IsPromptChar(t[k])
        BY DEF Prompts
      <4>2. i \in 1 .. j
        BY <1>3, <4>1
      <4>3. \A k \in i + 1 .. j : IsPromptChar(t[k])
        BY <4>1, <4>2
      <4> QED BY <4>1, <4>2, <4>3, Zenon DEF Prompts
    <3>2. ASSUME NEW i \in Prompts(t, j) PROVE i \in Prompts(t, j + 1)
      <4>1. i \in 1 .. j /\ t[i] = LineFeed /\ \A k \in i + 1 .. j : IsPromptChar(t[k])
        BY DEF Prompts
      <4>2. i \in 1 .. j + 1
        BY <4>1
      <4>3. \A k \in i + 1 .. j + 1 : k = j + 1 \/ k \in i + 1 .. j
        BY <4>1
      <4>4. \A k \in i + 1 .. j + 1 : IsPromptChar(t[k])
        BY <1>3, <4>1, <4>3, Zenon
      <4> QED BY <4>1, <4>2, <4>4, Zenon DEF Prompts
    <3> QED BY <3>1, <3>2
  <2> QED BY <2>1, Zenon DEF PromptAfter
<1>4. ASSUME t[j + 1] # LineFeed, ~ IsPromptChar(t[j + 1]) PROVE PromptAfter(t, j + 1) = 0
  <2>1. ASSUME NEW i \in Prompts(t, j + 1) PROVE FALSE
    <3>1. /\ i \in 1 .. j + 1 /\ t[i] = LineFeed
          /\ \A k \in i + 1 .. j + 1 : IsPromptChar(t[k])
      BY DEF Prompts
    <3>2. i # j + 1 => j + 1 \in i + 1 .. j + 1
      BY <3>1
    <3> QED BY <1>4, <3>1, <3>2, Zenon
  <2> QED BY <2>1 DEF PromptAfter, AnyOf
<1>5. PromptAfter(t, 0) = 0
  <2>1. Prompts(t, 0) = {}
    BY DEF Prompts
  <2> QED BY <2>1 DEF PromptAfter, AnyOf
<1>6. PromptAfter(t, j) # 0 => PromptAfter(t, j) \in Prompts(t, j)
  BY Zenon DEF PromptAfter, AnyOf
<1> QED
  BY <1>2, <1>3, <1>4, <1>5, <1>6, Zenon

\* A byte of a reply's text, and the two that end it.
LEMMA ReplyGrows ==
  ASSUME NEW kind, NEW t \in Seq(Byte), NEW j \in 0 .. Len(t) - 1, j < MaxReply,
         \A i \in Prompts(t, j) : t[j + 1] = PromptEnd => i = j
  PROVE  Leads(ReplyState(kind, t, j), t[j + 1], ReplyState(kind, t, j + 1), <<>>)
<1>1. PICK p : p = ReplyState(kind, t, j)
  OBVIOUS
<1>2. PICK byte : byte = t[j + 1]
  OBVIOUS
<1>3. /\ p.state = "ReplyBody" /\ p.held = Prefix(t, j) /\ p.promptAt = PromptAfter(t, j)
  <2>1. p = ReplyHolder(kind, Prefix(t, j), PromptAfter(t, j))
    BY <1>1 DEF ReplyState
  <2> QED BY <2>1 DEF ReplyHolder
<1>4. /\ j \in 0 .. Len(t) /\ j < Len(t) /\ j \in Nat /\ ~ j >= MaxReply
  BY WireAssumption
<1>5. Len(Prefix(t, j)) = j /\ Append(Prefix(t, j), byte) = Prefix(t, j + 1)
  BY <1>2, <1>4, PrefixGrows
<1>6. ~ (p.promptAt # 0 /\ byte = PromptEnd /\ Len(p.held) > p.promptAt)
  <2>1. SUFFICES ASSUME p.promptAt # 0, byte = PromptEnd PROVE ~ Len(p.held) > p.promptAt
    OBVIOUS
  <2>2. PromptAfter(t, j) = j
    BY <1>2, <1>3, <1>4, <2>1, PromptSteps
  <2> QED BY <1>3, <1>4, <1>5, <2>2
<1>7. PromptAfter(t, j + 1) = IF byte = LineFeed THEN j + 1
                              ELSE IF IsPromptChar(byte) THEN PromptAfter(t, j) ELSE 0
  BY <1>2, <1>4, PromptSteps
<1>8. ReplyByte(p, byte) =
        [parser |-> [p EXCEPT !.held = Prefix(t, j + 1), !.promptAt = PromptAfter(t, j + 1)],
         out |-> <<>>]
  <2>1. [p EXCEPT !.held = Append(@, byte),
                  !.promptAt = IF byte = LineFeed THEN Len(p.held) + 1
                               ELSE IF IsPromptChar(byte) THEN @ ELSE 0] =
        [p EXCEPT !.held = Prefix(t, j + 1), !.promptAt = PromptAfter(t, j + 1)]
    BY <1>3, <1>5, <1>7, Zenon
  <2>2. ~ Len(p.held) >= MaxReply
    BY <1>3, <1>4, <1>5
  <2> QED BY <1>6, <2>1, <2>2, Zenon DEF ReplyByte
<1>9. WireFeed(p, byte, FALSE) = ReplyByte(p, byte)
  BY <1>3, FeedBy, Zenon
<1>10. [p EXCEPT !.held = Prefix(t, j + 1), !.promptAt = PromptAfter(t, j + 1)]
         = ReplyState(kind, t, j + 1)
  <2>1. p = ReplyHolder(kind, Prefix(t, j), PromptAfter(t, j))
    BY <1>1 DEF ReplyState
  <2>2. PICK q : q = [p EXCEPT !.held = Prefix(t, j + 1)]
    OBVIOUS
  <2>3. q = ReplyHolder(kind, Prefix(t, j + 1), PromptAfter(t, j))
    BY <2>1, <2>2 DEF ReplyHolder
  <2>4. [q EXCEPT !.promptAt = PromptAfter(t, j + 1)] =
          ReplyHolder(kind, Prefix(t, j + 1), PromptAfter(t, j + 1))
    BY <2>3 DEF ReplyHolder
  <2> QED BY <2>2, <2>4, Zenon DEF ReplyState
<1> QED
  BY <1>1, <1>2, <1>8, <1>9, <1>10, Zenon DEF Leads

\* What a reply is made of.
LEMMA ReplyParts ==
  ASSUME NEW message, IsReply(message), NEW data, data = message.data,
         NEW kind, kind = message.kind
  PROVE  /\ data \in Seq(Byte) /\ Len(data) \in Nat /\ 0 < Len(data) /\ Len(data) < MaxReply
         /\ data[Len(data)] = LineFeed /\ kind \in ReplyKinds
         /\ message = [type |-> "reply", kind |-> kind, data |-> data]
         /\ ~ \E i, j \in 1 .. Len(data) :
                /\ data[i] = LineFeed /\ i + 1 < j /\ data[j] = PromptEnd
                /\ \A k \in i + 1 .. j - 1 : IsPromptChar(data[k])
<1>1. message \in [type : {"reply"}, kind : ReplyKinds, data : Seq(0 .. 255)]
  BY DEF IsReply
<1>2. /\ message = [type |-> "reply", kind |-> kind, data |-> data] /\ data \in Seq(Byte)
      /\ kind \in ReplyKinds
  BY <1>1 DEF Byte
<1>3. DOMAIN data = 1 .. Len(data) /\ Len(data) \in Nat
  BY <1>2
<1>4. 0 < Len(data) /\ Len(data) < MaxReply /\ data[Len(data)] = LineFeed
  BY DEF IsReply
<1>5. ~ \E i, j \in DOMAIN data :
          /\ data[i] = LineFeed /\ i + 1 < j /\ data[j] = PromptEnd
          /\ \A k \in i + 1 .. j - 1 : IsPromptChar(data[k])
  BY Zenon DEF IsReply
<1> QED
  BY <1>2, <1>3, <1>4, <1>5, Zenon

\* The text of a reply with the port's letter.
IsText(t, data) ==
  /\ t \in Seq(Byte) /\ Len(t) = Len(data) + 1 /\ t[Len(data) + 1] = 67
  /\ \A i \in 1 .. Len(data) : t[i] = data[i]

\* The bytes of a reply with that text.
ReplyParted(w, kind, t) ==
  /\ w \in Seq(Byte) /\ Len(w) = Len(t) + 4
  /\ w[1] = Dollar /\ w[2] = LetterR /\ w[3] = kind
  /\ \A j \in 0 .. Len(t) - 1 : w[j + 4] = t[j + 1]
  /\ w[Len(t) + 4] = PromptEnd

\* What is sent for a reply.
LEMMA ReplyIsMade ==
  ASSUME NEW message, IsReply(message)
  PROVE  \E t : IsText(t, message.data) /\ ReplyParted(ReplyEncode(message), message.kind, t)
<1> DEFINE data == message.data
           kind == message.kind
           w == ReplyEncode(message)
           t == data \o <<67>>
<1>1. t = data \o <<67>> /\ data = message.data /\ kind = message.kind
      /\ w = <<Dollar, LetterR, kind>> \o data \o <<67, PromptEnd>>
  BY DEF ReplyEncode
<1>2. data \in Seq(Byte) /\ Len(data) \in Nat /\ kind \in ReplyKinds
  BY ReplyParts
<1> HIDE DEF data, kind, w, t
<1>3. kind \in Byte
  BY <1>2 DEF ReplyKinds, Byte
<1>4. PICK u : u = <<67>>
  OBVIOUS
<1>5. u \in Seq(Byte) /\ Len(u) = 1 /\ u[1] = 67
  BY <1>4 DEF Byte
<1>6. t \in Seq(Byte) /\ IsJoin(data, u, t)
  BY <1>1, <1>2, <1>4, <1>5, Joined
<1>7. PICK s : s = <<Dollar, LetterR, kind>>
  OBVIOUS
<1>8. s \in Seq(Byte) /\ Len(s) = 3 /\ s[1] = Dollar /\ s[2] = LetterR /\ s[3] = kind
  BY <1>3, <1>7 DEF Dollar, LetterR, Byte
<1>9. PICK v : v = <<67, PromptEnd>>
  OBVIOUS
<1>10. v \in Seq(Byte) /\ Len(v) = 2 /\ v[1] = 67 /\ v[2] = PromptEnd
  BY <1>9 DEF PromptEnd, Byte
<1>11. w = s \o data \o v
  BY <1>1, <1>7, <1>9, Zenon
<1>12. w \in Seq(Byte) /\ AreJoined(s, data, v, w)
  <2>1. s \in Seq(Byte) /\ data \in Seq(Byte) /\ v \in Seq(Byte)
    BY <1>2, <1>8, <1>10
  <2> QED BY <1>11, <2>1, ThreeJoined, Zenon
<1>13. Len(t) = Len(data) + 1 /\ t[Len(data) + 1] = 67 /\ \A i \in 1 .. Len(data) : t[i] = data[i]
  BY <1>5, <1>6 DEF IsJoin
<1>14. /\ Len(w) = Len(data) + 5
       /\ \A i \in 1 .. 3 : w[i] = s[i]
       /\ \A i \in 1 .. Len(data) : w[3 + i] = data[i]
       /\ \A i \in 1 .. 2 : w[3 + Len(data) + i] = v[i]
  BY <1>2, <1>8, <1>10, <1>12 DEF AreJoined
<1>15. /\ w[3 + Len(data) + 1] = 67 /\ w[3 + Len(data) + 2] = PromptEnd
       /\ 3 + Len(data) + 2 = Len(data) + 5
       /\ w[1] = Dollar /\ w[2] = LetterR /\ w[3] = kind
  BY <1>2, <1>8, <1>10, <1>14
<1>16. ASSUME NEW j \in 0 .. Len(data) PROVE w[j + 4] = t[j + 1]
  <2>1. CASE j = Len(data)
    BY <1>2, <1>13, <1>15, <2>1
  <2>2. CASE j # Len(data)
    <3>1. j + 1 \in 1 .. Len(data) /\ j + 4 = 3 + (j + 1)
      BY <1>2, <2>2
    <3> QED BY <1>13, <1>14, <3>1
  <2> QED BY <2>1, <2>2
<1>17. IsText(t, data)
  BY <1>6, <1>13 DEF IsText
<1>18. ReplyParted(w, kind, t)
  <2>1. Len(t) + 4 = Len(data) + 5 /\ Len(t) - 1 = Len(data)
    BY <1>2, <1>13
  <2>2. w \in Seq(Byte) /\ Len(w) = Len(t) + 4 /\ w[Len(t) + 4] = PromptEnd
    BY <1>12, <1>14, <1>15, <2>1, Zenon
  <2> QED BY <1>15, <1>16, <2>1, <2>2, Zenon DEF ReplyParted
<1> QED
  BY <1>17, <1>18, Zenon DEF data, kind, w

\* The text of a reply holds no prompt but the last.
LEMMA NoEarlyPrompt ==
  ASSUME NEW message, IsReply(message), NEW t, IsText(t, message.data),
         NEW j \in 0 .. Len(t) - 1, NEW i \in Prompts(t, j), t[j + 1] = PromptEnd
  PROVE  i = j
<1>1. PICK data : data = message.data
  OBVIOUS
<1>2. /\ Len(data) \in Nat
      /\ ~ \E a, b \in 1 .. Len(data) :
             /\ data[a] = LineFeed /\ a + 1 < b /\ data[b] = PromptEnd
             /\ \A k \in a + 1 .. b - 1 : IsPromptChar(data[k])
  BY <1>1, ReplyParts
<1>3. /\ \A a \in 1 .. Len(data) : t[a] = data[a]
      /\ t[Len(data) + 1] = 67 /\ j \in 0 .. Len(data)
  BY <1>1, <1>2 DEF IsText
<1>4. i \in 1 .. j /\ t[i] = LineFeed /\ \A k \in i + 1 .. j : IsPromptChar(t[k])
  BY DEF Prompts
<1>5. SUFFICES ASSUME i # j PROVE FALSE
  OBVIOUS
<1>6. j # Len(data)
  BY <1>3 DEF PromptEnd
<1>7. /\ i \in 1 .. Len(data) /\ j + 1 \in 1 .. Len(data) /\ i + 1 < j + 1 /\ (j + 1) - 1 = j
      /\ \A k \in i + 1 .. j : k \in 1 .. Len(data)
  BY <1>2, <1>4, <1>5, <1>6, <1>3
<1>8. data[i] = LineFeed /\ data[j + 1] = PromptEnd /\ \A k \in i + 1 .. j : IsPromptChar(data[k])
  BY <1>4, <1>7, <1>3
<1> QED
  BY <1>2, <1>7, <1>8, Zenon

\* A reply begins with its kind, and its prompt ends it.
LEMMA ReplyEnds ==
  ASSUME NEW message, IsReply(message), NEW t, IsText(t, message.data)
  PROVE  /\ Leads(Holder("AfterR", <<>>), message.kind, ReplyState(message.kind, t, 0), <<>>)
         /\ Leads(ReplyState(message.kind, t, Len(t)), PromptEnd, WireIdle, <<message>>)
<1> DEFINE kind == message.kind
<1>1. PICK data : data = message.data
  OBVIOUS
<1>2. PICK n : n = Len(data)
  OBVIOUS
<1>3. /\ n = Len(data) /\ t \in Seq(Byte) /\ Len(t) = Len(data) + 1 /\ t[Len(data) + 1] = 67
      /\ \A i \in 1 .. Len(data) : t[i] = data[i]
  BY <1>1, <1>2, Zenon DEF IsText
<1>4. /\ data \in Seq(Byte) /\ n \in Nat /\ 0 < n /\ data[n] = LineFeed /\ kind \in ReplyKinds
      /\ message = [type |-> "reply", kind |-> kind, data |-> data]
  BY <1>1, <1>2, ReplyParts
<1> HIDE DEF kind
<1>5. Leads(Holder("AfterR", <<>>), kind, ReplyState(kind, t, 0), <<>>)
  <2>1. ReplyState(kind, t, 0) = ReplyHolder(kind, <<>>, 0)
    <3>1. Prefix(t, 0) = <<>> /\ PromptAfter(t, 0) = 0
      BY <1>3, PrefixGrows, PromptSteps
    <3> QED BY <3>1 DEF ReplyState
  <2>2. WireFeed(Holder("AfterR", <<>>), kind, FALSE) = AfterRByte(kind)
    BY HolderFeeds
  <2>3. AfterRByte(kind) = [Hold("ReplyBody", <<>>) EXCEPT !.parser.kind = kind]
    BY <1>4, Zenon DEF AfterRByte
  <2>4. [Hold("ReplyBody", <<>>) EXCEPT !.parser.kind = kind] =
          [parser |-> ReplyHolder(kind, <<>>, 0), out |-> <<>>]
    <3>1. PICK idle : idle = [WireIdle EXCEPT !.state = "ReplyBody"]
      OBVIOUS
    <3>2. idle = ReplyHolder(0, <<>>, 0)
      BY <3>1 DEF WireIdle, ReplyHolder
    <3>3. [idle EXCEPT !.held = <<>>] = ReplyHolder(0, <<>>, 0)
      BY <3>2 DEF ReplyHolder
    <3>4. PICK r : r = ReplyHolder(0, <<>>, 0)
      OBVIOUS
    <3>5. Hold("ReplyBody", <<>>) = [parser |-> r, out |-> <<>>]
      BY <3>1, <3>3, <3>4, Zenon DEF Hold
    <3>6. [[parser |-> r, out |-> <<>>] EXCEPT !.parser.kind = kind] =
            [parser |-> [r EXCEPT !.kind = kind], out |-> <<>>]
      OBVIOUS
    <3>7. [r EXCEPT !.kind = kind] = ReplyHolder(kind, <<>>, 0)
      BY <3>4 DEF ReplyHolder
    <3> QED BY <3>5, <3>6, <3>7, Zenon
  <2> QED BY <2>1, <2>2, <2>3, <2>4, Zenon DEF Leads
<1>6. Leads(ReplyState(kind, t, n + 1), PromptEnd, WireIdle, <<message>>)
  <2>1. PromptAfter(t, n + 1) = n
    <3>1. PICK m : m = n - 1
      OBVIOUS
    <3>2. m \in Nat /\ m + 1 = n /\ t[n] = LineFeed /\ t[n + 1] = 67
      BY <1>3, <1>4, <3>1
    <3>3. PromptAfter(t, m + 1) = m + 1
      BY <3>2, PromptSteps
    <3>4. t[n + 1] # LineFeed /\ IsPromptChar(t[n + 1])
      BY <3>2 DEF LineFeed, IsPromptChar
    <3> QED BY <1>4, <3>2, <3>3, <3>4, PromptSteps
  <2>2. Prefix(t, n + 1) = t
    BY <1>3, PrefixGrows
  <2>3. SubSeq(t, 1, n) = data
    <3>1. 0 + Len(data) <= Len(t) /\ \A i \in 1 .. Len(data) : t[0 + i] = data[i]
      BY <1>3, <1>4
    <3>2. SubSeq(t, 0 + 1, 0 + Len(data)) = data
      BY <1>4, <3>1, SubSeqIs, 0 \in Nat
    <3> QED BY <1>3, <1>4, <3>2
  <2>4. PICK p : p = ReplyState(kind, t, n + 1)
    OBVIOUS
  <2>5. p = ReplyHolder(kind, t, n)
    BY <2>1, <2>2, <2>4 DEF ReplyState
  <2>6. p.state = "ReplyBody" /\ p.held = t /\ p.kind = kind /\ p.promptAt = n
    BY <2>5 DEF ReplyHolder
  <2>7. WireFeed(p, PromptEnd, FALSE) = ReplyByte(p, PromptEnd)
    BY <2>6, FeedBy, Zenon
  <2>8. p.promptAt # 0 /\ Len(p.held) > p.promptAt
    BY <1>3, <1>4, <2>6
  <2>9. ReplyByte(p, PromptEnd) =
          Finished([type |-> "reply", kind |-> p.kind, data |-> SubSeq(p.held, 1, p.promptAt)])
    BY <2>8, Zenon DEF ReplyByte
  <2>10. ReplyByte(p, PromptEnd) = Finished(message)
    BY <1>4, <2>3, <2>6, <2>9, Zenon
  <2> QED BY <2>4, <2>7, <2>10, HoldLeads, Zenon
<1>7. Len(t) = n + 1
  BY <1>3
<1> QED
  BY <1>5, <1>6, <1>7, Zenon DEF kind

\* What it holds of a reply after k bytes of all.
ReplyStateAt(kind, t, k) ==
  IF k = 0 \/ k = Len(t) + 4 THEN WireIdle
  ELSE IF k = 1 THEN Holder("AfterDollar", <<>>)
  ELSE IF k = 2 THEN Holder("AfterR", <<>>)
  ELSE ReplyState(kind, t, k - 3)

\* A reply is taken to its end.
LEMMA ReplyCourse ==
  ASSUME NEW message, IsReply(message)
  PROVE  /\ ReplyEncode(message) \in Seq(Byte)
         /\ \E st, at : Course(ReplyEncode(message), message, st, at)
<1>1. PICK t : IsText(t, message.data) /\ ReplyParted(ReplyEncode(message), message.kind, t)
  BY ReplyIsMade
<1>2. PICK kind : kind = message.kind
  OBVIOUS
<1>3. PICK w : w = ReplyEncode(message)
  OBVIOUS
<1>4. PICK n : n = Len(message.data)
  OBVIOUS
<1>5. t \in Seq(Byte) /\ Len(t) = n + 1
  BY <1>1, <1>4, Zenon DEF IsText
<1>6. n \in Nat /\ 0 < n /\ n < MaxReply
  BY <1>4, ReplyParts
<1>7. /\ w \in Seq(Byte) /\ Len(w) = n + 5
      /\ w[1] = Dollar /\ w[2] = LetterR /\ w[3] = kind
      /\ \A j \in 0 .. n : w[j + 4] = t[j + 1]
      /\ w[n + 5] = PromptEnd
  <2>1. ReplyParted(w, kind, t)
    BY <1>1, <1>2, <1>3, Zenon
  <2> QED BY <1>5, <1>6, <2>1 DEF ReplyParted
<1> DEFINE st == [k \in 0 .. n + 5 |-> ReplyStateAt(kind, t, k)]
<1>8. ASSUME NEW k \in 0 .. n + 4
      PROVE  Leads(st[k], w[k + 1], st[k + 1], IF k + 1 = n + 5 THEN <<message>> ELSE <<>>)
  <2>1. PICK x : x = ReplyStateAt(kind, t, k)
    OBVIOUS
  <2>2. PICK y : y = ReplyStateAt(kind, t, k + 1)
    OBVIOUS
  <2>3. st[k] = x /\ st[k + 1] = y
    BY <1>6, <2>1, <2>2
  <2> HIDE DEF st
  <2>4. PICK out : out = IF k + 1 = n + 5 THEN <<message>> ELSE <<>>
    OBVIOUS
  <2>5. SUFFICES Leads(x, w[k + 1], y, out)
    BY <2>3, <2>4, Zenon
  <2>6. CASE k = 0
    <3>1. x = WireIdle /\ y = Holder("AfterDollar", <<>>) /\ out = <<>> /\ w[k + 1] = Dollar
      BY <1>5, <1>6, <1>7, <2>1, <2>2, <2>4, <2>6 DEF ReplyStateAt
    <3> QED BY <3>1, FirstBytes, Zenon
  <2>7. CASE k = 1
    <3>1. x = Holder("AfterDollar", <<>>) /\ y = Holder("AfterR", <<>>) /\ out = <<>>
      BY <1>5, <1>6, <1>7, <2>1, <2>2, <2>4, <2>7 DEF ReplyStateAt
    <3>2. w[k + 1] = LetterR
      BY <1>7, <2>7
    <3> QED BY <3>1, <3>2, FirstBytes, Zenon
  <2>8. CASE k = 2
    <3>1. x = Holder("AfterR", <<>>) /\ y = ReplyState(kind, t, 0) /\ out = <<>>
      BY <1>5, <1>6, <1>7, <2>1, <2>2, <2>4, <2>8 DEF ReplyStateAt
    <3>2. w[k + 1] = kind
      BY <1>7, <2>8
    <3>3. Leads(Holder("AfterR", <<>>), kind, ReplyState(kind, t, 0), <<>>)
      BY <1>1, <1>2, ReplyEnds, Zenon
    <3> QED BY <3>1, <3>2, <3>3, Zenon
  <2>9. CASE k \in 3 .. n + 3
    <3>1. PICK j : j = k - 3
      OBVIOUS
    <3>2. j \in 0 .. n /\ k = j + 3 /\ k + 1 = j + 4
      BY <1>6, <2>9, <3>1
    <3>3. x = ReplyState(kind, t, j) /\ y = ReplyState(kind, t, j + 1) /\ out = <<>>
      <4>1. k - 3 = j /\ (k + 1) - 3 = j + 1 /\ k # 0 /\ k # 1 /\ k # 2 /\ k # n + 5
            /\ k + 1 # 0 /\ k + 1 # 1 /\ k + 1 # 2 /\ k + 1 # n + 5 /\ Len(t) + 4 = n + 5
        BY <1>5, <1>6, <3>1, <3>2
      <4> QED BY <2>1, <2>2, <2>4, <4>1 DEF ReplyStateAt
    <3>4. w[k + 1] = t[j + 1]
      BY <1>7, <3>2
    <3>5. ASSUME NEW i \in Prompts(t, j), t[j + 1] = PromptEnd PROVE i = j
      <4>1. j \in 0 .. Len(t) - 1
        BY <1>5, <1>6, <3>2
      <4> QED BY <1>1, <3>5, <4>1, NoEarlyPrompt, Zenon
    <3>6. j \in 0 .. Len(t) - 1 /\ j < MaxReply
      BY <1>5, <1>6, <3>2, WireAssumption
    <3>7. Leads(ReplyState(kind, t, j), t[j + 1], ReplyState(kind, t, j + 1), <<>>)
      BY <1>5, <3>5, <3>6, ReplyGrows
    <3> QED BY <3>3, <3>4, <3>7, Zenon
  <2>10. CASE k = n + 4
    <3>1. x = ReplyState(kind, t, n + 1) /\ y = WireIdle /\ out = <<message>>
      <4>1. k - 3 = n + 1 /\ k # 0 /\ k # 1 /\ k # 2 /\ k # n + 5 /\ k + 1 = n + 5
            /\ Len(t) + 4 = n + 5
        BY <1>5, <1>6, <2>10
      <4> QED BY <2>1, <2>2, <2>4, <4>1 DEF ReplyStateAt
    <3>2. w[k + 1] = PromptEnd
      BY <1>6, <1>7, <2>10
    <3>3. Leads(ReplyState(kind, t, n + 1), PromptEnd, WireIdle, <<message>>)
      BY <1>1, <1>2, <1>5, ReplyEnds, Zenon
    <3> QED BY <3>1, <3>2, <3>3, Zenon
  <2>11. k = 0 \/ k = 1 \/ k = 2 \/ k \in 3 .. n + 3 \/ k = n + 4
    BY <1>6
  <2> QED BY <2>6, <2>7, <2>8, <2>9, <2>10, <2>11, Zenon
<1>9. st[0] = WireIdle /\ st[n + 5] = WireIdle
  BY <1>5, <1>6 DEF ReplyStateAt
<1> HIDE DEF st
<1>10. Course(w, message, st, n + 5)
  <2>1. n + 5 \in 1 .. Len(w) /\ st[Len(w)] = WireIdle
    BY <1>6, <1>7, <1>9
  <2>2. \A k \in 0 .. Len(w) - 1 :
          Leads(st[k], w[k + 1], st[k + 1], IF k + 1 = n + 5 THEN <<message>> ELSE <<>>)
    <3>1. Len(w) - 1 = n + 4
      BY <1>6, <1>7
    <3> QED BY <1>8, <3>1, Zenon
  <2> QED BY <1>9, <2>1, <2>2 DEF Course
<1> QED
  BY <1>3, <1>7, <1>10, Zenon

\* Every message the receiver sends takes the parser from idle to idle, and is what
\* it delivers on the way: WireEncode and feed agree on all three kinds.
THEOREM MessageCourse ==
  ASSUME NEW message \in Messages
  PROVE  /\ WireEncode(message) \in Seq(Byte) /\ WireEncode(message) # <<>>
         /\ \E st, at : Course(WireEncode(message), message, st, at)
<1>1. IsBlock(message) \/ IsSentence(message) \/ IsReply(message)
  BY MessageAssumption DEF IsMessage
<1>2. SUFFICES /\ WireEncode(message) \in Seq(Byte)
               /\ \E st, at : Course(WireEncode(message), message, st, at)
  <2>1. ASSUME NEW w \in Seq(Byte), NEW st, NEW at, Course(w, message, st, at) PROVE w # <<>>
    BY <2>1 DEF Course
  <2> QED BY <2>1, Zenon
<1>3. CASE IsBlock(message)
  <2>1. message.type = "sbf"
    <3>1. message \in [type : {"sbf"}, id : Nat, data : Seq(0 .. 255)]
      BY <1>3 DEF IsBlock
    <3> QED BY <3>1
  <2>2. WireEncode(message) = SbfEncode(message)
    BY <2>1 DEF WireEncode
  <2> QED BY <1>3, <2>2, BlockCourse, Zenon
<1>4. CASE IsSentence(message)
  <2>1. message.type = "nmea"
    <3>1. message \in [type : {"nmea"}, data : Seq(0 .. 255)]
      BY <1>4 DEF IsSentence
    <3> QED BY <3>1
  <2>2. WireEncode(message) = NmeaEncode(message)
    BY <2>1 DEF WireEncode
  <2> QED BY <1>4, <2>2, SentenceCourse, Zenon
<1>5. CASE IsReply(message)
  <2>1. message.type = "reply"
    <3>1. message \in [type : {"reply"}, kind : ReplyKinds, data : Seq(0 .. 255)]
      BY <1>5 DEF IsReply
    <3> QED BY <3>1
  <2>2. WireEncode(message) = ReplyEncode(message)
    BY <2>1 DEF WireEncode
  <2> QED BY <1>5, <2>2, ReplyCourse, Zenon
<1> QED
  BY <1>1, <1>3, <1>4, <1>5

-----------------------------------------------------------------------------
(* What the receiver's parser may hold and deliver.                        *)
\* Those of a sentence.
NmeaStates == {"NmeaBody", "NmeaChecksumHi", "NmeaChecksumLo"}
\* The states of the parser's machine.
WireStates == {"Idle", "AfterDollar", "AfterR", "SbfHeader", "SbfBody", "ReplyBody"} \cup NmeaStates

\* What each state may hold: the buffers of the code.
Fits(state, held) ==
  /\ state = "SbfHeader" => Len(held) <= 5
  /\ state = "SbfBody" => Len(held) >= 6 /\ Len(held) + 2 < SbfLength(held)
                                  /\ SbfLength(held) <= HeaderLen + MaxBody
  /\ state \in NmeaStates => Len(held) <= MaxSentence
  /\ state = "ReplyBody" => Len(held) <= MaxReply
  /\ state \in {"Idle", "AfterDollar", "AfterR"} => held = <<>>

\* The states of the parser.
WireParserState ==
  {p \in [state : WireStates, held : Seq(Byte), kind : {0} \cup ReplyKinds, promptAt : Nat,
          high : Int] :
     p.promptAt <= Len(p.held) /\ Fits(p.state, p.held)}

\* What it may deliver.
Outs ==
  [type : {"sbf"}, id : Nat, data : Seq(Byte)] \cup [type : {"nmea"}, data : Seq(Byte)]
    \cup [type : {"reply"}, kind : {0} \cup ReplyKinds, data : Seq(Byte)]

\* A byte leaves a parser state and delivers at most one message.
Sound(fed) == fed.parser \in WireParserState /\ (fed.out = <<>> \/ \E m \in Outs : fed.out = <<m>>)

\* The sizes of the buffers.
LEMMA BufferSizes == MaxBody \in Nat /\ MaxSentence \in Nat /\ MaxSentence >= 1 /\ MaxReply \in Nat
BY WireAssumption

\* What fits, state by state.
LEMMA FitsBy ==
  ASSUME NEW held \in Seq(Byte)
  PROVE  /\ Fits("SbfHeader", held) <=> Len(held) <= 5
         /\ Fits("SbfBody", held) <=> /\ Len(held) >= 6 /\ Len(held) + 2 < SbfLength(held)
                                     /\ SbfLength(held) <= HeaderLen + MaxBody
         /\ \A state \in NmeaStates : Fits(state, held) <=> Len(held) <= MaxSentence
         /\ Fits("ReplyBody", held) <=> Len(held) <= MaxReply
         /\ \A state \in {"Idle", "AfterDollar", "AfterR"} : Fits(state, held) <=> held = <<>>
BY DEF Fits, NmeaStates

\* The bytes of a sequence are numbers.
LEMMA BytesAre == ASSUME NEW s \in Seq(Byte) PROVE \A i \in 1 .. Len(s) : s[i] \in Nat
<1>1. \A b \in Byte : b \in Nat
  BY DEF Byte
<1> QED
  BY <1>1

\* Hold leaves a parser state.
LEMMA HoldSound ==
  ASSUME NEW state \in WireStates, NEW held \in Seq(Byte), Fits(state, held)
  PROVE  Sound(Hold(state, held))
<1>1. /\ Hold(state, held).parser = [state |-> state, held |-> held, kind |-> 0, promptAt |-> 0,
                                     high |-> 0]
      /\ Hold(state, held).out = <<>>
  BY DEF Hold, WireIdle
<1>2. Len(held) \in Nat
  OBVIOUS
<1> QED
  BY <1>1, <1>2 DEF Sound, WireParserState

\* So do Dropped and Finished.
LEMMA EndSound == Sound(Dropped) /\ \A m \in Outs : Sound(Finished(m))
<1>1. WireIdle \in WireParserState
  <2>1. Fits("Idle", <<>>) /\ <<>> \in Seq(Byte) /\ Len(<<>>) = 0
    BY DEF Fits, NmeaStates
  <2> QED BY <2>1 DEF WireIdle, WireParserState, WireStates
<1> QED
  BY <1>1, IdleIs DEF Sound, Dropped, Finished

\* A block whose CRC is compared.
LEMMA VerifySound ==
  ASSUME NEW held \in Seq(Byte), Len(held) >= 6 PROVE Sound(SbfVerify(held))
<1> DEFINE m == [type |-> "sbf", id |-> held[3] + 256 * held[4], data |-> SubSeq(held, 7, Len(held))]
<1>1. held[3] \in Nat /\ held[4] \in Nat
  BY BytesAre
<1>2. SubSeq(held, 7, Len(held)) \in Seq(Byte)
  OBVIOUS
<1>3. m \in Outs
  BY <1>1, <1>2 DEF Outs
<1> QED
  BY <1>3, EndSound DEF SbfVerify

\* The bytes of a block.
LEMMA SbfSound ==
  ASSUME NEW held \in Seq(Byte), NEW byte \in Byte
  PROVE  /\ Fits("SbfHeader", held) => Sound(SbfHeaderByte(held, byte))
         /\ Fits("SbfBody", held) => Sound(SbfBodyByte(held, byte))
<1>1. PICK more : more = Append(held, byte)
  OBVIOUS
<1>2. /\ more \in Seq(Byte) /\ Len(more) = Len(held) + 1 /\ Len(held) \in Nat
      /\ \A i \in 1 .. Len(held) : more[i] = held[i]
  BY <1>1
<1> DEFINE n == Len(held)
<1>3. n \in Nat /\ Len(more) = n + 1
  BY <1>2
<1> HIDE DEF n
<1>4. ASSUME Fits("SbfHeader", held) PROVE Sound(SbfHeaderByte(held, byte))
  <2>1. Len(held) <= 5
    BY <1>4 DEF Fits
  <2>2. CASE Len(held) = 5
    <3>1. Len(more) = 6
      BY <1>2, <2>2
    <3>2. more[5] \in Nat /\ more[6] \in Nat
      BY <1>2, <3>1, BytesAre
    <3>3. Sound(SbfVerify(more))
      <4>1. Len(more) >= 6
        BY <3>1
      <4> QED BY <1>2, <4>1, VerifySound
    <3>4. ASSUME ~ (SbfLength(more) < HeaderLen), ~ (SbfLength(more) > HeaderLen + MaxBody),
                 SbfLength(more) # HeaderLen
          PROVE  Sound(Hold("SbfBody", more))
      <4>1. SbfLength(more) \in Nat
        BY <3>2 DEF SbfLength
      <4>2. Fits("SbfBody", more)
        <5>1. /\ Len(more) >= 6 /\ Len(more) + 2 < SbfLength(more)
              /\ SbfLength(more) <= HeaderLen + MaxBody
          BY <3>1, <3>4, <4>1, BufferSizes DEF HeaderLen
        <5> QED BY <1>2, <5>1, FitsBy, Zenon
      <4> QED BY <1>2, <4>2, HoldSound DEF WireStates
    <3>5. Sound(SbfEnterBody(more))
      BY <3>3, <3>4, EndSound DEF SbfEnterBody
    <3> QED BY <1>1, <2>2, <3>5 DEF SbfHeaderByte
  <2>3. CASE Len(held) # 5
    <3>1. Fits("SbfHeader", more)
      <4>1. Len(more) <= 5
        <5>1. n <= 5 /\ n # 5
          BY <2>1, <2>3 DEF n
        <5> QED BY <1>3, <5>1
      <4> QED BY <1>2, <4>1, FitsBy, Zenon
    <3>2. Sound(Hold("SbfHeader", more))
      BY <1>2, <3>1, HoldSound DEF WireStates
    <3> QED BY <1>1, <2>3, <3>2 DEF SbfHeaderByte
  <2> QED BY <2>2, <2>3
<1>5. ASSUME Fits("SbfBody", held) PROVE Sound(SbfBodyByte(held, byte))
  <2>1. /\ Len(held) >= 6 /\ Len(held) + 2 < SbfLength(held)
        /\ SbfLength(held) <= HeaderLen + MaxBody
    BY <1>5 DEF Fits
  <2>2. held[5] \in Nat /\ held[6] \in Nat
    BY <2>1, BytesAre
  <2>3. SbfLength(held) \in Nat /\ SbfLength(more) = SbfLength(held)
    BY <1>2, <2>1, <2>2 DEF SbfLength
  <2>4. Sound(SbfVerify(more))
    BY <1>2, <2>1, VerifySound
  <2>5. CASE Len(held) + 1 = SbfLength(held) - 2
    BY <1>1, <2>4, <2>5 DEF SbfBodyByte
  <2>6. CASE Len(held) + 1 # SbfLength(held) - 2
    <3>1. Fits("SbfBody", more)
      BY <1>2, <2>1, <2>3, <2>6, BufferSizes, FitsBy DEF HeaderLen
    <3>2. Sound(Hold("SbfBody", more))
      BY <1>2, <3>1, HoldSound DEF WireStates
    <3> QED BY <1>1, <2>6, <3>2 DEF SbfBodyByte
  <2> QED BY <2>5, <2>6
<1> QED
  BY <1>4, <1>5

\* The bytes of a sentence.
LEMMA NmeaSound ==
  ASSUME NEW held \in Seq(Byte), Len(held) <= MaxSentence, NEW byte \in Byte
  PROVE  /\ Sound(NmeaByte(held, byte))
         /\ Sound(ChecksumHiByte(held, byte))
         /\ \A high : Sound(ChecksumLoByte(held, high, byte))
<1>1. PICK more : more = Append(held, byte)
  OBVIOUS
<1> DEFINE n == Len(held)
<1>2. more \in Seq(Byte) /\ Len(more) = n + 1 /\ n \in Nat /\ n <= MaxSentence
  BY <1>1
<1> HIDE DEF n
<1>3. ASSUME NEW state \in NmeaStates PROVE Sound(Hold(state, held))
  <2>1. state \in WireStates
    BY DEF WireStates
  <2>2. Fits(state, held)
    BY FitsBy, Zenon
  <2> QED BY <2>1, <2>2, HoldSound
<1>4. n < MaxSentence => Sound(Hold("NmeaBody", more))
  <2> SUFFICES ASSUME n < MaxSentence PROVE Sound(Hold("NmeaBody", more))
    OBVIOUS
  <2>1. Len(more) <= MaxSentence
    BY <1>2, BufferSizes
  <2>2. "NmeaBody" \in NmeaStates /\ "NmeaBody" \in WireStates
    BY DEF NmeaStates, WireStates
  <2>3. Fits("NmeaBody", more)
    BY <1>2, <2>1, <2>2, FitsBy, Zenon
  <2> QED BY <1>2, <2>2, <2>3, HoldSound
<1>5. Sound(Hold("AfterDollar", <<>>))
  <2>1. Fits("AfterDollar", <<>>) /\ <<>> \in Seq(Byte)
    BY DEF Fits, NmeaStates
  <2> QED BY <2>1, HoldSound DEF WireStates
<1>6. Sound(NmeaByte(held, byte))
  <2>1. CASE byte = Dollar
    BY <1>5, <2>1 DEF NmeaByte
  <2>2. CASE byte # Dollar /\ byte = Star
    BY <1>3, <2>2 DEF NmeaByte, NmeaStates
  <2>3. CASE byte # Dollar /\ byte # Star /\ (byte \in {CarriageReturn, LineFeed} \/ n >= MaxSentence)
    BY <2>3, EndSound DEF NmeaByte, n
  <2>4. CASE byte # Dollar /\ byte # Star /\ ~ (byte \in {CarriageReturn, LineFeed} \/ n >= MaxSentence)
    <3>1. n < MaxSentence
      BY <1>2, <2>4, BufferSizes
    <3>2. NmeaByte(held, byte) = Hold("NmeaBody", more)
      BY <1>1, <2>4 DEF NmeaByte, n
    <3> QED BY <1>4, <3>1, <3>2
  <2> QED BY <2>1, <2>2, <2>3, <2>4
<1>7. Sound(ChecksumHiByte(held, byte))
  <2>1. CASE HexToNibble(byte) < 0
    BY <2>1, EndSound DEF ChecksumHiByte
  <2>2. CASE ~ (HexToNibble(byte) < 0)
    <3>1. PICK nibble : nibble = HexToNibble(byte)
      OBVIOUS
    <3>2. nibble \in Int
      BY <3>1, SMTT(30) DEF HexToNibble, Byte
    <3>3. PICK h : h = Hold("NmeaChecksumLo", held)
      OBVIOUS
    <3>4. h.parser \in WireParserState /\ h = [parser |-> h.parser, out |-> <<>>] /\ IsParser(h.parser)
      <4>1. Sound(h)
        BY <1>3, <3>3 DEF NmeaStates
      <4> QED BY <3>3, <4>1, HoldIs DEF Sound
    <3>5. ChecksumHiByte(held, byte) = [h EXCEPT !.parser.high = nibble]
      BY <2>2, <3>1, <3>3 DEF ChecksumHiByte
    <3>6. [h EXCEPT !.parser.high = nibble] = [parser |-> [h.parser EXCEPT !.high = nibble], out |-> <<>>]
      BY <3>4
    <3>7. [h.parser EXCEPT !.high = nibble] \in WireParserState
      BY <3>2, <3>4 DEF WireParserState
    <3> QED BY <3>5, <3>6, <3>7 DEF Sound
  <2> QED BY <2>1, <2>2
<1>8. ASSUME NEW high PROVE Sound(ChecksumLoByte(held, high, byte))
  <2>1. [type |-> "nmea", data |-> held] \in Outs
    BY DEF Outs
  <2> QED BY <2>1, EndSound DEF ChecksumLoByte
<1> QED
  BY <1>6, <1>7, <1>8

\* The bytes of a reply.
LEMMA ReplySound ==
  ASSUME NEW p \in WireParserState, p.state = "ReplyBody", NEW byte \in Byte
  PROVE  Sound(ReplyByte(p, byte))
<1>1. /\ p \in [state : WireStates, held : Seq(Byte), kind : {0} \cup ReplyKinds, promptAt : Nat,
               high : Int]
      /\ p.promptAt <= Len(p.held) /\ Fits(p.state, p.held)
  BY DEF WireParserState
<1>2. PICK held \in Seq(Byte) : held = p.held
  BY <1>1
<1>3. PICK more : more = Append(held, byte)
  OBVIOUS
<1> DEFINE n == Len(held)
<1>4. more \in Seq(Byte) /\ Len(more) = n + 1 /\ n \in Nat
  BY <1>3
<1> HIDE DEF n
<1>5. CASE p.promptAt # 0 /\ byte = PromptEnd /\ Len(p.held) > p.promptAt
  <2>1. PICK m : m = [type |-> "reply", kind |-> p.kind, data |-> SubSeq(p.held, 1, p.promptAt)]
    OBVIOUS
  <2>2. SubSeq(p.held, 1, p.promptAt) \in Seq(Byte)
    BY <1>1
  <2>3. m \in Outs
    BY <1>1, <2>1, <2>2 DEF Outs
  <2>4. ReplyByte(p, byte) = Finished(m)
    BY <1>5, <2>1 DEF ReplyByte
  <2> QED BY <2>3, <2>4, EndSound
<1>6. CASE ~ (p.promptAt # 0 /\ byte = PromptEnd /\ Len(p.held) > p.promptAt) /\ n >= MaxReply
  <2>1. ReplyByte(p, byte) = Dropped
    BY <1>2, <1>6 DEF ReplyByte, n
  <2> QED BY <2>1, EndSound
<1>7. CASE ~ (p.promptAt # 0 /\ byte = PromptEnd /\ Len(p.held) > p.promptAt) /\ ~ (n >= MaxReply)
  <2>1. PICK at : at = IF byte = LineFeed THEN n + 1 ELSE IF IsPromptChar(byte) THEN p.promptAt ELSE 0
    OBVIOUS
  <2>2. at \in Nat /\ at <= n + 1
    BY <1>1, <1>2, <1>4, <2>1 DEF n
  <2>3. PICK q : q = [p EXCEPT !.held = more, !.promptAt = at]
    OBVIOUS
  <2>4. ReplyByte(p, byte) = [parser |-> q, out |-> <<>>]
    BY <1>2, <1>3, <1>7, <2>1, <2>3 DEF ReplyByte, n
  <2>5. Fits("ReplyBody", more)
    <3>1. Len(more) <= MaxReply
      BY <1>4, <1>7, BufferSizes
    <3> QED BY <1>4, <3>1, FitsBy, Zenon
  <2>6. q \in [state : WireStates, held : Seq(Byte), kind : {0} \cup ReplyKinds, promptAt : Nat,
             high : Int]
    BY <1>1, <1>4, <2>2, <2>3
  <2>7. q.state = "ReplyBody" /\ q.held = more /\ q.promptAt = at
    BY <1>1, <2>3
  <2>8. q \in WireParserState
    BY <1>4, <2>2, <2>5, <2>6, <2>7 DEF WireParserState
  <2> QED BY <2>4, <2>8 DEF Sound
<1> QED
  BY <1>5, <1>6, <1>7

\* Every byte leaves a parser state and delivers at most one message.
LEMMA WireFeedSound ==
  ASSUME NEW p \in WireParserState, NEW byte \in Byte
  PROVE  Sound(WireFeed(p, byte, FALSE))
<1>1. /\ p.state \in WireStates /\ p.held \in Seq(Byte) /\ Fits(p.state, p.held)
  BY DEF WireParserState
<1>2. Sound(Hold("AfterDollar", <<>>)) /\ Sound(Hold("AfterR", <<>>)) /\ Sound(Hold("SbfHeader", <<>>))
  <2>1. /\ Fits("AfterDollar", <<>>) /\ Fits("AfterR", <<>>) /\ Fits("SbfHeader", <<>>)
        /\ <<>> \in Seq(Byte)
    BY DEF Fits, NmeaStates
  <2> QED BY <2>1, HoldSound DEF WireStates
<1>3. CASE p.state = "Idle"
  BY <1>2, <1>3, FeedBy, EndSound
<1>4. CASE p.state = "AfterDollar"
  <2>1. Sound(NmeaByte(<<>>, byte))
    <3>1. <<>> \in Seq(Byte) /\ Len(<<>>) <= MaxSentence
      BY BufferSizes
    <3> QED BY <3>1, NmeaSound
  <2>2. Sound(AfterDollarByte(byte))
    BY <1>2, <2>1 DEF AfterDollarByte, Dollar, At, LetterR
  <2> QED BY <1>4, <2>2, FeedBy
<1>5. CASE p.state = "AfterR"
  <2>1. Sound(NmeaByte(<<LetterR>>, byte))
    <3>1. <<LetterR>> \in Seq(Byte) /\ Len(<<LetterR>>) <= MaxSentence
      BY BufferSizes DEF LetterR, Byte
    <3> QED BY <3>1, NmeaSound
  <2>2. byte \in ReplyKinds => Sound([Hold("ReplyBody", <<>>) EXCEPT !.parser.kind = byte])
    <3> SUFFICES ASSUME byte \in ReplyKinds
                 PROVE  Sound([Hold("ReplyBody", <<>>) EXCEPT !.parser.kind = byte])
      OBVIOUS
    <3>1. PICK h : h = Hold("ReplyBody", <<>>)
      OBVIOUS
    <3>2. Sound(h)
      <4>1. Fits("ReplyBody", <<>>) /\ <<>> \in Seq(Byte)
        BY BufferSizes DEF Fits, NmeaStates
      <4> QED BY <3>1, <4>1, HoldSound DEF WireStates
    <3>3. h.parser \in WireParserState /\ h = [parser |-> h.parser, out |-> <<>>] /\ IsParser(h.parser)
      BY <3>1, <3>2, HoldIs DEF Sound
    <3>4. [h EXCEPT !.parser.kind = byte] = [parser |-> [h.parser EXCEPT !.kind = byte], out |-> <<>>]
      BY <3>3
    <3>5. [h.parser EXCEPT !.kind = byte] \in WireParserState
      BY <3>3 DEF WireParserState
    <3> QED BY <3>1, <3>4, <3>5 DEF Sound
  <2>3. Sound(AfterRByte(byte))
    BY <2>1, <2>2 DEF AfterRByte
  <2> QED BY <1>5, <2>3, FeedBy
<1>6. CASE p.state \in {"SbfHeader", "SbfBody"}
  BY <1>1, <1>6, FeedBy, SbfSound
<1>7. CASE p.state \in NmeaStates
  <2>1. Len(p.held) <= MaxSentence
    BY <1>1, <1>7, FitsBy, Zenon
  <2>2. /\ Sound(NmeaByte(p.held, byte)) /\ Sound(ChecksumHiByte(p.held, byte))
        /\ Sound(ChecksumLoByte(p.held, p.high, byte))
    BY <1>1, <2>1, NmeaSound, Zenon
  <2>3. p.state = "NmeaBody" \/ p.state = "NmeaChecksumHi" \/ p.state = "NmeaChecksumLo"
    BY <1>7 DEF NmeaStates
  <2> QED BY <2>2, <2>3, FeedBy, Zenon
<1>8. CASE p.state = "ReplyBody"
  BY <1>8, FeedBy, ReplySound
<1> QED
  BY <1>1, <1>3, <1>4, <1>5, <1>6, <1>7, <1>8 DEF WireStates

\* A late byte comes to an idle parser.
LEMMA WireFeedLate ==
  ASSUME NEW p, NEW byte PROVE WireFeed(p, byte, TRUE) = WireFeed(WireIdle, byte, FALSE)
BY DEF WireFeed

\* The types of feed, late or not.
LEMMA WireFeedType ==
  ASSUME NEW p \in WireParserState, NEW byte \in Byte, NEW late \in BOOLEAN
  PROVE  /\ WireFeed(p, byte, late).parser \in WireParserState
         /\ WireFeed(p, byte, late).out \in Seq(Outs)
<1>1. WireIdle \in WireParserState
  BY EndSound, IdleIs DEF Sound, Dropped
<1>2. Sound(WireFeed(p, byte, late))
  <2>1. late = TRUE \/ late = FALSE
    OBVIOUS
  <2> QED BY <1>1, <2>1, WireFeedSound, WireFeedLate
<1>3. ASSUME NEW out, out = <<>> \/ \E m \in Outs : out = <<m>> PROVE out \in Seq(Outs)
  <2>1. \A m \in Outs : <<m>> \in Seq(Outs)
    OBVIOUS
  <2>2. <<>> \in Seq(Outs)
    OBVIOUS
  <2> QED BY <1>3, <2>1, <2>2, Zenon
<1> QED
  BY <1>2, <1>3 DEF Sound

-----------------------------------------------------------------------------
(* The invariant of the receiver's line.                                   *)

\* Type correctness of the receiver's line.
WireType ==
  /\ seq \in Byte /\ line \in Seq(Byte) /\ untouched \in BOOLEAN
  /\ parser \in WireParserState /\ sent \in Seq(Messages) /\ delivered \in Seq(Outs)
  /\ hurt \subseteq 1 .. Len(sent) /\ endLost \subseteq 1 .. Len(sent)
  /\ rested \subseteq 1 .. Len(sent)

\* After k bytes of the message on the line, in a line that has recovered, the
\* parser is in the state st[k] and has delivered the message if it is past at.
Follows(st, at, k) ==
  IF untouched THEN k = 0 /\ Current \notin rested /\ (SinceRest(Current) => parser = WireIdle)
  ELSE Current \notin hurt /\ SinceRest(Current) =>
         parser = st[k] /\ (k >= at => sent[Current] \in ToSet(delivered))

\* Without a fault everything sent is delivered, the message on the line from byte at on.
InOrder(at, k) ==
  faults = 0 => IF k >= at THEN delivered = sent ELSE sent = Append(delivered, sent[Current])

\* k of the bytes w of the message sent last have gone, and the rest is on the line.
OnLine(w, st, at, k) ==
  /\ w \in Seq(Byte) /\ k \in 0 .. Len(w) - 1 /\ line = SubSeq(w, k + 1, Len(w))
  /\ Course(w, sent[Current], st, at)

\* What is on the line is the rest of the message sent last.
WireLine ==
  line # <<>> =>
    /\ Current > 0 /\ Current \notin endLost
    /\ \E w, st, at, k : OnLine(w, st, at, k) /\ Follows(st, at, k) /\ InOrder(at, k)

\* Between messages the parser of a line that has recovered is idle.
WireAtRest ==
  /\ line = <<>> /\ (Current > 0 => Unhurt(Current) /\ SinceRest(Current)) => parser = WireIdle
  /\ faults \in Nat /\ (faults = 0 => hurt = {} /\ endLost = {} /\ (line = <<>> => delivered = sent))

\* The property for each message whose last byte has gone.
WireArrived ==
  \A i \in 1 .. Len(sent) :
    (i < Len(sent) \/ line = <<>>) /\ Unhurt(i) /\ SinceRest(i) => sent[i] \in ToSet(delivered)

\* The inductive invariant of the receiver's line.
WireInv == port = "gnss" /\ WireType /\ WireLine /\ WireAtRest /\ WireArrived

\* What every step with a byte has in common.
WireByteStep ==
  /\ line # <<>> /\ port' = port /\ sent' = sent /\ seq' = seq
  /\ untouched' = FALSE /\ parser' \in WireParserState
  /\ hurt \subseteq hurt' /\ hurt' \subseteq hurt \cup {Current}
  /\ endLost \subseteq endLost' /\ endLost' \subseteq endLost \cup {Current}
  /\ rested \subseteq rested' /\ rested' \subseteq rested \cup {Current}
  /\ \E out \in Seq(Outs) : delivered' = delivered \o out

\* Only what befalls the message on the line, or one before it, tells whether the
\* line has recovered.
LEMMA SinceRestStays ==
  ASSUME WireInv, WireByteStep
  PROVE  /\ \A i \in 1 .. Len(sent) : i < Current /\ SinceRest(i)' => SinceRest(i)
         /\ Current \notin rested' /\ SinceRest(Current)' => SinceRest(Current)
<1>1. sent \in Seq(Messages) /\ Len(sent) \in Nat /\ Current = Len(sent) /\ Current' = Current
  BY DEF WireInv, WireType, WireByteStep, Current
<1>2. \A k : Unhurt(k)' => Unhurt(k)
  BY DEF Unhurt, WireByteStep
<1>3. ASSUME NEW i \in 1 .. Len(sent), i < Current \/ Current \notin rested', SinceRest(i)'
      PROVE  SinceRest(i)
  <2>1. PICK j \in 1 .. i : (j = 1 \/ j \in rested') /\ \A k \in j .. i - 1 : Unhurt(k)'
    BY <1>3 DEF SinceRest
  <2>2. j \in rested' => j \in rested
    BY <1>1, <1>3, <2>1 DEF WireByteStep
  <2> QED BY <1>2, <2>1, <2>2 DEF SinceRest
<1>4. ASSUME Current \notin rested', SinceRest(Current)' PROVE SinceRest(Current)
  <2>1. Current \in 1 .. Len(sent)
    BY <1>1 DEF WireInv, WireLine, WireByteStep
  <2>2. SinceRest(Current)'
    BY <1>4
  <2> QED BY <1>1, <1>3, <1>4, <2>1
<1> QED
  BY <1>3, <1>4

\* A byte step keeps the types, and disturbs no message but the one on the line.
LEMMA WireStays ==
  ASSUME WireInv, WireByteStep, line' \in Seq(Byte)
  PROVE  /\ WireType' /\ Current' = Current /\ Current \in 1 .. Len(sent)
         /\ \A i \in 1 .. Len(sent') :
              i # Current /\ Unhurt(i)' /\ SinceRest(i)' => sent'[i] \in ToSet(delivered')
<1>1. port = "gnss" /\ WireType /\ Current > 0
  BY DEF WireInv, WireLine, WireByteStep
<1>2. Len(sent) \in Nat /\ Current = Len(sent) /\ Current' = Current /\ sent' = sent
  BY <1>1 DEF WireType, Current, WireByteStep
<1>3. Current \in 1 .. Len(sent)
  BY <1>1, <1>2
<1>4. PICK out \in Seq(Outs) : delivered' = delivered \o out
  BY DEF WireByteStep
<1>5. delivered \in Seq(Outs) /\ delivered' \in Seq(Outs)
  BY <1>1, <1>4 DEF WireType
<1>6. WireType'
  BY <1>1, <1>2, <1>3, <1>5 DEF WireType, WireByteStep
<1>7. ASSUME NEW i \in 1 .. Len(sent), i # Current, Unhurt(i)', SinceRest(i)'
      PROVE  sent[i] \in ToSet(delivered')
  <2>1. Unhurt(i)
    BY <1>7 DEF Unhurt, WireByteStep
  <2>2. i < Len(sent) /\ SinceRest(i)
    BY <1>2, <1>7, SinceRestStays
  <2>3. sent[i] \in ToSet(delivered)
    BY <2>1, <2>2 DEF WireInv, WireArrived
  <2> QED BY <1>4, <1>5, <2>3, JoinedSet
<1> QED
  BY <1>2, <1>3, <1>6, <1>7

\* The rest of a message, byte by byte.
LEMMA RestOf ==
  ASSUME NEW w \in Seq(Byte), NEW k \in 0 .. Len(w) - 1, NEW l, l = SubSeq(w, k + 1, Len(w))
  PROVE  /\ l \in Seq(Byte) /\ l # <<>> /\ Head(l) = w[k + 1] /\ Len(l) = Len(w) - k
         /\ Tail(l) = SubSeq(w, (k + 1) + 1, Len(w))
         /\ Tail(l) = <<>> <=> k + 1 = Len(w)
<1> DEFINE n == Len(w)
<1>1. n \in Nat /\ k \in 0 .. n - 1
  OBVIOUS
<1>2. l \in Seq(Byte) /\ Len(l) = n - k /\ \A i \in 1 .. n - k : l[i] = w[k + i]
  OBVIOUS
<1> DEFINE r == SubSeq(w, (k + 1) + 1, n)
<1>3. r \in Seq(Byte) /\ Len(r) = n - (k + 1) /\ \A i \in 1 .. n - (k + 1) : r[i] = w[k + 1 + i]
  OBVIOUS
<1> HIDE DEF n, r
<1>4. l # <<>> /\ Head(l) = w[k + 1]
  <2>1. 1 \in 1 .. n - k
    BY <1>1
  <2>2. l[1] = w[k + 1] /\ Len(l) >= 1
    BY <1>1, <1>2, <2>1
  <2>3. l # <<>> /\ Head(l) = l[1]
    BY <1>2, <2>2
  <2> QED BY <2>2, <2>3
<1> DEFINE q == Tail(l)
<1>5. q \in Seq(Byte) /\ Len(q) = n - (k + 1) /\ \A i \in 1 .. n - (k + 1) : q[i] = w[k + 1 + i]
  <2>1. q \in Seq(Byte) /\ Len(q) = Len(l) - 1 /\ \A i \in 1 .. Len(l) - 1 : q[i] = l[i + 1]
    BY <1>2, <1>4
  <2> HIDE DEF q
  <2>2. Len(l) - 1 = n - (k + 1)
    BY <1>1, <1>2
  <2>3. \A i \in 1 .. n - (k + 1) : i + 1 \in 1 .. n - k /\ k + (i + 1) = k + 1 + i
    BY <1>1
  <2> QED BY <1>2, <2>1, <2>2, <2>3
<1> HIDE DEF q
<1>6. q = r
  <2>1. Len(q) = Len(r) /\ \A i \in 1 .. Len(q) : q[i] = r[i]
    BY <1>3, <1>5
  <2> QED BY <1>3, <1>5, <2>1
<1>7. q = <<>> <=> k + 1 = n
  BY <1>1, <1>5
<1> QED
  BY <1>2, <1>4, <1>6, <1>7 DEF n, q, r

\* A step that hurts the message on the line.
WireHurts ==
  /\ WireByteStep /\ Fault /\ rested' = rested
  /\ \/ line' = Tail(line) /\ Harm
     \/ line' = line /\ hurt' = hurt \cup {Current} /\ endLost' = endLost

\* A step that hurts the message on the line keeps the invariant, whatever it
\* feeds the parser.
LEMMA WireHurtKeeps == ASSUME WireInv, WireHurts PROVE WireInv'
<1>1. /\ WireByteStep /\ line # <<>> /\ port' = port /\ sent' = sent /\ untouched' = FALSE
      /\ port = "gnss"
  BY DEF WireHurts, WireByteStep, WireInv
<1>2. /\ Current > 0 /\ Current \notin endLost
      /\ \E w, st, at, k : OnLine(w, st, at, k)
  BY <1>1 DEF WireInv, WireLine
<1>3. PICK w, st, at, k : OnLine(w, st, at, k)
  BY <1>2
<1>4. /\ w \in Seq(Byte) /\ k \in 0 .. Len(w) - 1 /\ line = SubSeq(w, k + 1, Len(w))
       /\ Course(w, sent[Current], st, at)
  BY <1>3 DEF OnLine
<1>5. /\ line \in Seq(Byte) /\ Len(line) = Len(w) - k
      /\ Tail(line) = SubSeq(w, (k + 1) + 1, Len(w)) /\ (Tail(line) = <<>> <=> k + 1 = Len(w))
  BY <1>4, RestOf
<1>6. Len(line) = 1 <=> k + 1 = Len(w)
  <2>1. Len(w) \in Nat
    OBVIOUS
  <2> QED BY <1>5, <1>4, <2>1
<1>7. line' \in Seq(Byte)
  BY <1>1, <1>5, LineBytes DEF WireHurts
<1>8. /\ WireType' /\ Current' = Current /\ Current \in 1 .. Len(sent)
      /\ \A i \in 1 .. Len(sent') :
           i # Current /\ Unhurt(i)' /\ SinceRest(i)' => sent'[i] \in ToSet(delivered')
  BY <1>1, <1>7, WireStays
<1>9. faults' \in Nat /\ faults' # 0
  BY DEF WireHurts, Fault, WireInv, WireAtRest
<1>10. Current \in hurt' \/ Current \in endLost'
  BY DEF WireHurts, Harm
<1>11. line' # <<>> => Current \in hurt' /\ Current \notin endLost'
  BY <1>1, <1>2, <1>5, <1>6 DEF WireHurts, Harm
<1>12. WireLine'
  <2> SUFFICES ASSUME line' # <<>> PROVE WireLine'
    BY DEF WireLine
  <2>1. PICK j \in 0 .. Len(w) - 1 : line' = SubSeq(w, j + 1, Len(w))
    <3>1. CASE line' = line
      BY <1>4, <3>1
    <3>2. CASE line' = Tail(line)
      <4>1. k + 1 # Len(w)
        BY <1>5, <3>2
      <4>2. k + 1 \in 0 .. Len(w) - 1
        BY <1>4, <4>1
      <4> QED BY <1>5, <3>2, <4>2
    <3> QED BY <3>1, <3>2 DEF WireHurts
  <2>2. Follows(st, at, j)'
    BY <1>1, <1>8, <1>11 DEF Follows
  <2>3. InOrder(at, j)'
    BY <1>9 DEF InOrder
  <2>4. OnLine(w, st, at, j)'
    BY <1>1, <1>8, <1>4, <2>1 DEF OnLine
  <2> QED BY <1>2, <1>8, <1>11, <2>1, <2>2, <2>3, <2>4 DEF WireLine
<1>13. WireAtRest'
  BY <1>2, <1>8, <1>9, <1>10 DEF WireAtRest, Unhurt
<1>14. WireArrived'
  <2>1. ASSUME NEW i \in 1 .. Len(sent'), Unhurt(i)', SinceRest(i)'
        PROVE  sent'[i] \in ToSet(delivered')
    <3>1. i # Current
      BY <1>10, <2>1 DEF Unhurt
    <3> QED BY <1>8, <2>1, <3>1
  <2> QED BY <2>1 DEF WireArrived
<1> QED
  BY <1>1, <1>8, <1>12, <1>13, <1>14 DEF WireInv

\* Feed is WireFeed on the receiver's line.
LEMMA WireFeedSteps ==
  ASSUME WireInv, NEW byte \in Byte, NEW late \in BOOLEAN, Feed(byte, late)
  PROVE  /\ parser' = WireFeed(parser, byte, late).parser
         /\ delivered' = delivered \o WireFeed(parser, byte, late).out
         /\ parser' \in WireParserState /\ WireFeed(parser, byte, late).out \in Seq(Outs)
<1>1. port = "gnss" /\ parser \in WireParserState
  BY DEF WireInv, WireType
<1>2. /\ parser' = WireFeed(parser, byte, late).parser
      /\ delivered' = delivered \o WireFeed(parser, byte, late).out
  BY <1>1 DEF Feed
<1> QED
  BY <1>1, <1>2, WireFeedType

\* The invariant under what the line does wrong.
LEMMA WireFaultKeeps ==
  ASSUME WireInv, ByteLost \/ ByteChanged \/ NoiseArrives PROVE WireInv'
<1>1. port = "gnss" /\ port \in Ports /\ WireType
  BY DEF WireInv, Ports
<1>2. \A byte \in Noise[port] : byte \in Byte
  BY <1>1, LinkAssumption DEF Byte
<1>3. CASE ByteLost
  <2>1. delivered' = delivered \o <<>> /\ <<>> \in Seq(Outs) /\ parser' \in WireParserState
    BY <1>1, <1>3, EmptyJoins DEF ByteLost, WireType
  <2>2. WireHurts
    BY <1>3, <2>1 DEF ByteLost, WireHurts, WireByteStep, Harm
  <2> QED BY <2>2, WireHurtKeeps
<1>4. CASE ByteChanged
  <2>1. PICK byte \in Noise[port] \ {Head(line)} : Feed(byte, FALSE)
    BY <1>4 DEF ByteChanged
  <2>2. /\ delivered' = delivered \o WireFeed(parser, byte, FALSE).out
        /\ parser' \in WireParserState /\ WireFeed(parser, byte, FALSE).out \in Seq(Outs)
    BY <1>2, <2>1, WireFeedSteps
  <2>3. WireHurts
    BY <1>4, <2>2 DEF ByteChanged, WireHurts, WireByteStep, Harm
  <2> QED BY <2>3, WireHurtKeeps
<1>5. CASE NoiseArrives
  <2>1. PICK byte \in Noise[port], late \in BOOLEAN : Feed(byte, late)
    BY <1>5 DEF NoiseArrives
  <2>2. /\ delivered' = delivered \o WireFeed(parser, byte, late).out
        /\ parser' \in WireParserState /\ WireFeed(parser, byte, late).out \in Seq(Outs)
    BY <1>2, <2>1, WireFeedSteps
  <2>3. WireHurts
    BY <1>5, <2>2 DEF NoiseArrives, WireHurts, WireByteStep
  <2> QED BY <2>3, WireHurtKeeps
<1> QED
  BY <1>3, <1>4, <1>5

\* The invariant under ByteArrives.
LEMMA WireArrivesKeeps == WireInv /\ ByteArrives => WireInv'
<1> SUFFICES ASSUME WireInv, ByteArrives PROVE WireInv'
  OBVIOUS
<1>1. /\ line # <<>> /\ port' = port /\ sent' = sent /\ seq' = seq /\ endLost' = endLost
      /\ line' = Tail(line) /\ untouched' = FALSE /\ port = "gnss" /\ WireType
  BY DEF ByteArrives, WireInv
<1>2. PICK late \in BOOLEAN :
        /\ Feed(Head(line), late)
        /\ IF late /\ ~untouched
             THEN Fault /\ hurt' = hurt \cup {Current}
             ELSE UNCHANGED <<faults, hurt>>
        /\ IF late /\ untouched THEN Rest ELSE UNCHANGED rested
  BY DEF ByteArrives
<1>3. Current > 0 /\ Current \notin endLost
  BY <1>1 DEF WireInv, WireLine
<1>4. PICK w, st, at, k : OnLine(w, st, at, k) /\ Follows(st, at, k) /\ InOrder(at, k)
  BY <1>1 DEF WireInv, WireLine
<1>5. /\ w \in Seq(Byte) /\ k \in 0 .. Len(w) - 1 /\ line = SubSeq(w, k + 1, Len(w))
      /\ Course(w, sent[Current], st, at)
  BY <1>4 DEF OnLine
<1>6. PICK byte : byte = Head(line)
  OBVIOUS
<1>7. /\ byte = w[k + 1] /\ byte \in Byte /\ line' \in Seq(Byte)
      /\ line' = SubSeq(w, (k + 1) + 1, Len(w)) /\ (line' = <<>> <=> k + 1 = Len(w))
  <2>1. line \in Seq(Byte)
    BY <1>1 DEF WireType
  <2> QED BY <1>1, <1>5, <1>6, <2>1, RestOf, LineBytes
<1>8. PICK fed : fed = WireFeed(parser, byte, late)
  OBVIOUS
<1>9. /\ parser' = fed.parser /\ delivered' = delivered \o fed.out
      /\ parser' \in WireParserState /\ fed.out \in Seq(Outs)
  BY <1>2, <1>6, <1>7, <1>8, WireFeedSteps
<1>10. WireByteStep
  BY <1>1, <1>2, <1>9 DEF WireByteStep, Rest
<1>11. /\ WireType' /\ Current' = Current /\ Current \in 1 .. Len(sent)
       /\ \A i \in 1 .. Len(sent') :
            i # Current /\ Unhurt(i)' /\ SinceRest(i)' => sent'[i] \in ToSet(delivered')
  BY <1>7, <1>10, WireStays
<1>12. delivered \in Seq(Outs) /\ k \in Nat /\ Len(w) \in Nat /\ k < Len(w) /\ at \in 1 .. Len(w)
  BY <1>1, <1>5 DEF WireType, Course
<1>13. PICK m : m = sent[Current]
  OBVIOUS
<1>14. Leads(st[k], byte, st[k + 1], IF k + 1 = at THEN <<m>> ELSE <<>>)
  BY <1>5, <1>7, <1>13 DEF Course
<1>15. ASSUME Current \notin hurt', SinceRest(Current)'
       PROVE  /\ parser' = st[k + 1]
              /\ k + 1 >= at => m \in ToSet(delivered')
              /\ delivered' = IF k + 1 = at THEN delivered \o <<m>> ELSE delivered
  <2>1. fed = [parser |-> st[k + 1], out |-> IF k + 1 = at THEN <<m>> ELSE <<>>]
    <3>1. CASE late
      <4>1. untouched
        BY <1>2, <1>15, <3>1
      <4>2. k = 0
        BY <1>4, <4>1 DEF Follows
      <4>3. st[k] = WireIdle
        BY <1>5, <4>2 DEF Course
      <4>4. fed = WireFeed(WireIdle, byte, FALSE)
        BY <1>8, <3>1, WireFeedLate
      <4> QED BY <1>14, <4>3, <4>4 DEF Leads
    <3>2. CASE ~ late
      <4>1. rested' = rested /\ hurt' = hurt
        BY <1>2, <3>2
      <4>2. untouched => Current \notin rested
        BY <1>4 DEF Follows
      <4>3. parser = st[k]
        <5>1. CASE untouched
          <6>1. SinceRest(Current)
            BY <1>10, <1>15, <4>1, <4>2, <5>1, SinceRestStays
          <6>2. parser = WireIdle /\ k = 0
            BY <1>4, <5>1, <6>1 DEF Follows
          <6> QED BY <1>5, <6>2 DEF Course
        <5>2. CASE ~ untouched
          <6>1. SinceRest(Current)
            <7>1. SinceRest(Current)' <=> SinceRest(Current)
              BY <1>1, <1>11, <4>1 DEF SinceRest, Unhurt
            <7> QED BY <1>15, <7>1
          <6> QED BY <1>4, <1>15, <4>1, <5>2, <6>1 DEF Follows
        <5> QED BY <5>1, <5>2
      <4> QED BY <1>8, <1>14, <3>2, <4>3 DEF Leads
    <3> QED BY <3>1, <3>2
  <2>2. parser' = st[k + 1] /\ fed.out = IF k + 1 = at THEN <<m>> ELSE <<>>
    BY <1>9, <2>1
  <2>3. delivered' = IF k + 1 = at THEN delivered \o <<m>> ELSE delivered
    BY <1>9, <1>12, <2>2, EmptyJoins
  <2>4. ASSUME k + 1 >= at PROVE m \in ToSet(delivered')
    <3>1. CASE k + 1 = at
      BY <1>9, <1>12, <2>2, <3>1, JoinedSet
    <3>2. CASE k + 1 # at
      <4>1. k >= at
        BY <1>12, <2>4, <3>2
      <4>2. ~ untouched /\ ~ late
        BY <1>2, <1>4, <1>12, <1>15, <4>1 DEF Follows
      <4>3. hurt' = hurt /\ rested' = rested
        BY <1>2, <4>2
      <4>4. SinceRest(Current)
        <5>1. SinceRest(Current)' <=> SinceRest(Current)
          BY <1>1, <1>11, <4>3 DEF SinceRest, Unhurt
        <5> QED BY <1>15, <5>1
      <4>5. m \in ToSet(delivered)
        BY <1>4, <1>13, <1>15, <4>1, <4>2, <4>3, <4>4 DEF Follows
      <4> QED BY <2>3, <3>2, <4>5
    <3> QED BY <3>1, <3>2
  <2> QED BY <2>2, <2>3, <2>4
<1>16. faults' \in Nat /\ (faults' = 0 => faults = 0 /\ hurt' = {} /\ endLost' = {})
  BY <1>1, <1>2 DEF Fault, WireInv, WireAtRest
<1>17. ASSUME faults' = 0
       PROVE  IF k + 1 >= at THEN delivered' = sent ELSE sent = Append(delivered', sent[Current])
  <2>1. faults = 0 /\ hurt' = {} /\ endLost' = {}
    BY <1>16, <1>17
  <2>2. SinceRest(Current)' /\ Current \notin hurt'
    <3>1. 1 \in 1 .. Current /\ \A i : Unhurt(i)'
      BY <1>11, <2>1 DEF Unhurt
    <3> QED BY <1>11, <2>1, <3>1 DEF SinceRest
  <2>3. delivered' = IF k + 1 = at THEN delivered \o <<m>> ELSE delivered
    BY <1>15, <2>2
  <2>4. IF k >= at THEN delivered = sent ELSE sent = Append(delivered, sent[Current])
    BY <1>4, <2>1 DEF InOrder
  <2>5. CASE k + 1 = at
    <3>1. sent = Append(delivered, m)
      BY <1>12, <1>13, <2>4, <2>5
    <3>2. delivered \o <<m>> = Append(delivered, m)
      BY <1>12
    <3>3. delivered' = sent
      BY <2>3, <2>5, <3>1, <3>2
    <3> QED BY <1>12, <2>5, <3>3
  <2>6. CASE k + 1 # at
    <3>1. k + 1 >= at <=> k >= at
      BY <1>12, <2>6
    <3>2. delivered' = delivered
      BY <2>3, <2>6
    <3> QED BY <2>4, <3>1, <3>2
  <2> QED BY <2>5, <2>6
<1>18. ASSUME k + 1 # Len(w) PROVE WireInv'
  <2>1. line' # <<>> /\ k + 1 \in 0 .. Len(w) - 1
    BY <1>7, <1>12, <1>18
  <2>2. PICK j : j = k + 1
    OBVIOUS
  <2>3. Follows(st, at, j)'
    BY <1>1, <1>11, <1>13, <1>15, <2>2 DEF Follows
  <2>4. InOrder(at, j)'
    BY <1>1, <1>11, <1>17, <2>2 DEF InOrder
  <2>5. OnLine(w, st, at, j)'
    BY <1>1, <1>5, <1>7, <1>11, <2>1, <2>2 DEF OnLine
  <2>6. WireLine'
    BY <1>1, <1>3, <1>11, <2>3, <2>4, <2>5 DEF WireLine
  <2>7. WireAtRest'
    BY <1>16, <2>1 DEF WireAtRest
  <2>8. WireArrived'
    <3>1. \A i \in 1 .. Len(sent') : i < Len(sent') => i # Current
      BY <1>11 DEF Current
    <3> QED BY <1>11, <2>1, <3>1 DEF WireArrived
  <2> QED BY <1>1, <1>11, <2>6, <2>7, <2>8 DEF WireInv
<1>19. ASSUME k + 1 = Len(w) PROVE WireInv'
  <2>1. line' = <<>> /\ k + 1 >= at /\ st[k + 1] = WireIdle
    BY <1>5, <1>7, <1>12, <1>19 DEF Course
  <2>2. WireLine'
    BY <2>1 DEF WireLine
  <2>3. WireAtRest'
    <3>1. ASSUME Unhurt(Current)', SinceRest(Current)' PROVE parser' = WireIdle
      <4>1. Current' \notin hurt'
        BY <3>1 DEF Unhurt
      <4>2. Current \notin hurt'
        BY <1>11, <4>1
      <4> QED BY <1>11, <1>15, <2>1, <3>1, <4>2
    <3>2. faults' = 0 => delivered' = sent'
      BY <1>1, <1>17, <2>1
    <3> QED BY <1>3, <1>11, <1>16, <3>1, <3>2 DEF WireAtRest
  <2>4. WireArrived'
    <3>1. ASSUME NEW i \in 1 .. Len(sent'), Unhurt(i)', SinceRest(i)'
          PROVE  sent'[i] \in ToSet(delivered')
      <4>1. CASE i # Current
        BY <1>11, <3>1, <4>1
      <4>2. CASE i = Current
        <5>1. Current \notin hurt' /\ SinceRest(Current)'
          BY <1>11, <3>1, <4>2 DEF Unhurt
        <5>2. m \in ToSet(delivered')
          BY <1>15, <2>1, <5>1
        <5> QED BY <1>1, <1>13, <4>2, <5>2
      <4> QED BY <4>1, <4>2
    <3> QED BY <3>1 DEF WireArrived
  <2> QED BY <1>1, <1>11, <2>2, <2>3, <2>4 DEF WireInv
<1> QED
  BY <1>18, <1>19

\* The invariant under ReceiverSend.
LEMMA ReceiverSendKeeps == WireInv /\ ReceiverSend => WireInv'
<1> SUFFICES ASSUME WireInv, ReceiverSend PROVE WireInv'
  OBVIOUS
<1>1. /\ line = <<>> /\ port' = port /\ parser' = parser /\ delivered' = delivered
      /\ hurt' = hurt /\ endLost' = endLost /\ rested' = rested /\ untouched' = TRUE
      /\ seq' = seq /\ faults' = faults /\ port = "gnss" /\ WireType
  BY DEF ReceiverSend, WireInv
<1>2. PICK message \in Messages : line' = WireEncode(message) /\ sent' = Append(sent, message)
  BY DEF ReceiverSend
<1>3. PICK w : w = WireEncode(message)
  OBVIOUS
<1>4. w \in Seq(Byte) /\ w # <<>> /\ \E st, at : Course(w, message, st, at)
  BY <1>3, MessageCourse, Zenon
<1>5. PICK st, at : Course(w, message, st, at)
  BY <1>4
<1>6. sent \in Seq(Messages) /\ Len(sent) \in Nat
  BY <1>1 DEF WireType
<1>7. /\ sent' \in Seq(Messages) /\ Current' = Current + 1 /\ Len(sent') = Len(sent) + 1
      /\ sent'[Len(sent) + 1] = message /\ \A i \in 1 .. Len(sent) : sent'[i] = sent[i]
  BY <1>2, <1>6 DEF Current
<1>8. line' \in Seq(Byte) /\ line' # <<>>
  BY <1>2, <1>3, <1>4
<1>9. WireType'
  BY <1>1, <1>7, <1>8 DEF WireType
<1>10. /\ Current' > 0 /\ Current' \notin endLost' /\ Current' \notin rested'
       /\ Current' - 1 = Current /\ Current = Len(sent) /\ sent'[Current'] = message
  BY <1>1, <1>6, <1>7 DEF WireType, Current
<1>11. ASSUME SinceRest(Current)' PROVE parser' = WireIdle
  <2>1. PICK j \in 1 .. Current' : (j = 1 \/ j \in rested') /\ \A k \in j .. Current' - 1 : Unhurt(k)'
    BY <1>11 DEF SinceRest
  <2>2. CASE Current = 0
    BY <1>1, <2>2 DEF WireInv, WireAtRest
  <2>3. CASE Current > 0
    <3>1. j \in 1 .. Current
      BY <1>1, <1>6, <1>7, <1>10, <2>1, <2>3
    <3>2. \A k \in j .. Current : Unhurt(k)
      BY <1>1, <1>10, <2>1 DEF Unhurt
    <3>3. Unhurt(Current)
      BY <1>6, <1>10, <3>1, <3>2
    <3>4. \A k \in j .. Current - 1 : Unhurt(k)
      BY <1>6, <1>10, <3>1, <3>2
    <3>5. SinceRest(Current)
      BY <1>1, <2>1, <3>1, <3>4 DEF SinceRest
    <3> QED BY <1>1, <3>3, <3>5 DEF WireInv, WireAtRest
  <2> QED BY <1>6, <1>10, <2>2, <2>3
<1>12. Follows(st, at, 0)'
  BY <1>1, <1>10, <1>11 DEF Follows
<1>13. at \in 1 .. Len(w) /\ Len(w) \in Nat
  BY <1>4, <1>5 DEF Course
<1>14. InOrder(at, 0)'
  <2> SUFFICES ASSUME faults' = 0 PROVE sent' = Append(delivered', message)
    BY <1>10, <1>13 DEF InOrder
  <2>1. delivered = sent
    BY <1>1 DEF WireInv, WireAtRest
  <2> QED BY <1>1, <1>2, <2>1
<1>15. OnLine(w, st, at, 0)'
  <2>1. SubSeq(w, 1, Len(w)) = w
    BY <1>4
  <2>2. line' = SubSeq(w, 0 + 1, Len(w)) /\ 0 \in 0 .. Len(w) - 1
    BY <1>2, <1>3, <1>13, <2>1
  <2> QED BY <1>4, <1>5, <1>10, <2>2 DEF OnLine
<1>16. WireLine'
  BY <1>10, <1>12, <1>14, <1>15 DEF WireLine
<1>17. WireAtRest'
  BY <1>1, <1>8 DEF WireInv, WireAtRest
<1>18. WireArrived'
  <2>1. ASSUME NEW i \in 1 .. Len(sent'), i < Len(sent'), Unhurt(i)', SinceRest(i)'
        PROVE  sent'[i] \in ToSet(delivered')
    <3>1. i \in 1 .. Len(sent)
      BY <1>6, <1>7, <2>1
    <3>2. Unhurt(i) /\ SinceRest(i)
      BY <1>1, <2>1 DEF Unhurt, SinceRest
    <3> QED BY <1>1, <1>7, <3>1, <3>2 DEF WireInv, WireArrived
  <2> QED BY <1>8, <2>1 DEF WireArrived
<1> QED
  BY <1>1, <1>9, <1>16, <1>17, <1>18 DEF WireInv

\* The invariant at the start.
LEMMA WireInit == Init /\ port = "gnss" => WireInv
<1> SUFFICES ASSUME Init, port = "gnss" PROVE WireInv
  OBVIOUS
<1>1. /\ parser = WireIdle /\ seq = 0 /\ line = <<>> /\ untouched = FALSE /\ faults = 0
      /\ sent = <<>> /\ delivered = <<>> /\ hurt = {} /\ endLost = {} /\ rested = {}
  BY DEF Init
<1>2. WireIdle \in WireParserState
  BY EndSound, IdleIs DEF Sound, Dropped
<1>3. WireType
  <2>1. seq \in Byte /\ line \in Seq(Byte) /\ sent \in Seq(Messages) /\ delivered \in Seq(Outs)
    BY <1>1 DEF Byte
  <2>2. untouched \in BOOLEAN
    BY <1>1
  <2> QED BY <1>1, <1>2, <2>1, <2>2 DEF WireType
<1>4. WireLine /\ WireAtRest /\ WireArrived
  BY <1>1 DEF WireLine, WireAtRest, WireArrived
<1> QED
  BY <1>3, <1>4 DEF WireInv

\* The invariant under every step.
LEMMA WireStep == WireInv /\ [Next]_vars => WireInv'
<1> SUFFICES ASSUME WireInv, [Next]_vars PROVE WireInv'
  OBVIOUS
<1>1. CASE Send
  BY <1>1 DEF Send, WireInv
<1>2. CASE ReceiverSend
  BY <1>2, ReceiverSendKeeps
<1>3. CASE ByteArrives
  BY <1>3, WireArrivesKeeps
<1>4. CASE ByteLost \/ ByteChanged \/ NoiseArrives
  BY <1>4, WireFaultKeeps
<1>5. CASE UNCHANGED vars
  <2>1. /\ port' = port /\ seq' = seq /\ line' = line /\ untouched' = untouched
        /\ parser' = parser /\ sent' = sent /\ delivered' = delivered /\ faults' = faults
        /\ hurt' = hurt /\ endLost' = endLost /\ rested' = rested
    BY <1>5 DEF vars
  <2>2. Current' = Current
    BY <2>1 DEF Current
  <2>3. \A i : Unhurt(i)' <=> Unhurt(i)
    BY <2>1 DEF Unhurt
  <2>4. \A i : SinceRest(i)' <=> SinceRest(i)
    BY <2>1, <2>3 DEF SinceRest
  <2>5. WireType'
    BY <2>1 DEF WireInv, WireType
  <2>6. WireAtRest'
    <3>1. Unhurt(Current)' <=> Unhurt(Current)
      BY <2>1 DEF Unhurt, Current
    <3>2. SinceRest(Current)' <=> SinceRest(Current)
      BY <2>1 DEF SinceRest, Unhurt, Current
    <3> QED BY <2>1, <2>2, <3>1, <3>2 DEF WireInv, WireAtRest
  <2>7. WireArrived'
    BY <2>1, <2>3, <2>4 DEF WireInv, WireArrived
  <2>8. WireLine'
    <3> SUFFICES ASSUME line # <<>> PROVE WireLine'
      BY <2>1 DEF WireLine
    <3>1. PICK w, st, at, k : OnLine(w, st, at, k) /\ Follows(st, at, k) /\ InOrder(at, k)
      BY DEF WireInv, WireLine
    <3>2. OnLine(w, st, at, k)'
      BY <2>1, <2>2, <3>1 DEF OnLine
    <3>3. Follows(st, at, k)'
      <4>1. SinceRest(Current)' <=> SinceRest(Current)
        BY <2>1 DEF SinceRest, Unhurt, Current
      <4> QED BY <2>1, <2>2, <3>1, <4>1 DEF Follows
    <3>4. InOrder(at, k)'
      BY <2>1, <2>2, <3>1 DEF InOrder
    <3>5. Current > 0 /\ Current \notin endLost
      BY DEF WireInv, WireLine
    <3> QED BY <2>1, <2>2, <3>2, <3>3, <3>4, <3>5 DEF WireLine
  <2> QED BY <2>1, <2>5, <2>6, <2>7, <2>8 DEF WireInv
<1> QED
  BY <1>1, <1>2, <1>3, <1>4, <1>5 DEF Next

\* The invariant of the receiver's line holds.
LEMMA WireInvariant == Spec => [](port = "gnss" => WireInv)
<1> DEFINE Inv == port = "gnss" => WireInv
<1>1. Init => Inv
  BY WireInit
<1>2. Inv /\ [Next]_vars => Inv'
  <2> SUFFICES ASSUME Inv, [Next]_vars, port' = "gnss" PROVE WireInv'
    OBVIOUS
  <2>1. port' = port
    BY DEF Next, vars, Send, ReceiverSend, ByteArrives, ByteLost, ByteChanged, NoiseArrives
  <2> QED BY <2>1, WireStep
<1> QED
  BY <1>1, <1>2, PTL DEF Spec

\* UnhurtFramesArrive on the receiver's line, as far as it asks for a line that has
\* recovered: a message that arrives unhurt is delivered when nothing was hurt before
\* it, or nothing since a message that came after a pause (wire_parser.h, feed).
\* Damage that no pause ended, which may swallow messages, is left out.
THEOREM WireMessagesArrive ==
  Spec => [](port = "gnss" /\ line = <<>> =>
               \A i \in DOMAIN sent : Unhurt(i) /\ SinceRest(i) => sent[i] \in ToSet(delivered))
<1>1. WireInv /\ line = <<>> =>
        \A i \in DOMAIN sent : Unhurt(i) /\ SinceRest(i) => sent[i] \in ToSet(delivered)
  BY DEF WireInv, WireType, WireArrived
<1> QED
  BY <1>1, WireInvariant, PTL

\* DeliveredWereSent on a line without faults: whatever the messages hold, the parser
\* of the receiver's messages neither drops, doubles, reorders nor invents one.
THEOREM WireFaultless ==
  Spec => [](port = "gnss" /\ faults = 0 => DeliveredWereSent /\ (line = <<>> => delivered = sent))
<1>1. ASSUME WireInv, faults = 0 PROVE DeliveredWereSent /\ (line = <<>> => delivered = sent)
  <2>1. delivered \in Seq(Outs) /\ sent \in Seq(Messages)
    BY <1>1 DEF WireInv, WireType
  <2>2. line = <<>> => delivered = sent
    BY <1>1 DEF WireInv, WireAtRest
  <2>3. delivered = sent \/ sent = Append(delivered, sent[Current])
    <3>1. ASSUME line # <<>> PROVE delivered = sent \/ sent = Append(delivered, sent[Current])
      <4>1. PICK w, st, at, k : InOrder(at, k)
        BY <1>1, <3>1 DEF WireInv, WireLine
      <4> QED BY <1>1, <4>1 DEF InOrder
    <3> QED BY <2>2, <3>1
  <2>4. \A i \in DOMAIN delivered : i \in DOMAIN sent /\ delivered[i] = sent[i] /\ i \in Nat
    BY <2>1, <2>3
  <2>5. \A i \in Covered : i \in DOMAIN delivered
    BY DEF Covered
  <2> DEFINE at == [i \in Covered |-> i]
  <2>6. /\ at \in [Covered -> DOMAIN sent]
        /\ \A i, j \in Covered : i < j => at[i] < at[j]
        /\ \A i \in Covered : delivered[i] = sent[at[i]]
    BY <2>4, <2>5
  <2> HIDE DEF at
  <2> QED BY <2>2, <2>6 DEF DeliveredWereSent
<1> QED
  BY <1>1, WireInvariant, PTL

-----------------------------------------------------------------------------
(* Type correctness.                                                       *)
\* The rudder's parser keeps within its buffer.
LEMMA FeedBounded ==
  ASSUME NEW p \in RudderParser, Len(p.block) <= MaxFrame, NEW byte \in Byte, NEW late \in BOOLEAN
  PROVE  Len(RudderFeed(p, byte, late).parser.block) <= MaxFrame
<1>1. RudderIdle \in RudderParser /\ RudderIdle.block = <<>> /\ Len(RudderIdle.block) <= MaxFrame
  BY MaxFrameIsNat DEF RudderIdle, RudderParser
<1>2. ASSUME NEW held \in RudderParser, Len(held.block) <= MaxFrame
      PROVE  Len(RudderTake(held, byte).parser.block) <= MaxFrame
  <2>1. PICK block \in Seq(Byte) : block = held.block
    BY DEF RudderParser
  <2> DEFINE n == Len(block)
  <2>2. n \in Nat /\ Len(Append(block, byte)) = n + 1
    OBVIOUS
  <2>3. CASE Len(held.block) < MaxFrame
    <3>1. RudderTake(held, byte).parser = [held EXCEPT !.block = Append(block, byte)]
      BY <2>1, <2>3 DEF RudderTake
    <3>2. RudderTake(held, byte).parser.block = Append(block, byte)
      BY <3>1 DEF RudderParser
    <3>3. n < MaxFrame
      BY <2>1, <2>3
    <3> HIDE DEF n
    <3>4. n + 1 <= MaxFrame
      BY <2>2, <3>3, MaxFrameIsNat
    <3> QED BY <2>2, <3>2, <3>4
  <2>4. CASE ~ (Len(held.block) < MaxFrame)
    <3>1. RudderTake(held, byte).parser.block = held.block
      BY <2>4 DEF RudderTake, RudderParser
    <3> QED BY <1>2, <3>1
  <2> QED BY <2>3, <2>4
<1>3. PICK held \in {p, RudderIdle} :
        RudderFeed(p, byte, late) = IF byte = Delimiter THEN RudderClose(held) ELSE RudderTake(held, byte)
  BY DEF RudderFeed
<1>4. held \in RudderParser /\ Len(held.block) <= MaxFrame
  BY <1>1
<1>5. CASE byte = Delimiter
  BY <1>1, <1>3, <1>5 DEF RudderClose
<1>6. CASE byte # Delimiter
  BY <1>2, <1>3, <1>4, <1>6
<1> QED
  BY <1>5, <1>6

\* What the buffers hold and the faults the line may still make.
Bounded ==
  /\ port \in Ports /\ faults \in 0 .. MaxFaults[port]
  /\ port = "rudder" => RudderInv /\ Len(parser.block) <= MaxFrame
  /\ port = "gnss" => WireInv

\* Bounded holds at the start.
LEMMA BoundedInit == Init => Bounded
<1> SUFFICES ASSUME Init PROVE Bounded
  OBVIOUS
<1>1. port \in Ports /\ faults = 0
  BY DEF Init, Ports
<1>2. MaxFaults[port] \in Nat
  BY <1>1, LinkAssumption
<1>3. port = "rudder" => parser.block = <<>>
  BY DEF Init, RudderIdle
<1> QED
  BY <1>1, <1>2, <1>3, RudderInit, WireInit, MaxFrameIsNat DEF Bounded

\* Every step keeps it.
LEMMA BoundedStep == Bounded /\ [Next]_vars => Bounded'
<1> SUFFICES ASSUME Bounded, [Next]_vars PROVE Bounded'
  OBVIOUS
<1>1. port' = port /\ port \in Ports
  BY DEF Bounded, Next, vars, Send, ReceiverSend, ByteArrives, ByteLost, ByteChanged, NoiseArrives
<1>2. MaxFaults[port] \in Nat
  BY <1>1, LinkAssumption
<1>3. faults' = faults \/ Fault
  BY DEF Next, vars, Send, ReceiverSend, ByteArrives, ByteLost, ByteChanged, NoiseArrives
<1>4. faults' \in 0 .. MaxFaults[port]
  BY <1>2, <1>3 DEF Fault, Bounded
<1>5. ASSUME port = "gnss" PROVE WireInv'
  BY <1>5, WireStep DEF Bounded
<1>6. ASSUME port = "rudder" PROVE RudderInv' /\ Len(parser'.block) <= MaxFrame
  <2>1. RudderInv /\ RudderInv' /\ Len(parser.block) <= MaxFrame /\ parser \in RudderParser
    BY <1>6, RudderStep DEF Bounded, RudderInv, RudderType
  <2>2. ASSUME NEW byte \in Byte, NEW late \in BOOLEAN, Feed(byte, late)
        PROVE  Len(parser'.block) <= MaxFrame
    BY <2>1, <2>2, FeedSteps, FeedBounded
  <2>3. line # <<>> => Head(line) \in Byte
    BY <2>1, LineBytes DEF RudderInv, RudderType
  <2>4. \A byte \in Noise[port] : byte \in Byte
    BY <1>1, LinkAssumption DEF Byte
  <2>5. CASE ByteArrives
    <3>1. PICK late \in BOOLEAN : Feed(Head(line), late)
      BY <2>5 DEF ByteArrives
    <3> QED BY <2>1, <2>2, <2>3, <2>5, <3>1 DEF ByteArrives
  <2>6. CASE ByteChanged
    <3>1. PICK byte \in Noise[port] \ {Head(line)} : Feed(byte, FALSE)
      BY <2>6 DEF ByteChanged
    <3> QED BY <2>1, <2>2, <2>4, <3>1
  <2>7. CASE NoiseArrives
    <3>1. PICK byte \in Noise[port], late \in BOOLEAN : Feed(byte, late)
      BY <2>7 DEF NoiseArrives
    <3> QED BY <2>1, <2>2, <2>4, <3>1
  <2>8. CASE Send \/ ReceiverSend \/ ByteLost \/ UNCHANGED vars
    <3>1. parser' = parser
      BY <2>8 DEF Send, ReceiverSend, ByteLost, vars
    <3> QED BY <2>1, <3>1
  <2> QED BY <2>5, <2>6, <2>7, <2>8 DEF Next
<1> QED
  BY <1>1, <1>4, <1>5, <1>6 DEF Bounded

\* TypeOK on both lines: neither parser outgrows its buffers, whatever the line does.
THEOREM BuffersHold == Spec => []TypeOK
<1>1. Bounded => TypeOK
  <2> SUFFICES ASSUME Bounded PROVE TypeOK
    OBVIOUS
  <2>1. CASE port = "rudder"
    <3>1. RudderType /\ Len(parser.block) <= MaxFrame
      BY <2>1 DEF Bounded, RudderInv
    <3>2. seq \in 0 .. 255 /\ line \in Seq(0 .. 255) /\ parser.overflow \in BOOLEAN
      BY <3>1 DEF RudderType, RudderParser, Byte
    <3> QED BY <2>1, <3>1, <3>2 DEF TypeOK, Bounded, RudderType
  <2>2. CASE port = "gnss"
    <3>1. WireType
      BY <2>2 DEF Bounded, WireInv
    <3>2. seq \in 0 .. 255 /\ line \in Seq(0 .. 255)
      BY <3>1 DEF WireType, Byte
    <3>3. /\ parser.state \in WireStates /\ parser.held \in Seq(Byte) /\ parser.promptAt \in Nat
          /\ parser.promptAt <= Len(parser.held) /\ Fits(parser.state, parser.held)
      BY <3>1 DEF WireType, WireParserState
    <3>4. PICK held \in Seq(Byte) : held = parser.held
      BY <3>3
    <3> DEFINE n == Len(held)
    <3>5. n \in Nat
      OBVIOUS
    <3>6. \/ n <= 5 \/ n <= MaxSentence \/ n <= MaxReply \/ n = 0
          \/ n + 2 < SbfLength(held) /\ SbfLength(held) <= HeaderLen + MaxBody
      BY <3>3, <3>4 DEF Fits, WireStates
    <3>7. SbfLength(held) \in Int \/ n < 6
      <4>1. n >= 6 => held[5] \in Nat /\ held[6] \in Nat
        BY BytesAre
      <4> QED BY <3>5, <4>1 DEF SbfLength
    <3> HIDE DEF n
    <3>8. n <= 6 + MaxBody + MaxSentence + MaxReply
      BY <3>5, <3>6, <3>7, BufferSizes DEF HeaderLen
    <3>9. /\ Len(parser.held) <= 6 + MaxBody + MaxSentence + MaxReply
          /\ parser.promptAt \in 0 .. Len(parser.held)
      BY <3>3, <3>4, <3>8 DEF n
    <3> QED BY <2>2, <3>1, <3>2, <3>3, <3>9 DEF TypeOK, Bounded, WireType, WireStates, NmeaStates
  <2> QED BY <2>1, <2>2 DEF Bounded, Ports
<1> QED
  BY <1>1, BoundedInit, BoundedStep, PTL DEF Spec
=============================================================================
