---------------------------- MODULE ScriptsProofs ----------------------------
(***************************************************************************)
(* Theorems about the scripts of the page.                                 *)
(*                                                                         *)
(* Md5, for texts of every length: the words keep to their 32 bits, and    *)
(* the blocks are those of the padded text.                                *)
(*                                                                         *)
(* WordSearch, for every alphabet, length of the chunks and number of      *)
(* browsers: no word is left out and none is tried twice.  UpTo(c) are the *)
(* words that come before c, or c; Incr adds one word to it (IncrIsNext,   *)
(* IncrIsNew).  SearchInv is inductive: the prefixes at work are different *)
(* ones of those the server has handed out (Chunks), and of its prefix a   *)
(* browser has tried the words up to its place and no other (TriedSoFar).  *)
(* So each step is one of SharedSearch, which knows no iterators.          *)
(*                                                                         *)
(* Indexer, for any files and texts: the groups and the entries are those  *)
(* of the texts.  Read one character more, and the words normalizeText and *)
(* split have made stay the runs of letters of what was read (Matches);    *)
(* addValues adds one name for each pair (AddValuesDoes).  IndexInv is     *)
(* inductive: it says of all words, those without a group included, what   *)
(* GroupsAreOfTheTexts says, and that nothing is reduced before every text *)
(* is read.                                                                *)
(***************************************************************************)
EXTENDS Scripts, QueueLemmas, FiniteSetTheorems

Words     == SUBSET Positions
BlockType == [0..15 -> Words]

LEMMA WordOperations ==
  ASSUME NEW x \in Words, NEW y \in Words, NEW n \in Int
  PROVE  /\ Not(x) \in Words /\ Xor(x, y) \in Words /\ Add(x, y) \in Words
         /\ Rotate(x, n) \in Words /\ ShiftLeft(x, n) \in Words
BY DEF Words, Not, Xor, Add, Rotate, ShiftLeft, ShiftRight

LEMMA BitsType == ASSUME NEW n \in Int PROVE Bits(n) \in Words
BY DEF Words, Bits, Positions

LEMMA PackType ==
  ASSUME NEW b0 \in Int, NEW b1 \in Int, NEW b2 \in Int, NEW b3 \in Int
  PROVE  Pack(b0, b1, b2, b3) \in Words
<1>1. Bits(b0) \in Words
  BY BitsType
<1>2. /\ ShiftLeft(Bits(b1), 8) \in Words /\ ShiftLeft(Bits(b2), 16) \in Words
      /\ ShiftLeft(Bits(b3), 24) \in Words
  BY DEF Words, ShiftLeft
<1> QED BY <1>1, <1>2 DEF Pack, Words

(* The lines of md5cycle name a word of the block, a number of bits and a  *)
(* number.                                                                 *)
LEMMA LineType ==
  ASSUME NEW n \in 0..63
  PROVE  Lines[n + 1][1] \in 0..15 /\ Lines[n + 1][2] \in Int /\ Lines[n + 1][3] \in Int
BY DEF Lines

LEMMA QuarterType ==
  ASSUME NEW n \in 0..63, NEW b \in Words, NEW c \in Words, NEW d \in Words
  PROVE  Quarter(n, b, c, d) \in Words
<1>1. /\ (b \cap c) \cup (Not(b) \cap d) \in Words
      /\ (b \cap d) \cup (c \cap Not(d)) \in Words
      /\ b \cup Not(d) \in Words /\ Xor(b, c) \in Words
  BY DEF Words, Not, Xor
<1>2. Xor(Xor(b, c), d) \in Words /\ Xor(c, b \cup Not(d)) \in Words
  BY <1>1, WordOperations, 0 \in Int
<1>3. CASE n < 16
  BY <1>1, <1>3 DEF Quarter
<1>4. CASE n \in 16..31
  BY <1>1, <1>4 DEF Quarter
<1>5. CASE n \in 32..47
  BY <1>2, <1>5 DEF Quarter
<1>6. CASE n > 47
  BY <1>2, <1>6 DEF Quarter
<1> QED BY <1>3, <1>4, <1>5, <1>6

LEMMA CmnType ==
  ASSUME NEW n \in 0..63, NEW a \in Words, NEW b \in Words, NEW c \in Words,
         NEW d \in Words, NEW block \in BlockType
  PROVE  Cmn(n, a, b, c, d, block) \in Words
<1> DEFINE row == Lines[n + 1]
<1>1. row[1] \in 0..15 /\ row[2] \in Int /\ row[3] \in Int
  BY LineType
<1> HIDE DEF row
<1> DEFINE left  == Add(a, Quarter(n, b, c, d))
           right == Add(block[row[1]], Bits(row[3]))
           sum   == Add(left, right)
<1>2. left \in Words
  BY QuarterType, WordOperations, 0 \in Int
<1>3. right \in Words
  <2>1. block[row[1]] \in Words /\ Bits(row[3]) \in Words
    BY <1>1, BitsType DEF BlockType
  <2> QED BY <2>1, WordOperations, 0 \in Int
<1> HIDE DEF left, right
<1>4. sum \in Words
  BY <1>2, <1>3, WordOperations, 0 \in Int
<1> HIDE DEF sum
<1>5. Rotate(sum, row[2]) \in Words
  BY <1>1, <1>4, WordOperations
<1>6. Add(Rotate(sum, row[2]), b) \in Words
  BY <1>5, WordOperations, 0 \in Int
<1>7. Cmn(n, a, b, c, d, block) = Add(Rotate(sum, row[2]), b)
  BY DEF Cmn, sum, left, right, row
<1> QED BY <1>6, <1>7

(* A step of md5cycle keeps the four words words.                          *)
LEMMA MixType ==
  ASSUME TypeOK, MixLine
  PROVE  TypeOK'
<1>1. /\ line \in 0..63 /\ state \in [1..4 -> Words] /\ reg \in [1..4 -> Words]
      /\ k \in BlockType
  BY DEF TypeOK, MixLine, Words, BlockType
<1> DEFINE at    == (4 - (line % 4)) % 4
           R(j)  == reg[((at + j) % 4) + 1]
           mixed == [reg EXCEPT ![at + 1] = Cmn(line, R(0), R(1), R(2), R(3), k)]
<1>2. at \in 0..3
  BY <1>1
<1> HIDE DEF at
<1>3. \A j \in 0..3 : R(j) \in Words
  <2>1. TAKE j \in 0..3
  <2>2. ((at + j) % 4) + 1 \in 1..4
    BY <1>2
  <2> QED BY <1>1, <2>2
<1>4. /\ R(0) \in Words /\ R(1) \in Words /\ R(2) \in Words /\ R(3) \in Words
  BY <1>3
<1> HIDE DEF R
<1>5. Cmn(line, R(0), R(1), R(2), R(3), k) \in Words
  BY <1>1, <1>4, CmnType
<1>6. mixed \in [1..4 -> Words]
  BY <1>1, <1>2, <1>5
<1> HIDE DEF mixed
<1>7. \A j \in 1..4 : Add(mixed[j], state[j]) \in Words
  <2>1. TAKE j \in 1..4
  <2>2. mixed[j] \in Words /\ state[j] \in Words
    BY <1>1, <1>6
  <2> QED BY <2>2, WordOperations, 0 \in Int
<1>8. /\ state' \in [1..4 -> Words] /\ reg' \in [1..4 -> Words]
  <2>1. IF line = 63
        THEN /\ state' = [j \in 1..4 |-> Add(mixed[j], state[j])]
             /\ reg' = state'
        ELSE /\ reg' = mixed
             /\ UNCHANGED state
    BY DEF MixLine, mixed, R, at
  <2>2. CASE line = 63
    BY <2>1, <2>2, <1>7
  <2>3. CASE line # 63
    BY <2>1, <2>3, <1>1, <1>6
  <2> QED BY <2>2, <2>3
<1>9. line' = line + 1 /\ UNCHANGED <<s, i, k, pc, fed>>
  BY DEF MixLine
<1> QED BY <1>1, <1>8, <1>9 DEF TypeOK, Words

-----------------------------------------------------------------------------
(* Blocks.                                                                 *)

LEMMA TextsAreSequences == ASSUME TypeOK PROVE s \in Seq(0..255)
BY TextsAssumption DEF TypeOK

LEMMA ByteIsInt == \A x \in 0..255 : x \in Int
OBVIOUS

LEMMA ElementType ==
  ASSUME NEW text \in Seq(0..255), NEW p \in 0..Len(text) - 1
  PROVE  text[p + 1] \in Int
<1>1. p + 1 \in 1..Len(text)
  BY LenProperties
<1>2. text[p + 1] \in 0..255
  BY <1>1, ElementOfSeq
<1> QED BY <1>2, ByteIsInt

LEMMA BlkType ==
  ASSUME NEW text \in Seq(0..255), NEW end \in Nat, end >= 64, end <= Len(text)
  PROVE  Blk(text, end) \in BlockType
<1> SUFFICES ASSUME NEW w \in 0..15
             PROVE  Pack(text[end - 64 + 4 * w + 1], text[end - 64 + 4 * w + 2],
                         text[end - 64 + 4 * w + 3], text[end - 64 + 4 * w + 4]) \in Words
  BY DEF Blk, BlockType
<1>1. \A j \in 1..4 : text[end - 64 + 4 * w + j] \in Int
  <2>1. TAKE j \in 1..4
  <2>2. end - 64 + 4 * w + j \in 1..Len(text)
    BY LenProperties
  <2>3. text[end - 64 + 4 * w + j] \in 0..255
    BY <2>2, ElementOfSeq
  <2> QED BY <2>3, ByteIsInt
<1> QED BY <1>1, PackType

LEMMA TailByteType ==
  ASSUME NEW rest \in Seq(0..255), NEW p \in Nat
  PROVE  TailByte(rest, p) \in Int
<1>1. CASE p < Len(rest)
  BY <1>1, ElementType, LenProperties DEF TailByte
<1>2. CASE ~(p < Len(rest))
  BY <1>2 DEF TailByte
<1> QED BY <1>1, <1>2

LEMMA TailBlkType ==
  ASSUME NEW rest \in Seq(0..255)
  PROVE  TailBlk(rest) \in BlockType
<1> SUFFICES ASSUME NEW w \in 0..15
             PROVE  Pack(TailByte(rest, 4 * w), TailByte(rest, 4 * w + 1),
                         TailByte(rest, 4 * w + 2), TailByte(rest, 4 * w + 3)) \in Words
  BY DEF TailBlk, BlockType
<1>1. \A j \in 0..3 : TailByte(rest, 4 * w + j) \in Int
  BY TailByteType
<1> QED BY <1>1, PackType

(* With the length in its place a block still is one.                      *)
LEMMA LengthType ==
  ASSUME NEW block \in BlockType, NEW n \in Nat
  PROVE  [block EXCEPT ![14] = Bits(8 * n)] \in BlockType
<1>1. Bits(8 * n) \in Words
  BY BitsType
<1> QED BY <1>1 DEF BlockType

LEMMA ZeroBlkType == ZeroBlk \in BlockType
BY PackType DEF ZeroBlk, BlockType

(* The number of blocks, where the loop of md51 ends.                      *)
LEMMA BlockCount ==
  ASSUME NEW text \in Seq(0..255), NEW m \in Nat
  PROVE  /\ Blocks(text) \in Nat
         /\ 64 * (m + 1) <= Len(text) => m + 2 <= Blocks(text)
         /\ 64 * m <= Len(text) /\ Len(text) - 64 * m < 56 => Blocks(text) = m + 1
         /\ Len(text) < 64 * (m + 1) /\ Len(text) - 64 * m > 55 => Blocks(text) = m + 2
BY LenProperties DEF Blocks

(* What is left of the text when its whole blocks are fed                  *)
LEMMA RestType ==
  ASSUME NEW text \in Seq(0..255), NEW m \in Nat,
         64 * m <= Len(text)
  PROVE  LET rest == SubSeq(text, 64 * m + 1, Len(text))
         IN  /\ rest \in Seq(0..255) /\ Len(rest) = Len(text) - 64 * m
             /\ \A j \in 1..Len(text) - 64 * m : rest[j] = text[64 * m + j]
<1> DEFINE from == 64 * m + 1
           rest == SubSeq(text, from, Len(text))
<1>1. from \in Int /\ Len(text) \in Nat /\ from >= 1 /\ from = 64 * m + 1
  BY LenProperties
<1> HIDE DEF from
<1>2. \A j \in from..Len(text) : text[j] \in 0..255
  <2>1. TAKE j \in from..Len(text)
  <2>2. j \in 1..Len(text)
    BY <1>1
  <2> QED BY <2>2, ElementOfSeq
<1>3. /\ rest \in Seq(0..255)
      /\ Len(rest) = IF from <= Len(text) THEN Len(text) - from + 1 ELSE 0
      /\ \A j \in 1..Len(text) - from + 1 : rest[j] = text[from + j - 1]
  BY <1>1, <1>2, SubSeqProperties
<1> HIDE DEF rest
<1>4. Len(rest) = Len(text) - 64 * m
  <2>1. CASE from <= Len(text)
    <3>1. Len(rest) = Len(text) - from + 1
      BY <1>3, <2>1
    <3> QED BY <3>1, <1>1
  <2>2. CASE ~(from <= Len(text))
    <3>1. Len(rest) = 0
      BY <1>3, <2>2
    <3>2. Len(text) - 64 * m = 0
      BY <1>1, <2>2
    <3> QED BY <3>1, <3>2
  <2> QED BY <2>1, <2>2
<1>5. \A j \in 1..Len(text) - 64 * m : rest[j] = text[64 * m + j]
  BY <1>1, <1>3
<1> QED BY <1>3, <1>4, <1>5 DEF rest, from

(* What is left and the byte after it are the padded text's.              *)
LEMMA TailIsPadding ==
  ASSUME NEW text \in Seq(0..255), NEW m \in Nat, NEW p \in Nat,
         64 * m <= Len(text)
  PROVE  TailByte(SubSeq(text, 64 * m + 1, Len(text)), p) = PadByte(text, 64 * m + p)
<1> DEFINE rest == SubSeq(text, 64 * m + 1, Len(text))
<1>1. /\ Len(rest) = Len(text) - 64 * m
      /\ \A j \in 1..Len(text) - 64 * m : rest[j] = text[64 * m + j]
  BY RestType
<1>2. Len(text) \in Nat
  BY LenProperties
<1> HIDE DEF rest
<1>3. TailByte(rest, p) = PadByte(text, 64 * m + p)
  <2>1. CASE p < Len(text) - 64 * m
    <3>1. rest[p + 1] = text[64 * m + p + 1]
      BY <1>1, <1>2, <2>1
    <3> QED BY <3>1, <1>1, <1>2, <2>1 DEF TailByte, PadByte
  <2>2. CASE ~(p < Len(text) - 64 * m)
    BY <1>1, <1>2, <2>2 DEF TailByte, PadByte
  <2> QED BY <2>1, <2>2
<1> QED BY <1>3 DEF rest

-----------------------------------------------------------------------------
(* The inductive invariant: md51 has fed the blocks before i - 64, which   *)
(* is in the text; after a tail of more than 55 bytes one block is left,   *)
(* that begins behind the text.                                            *)

FedBlocks ==
  \A n \in 1..Len(fed) : \A w \in 0..15 :
    fed[n][w] = PadWord(s, 16 * (n - 1) + w)

Progress ==
  /\ pc = "blocks" => i = 64 * (Len(fed) + 1) /\ 64 * Len(fed) <= Len(s)
  /\ pc = "length" => Len(fed) + 1 = Blocks(s) /\ Len(s) < 64 * Len(fed)
  /\ pc = "done" => Len(fed) = Blocks(s)

IInv ==
  /\ TypeOK
  /\ fed \in Seq(BlockType)
  /\ FedBlocks
  /\ Progress

LEMMA InitIInv == Init => IInv
<1> SUFFICES ASSUME Init PROVE IInv
  OBVIOUS
<1>1. fed \in Seq(BlockType) /\ Len(fed) = 0
  BY EmptySeq DEF Init
<1>2. state \in [1..4 -> Words]
  <2>1. /\ Bits(1732584193) \in Words /\ Bits(-271733879) \in Words
        /\ Bits(-1732584194) \in Words /\ Bits(271733878) \in Words
    BY BitsType
  <2> QED BY <2>1 DEF Init
<1>3. TypeOK
  BY <1>2, ZeroBlkType DEF Init, TypeOK, Words, BlockType
<1>4. s \in Seq(0..255)
  BY <1>3, TextsAreSequences
<1>5. Progress
  BY <1>1, <1>4, LenProperties DEF Init, Progress
<1>6. FedBlocks
  BY <1>1 DEF FedBlocks
<1> QED BY <1>1, <1>3, <1>5, <1>6 DEF IInv

LEMMA LastOrBefore == \A l \in Nat : \A n \in 1..l + 1 : n \in 1..l \/ n = l + 1
OBVIOUS

(* What a call of md5cycle does to the invariant, whatever the block       *)
LEMMA CycleKeeps ==
  ASSUME IInv, NEW block \in BlockType, Cycle(block),
         \A w \in 0..15 : block[w] = PadWord(s, 16 * Len(fed) + w)
  PROVE  /\ fed' \in Seq(BlockType) /\ Len(fed') = Len(fed) + 1
         /\ FedBlocks'
         /\ s' = s /\ line' \in 0..64
         /\ k' \in BlockType /\ state' \in [1..4 -> Words] /\ reg' \in [1..4 -> Words]
<1>1. /\ fed \in Seq(BlockType) /\ fed' = Append(fed, block) /\ s' = s
  BY DEF IInv, Cycle
<1>2. Len(fed) \in Nat
  BY <1>1, LenProperties
<1>3. /\ fed' \in Seq(BlockType) /\ Len(fed') = Len(fed) + 1
      /\ \A n \in 1..Len(fed) : fed'[n] = fed[n]
      /\ fed'[Len(fed) + 1] = block
  <2> DEFINE more == Append(fed, block)
  <2>1. /\ more \in Seq(BlockType) /\ Len(more) = Len(fed) + 1
        /\ \A n \in 1..Len(fed) : more[n] = fed[n]
        /\ more[Len(fed) + 1] = block
    BY <1>1, AppendProperties
  <2> HIDE DEF more
  <2>2. fed' = more
    BY <1>1 DEF more
  <2> QED BY <2>1, <2>2
<1>4. ASSUME NEW n \in 1..Len(fed'), NEW w \in 0..15
      PROVE  fed'[n][w] = PadWord(s', 16 * (n - 1) + w)
  <2>1. CASE n \in 1..Len(fed)
    BY <1>1, <1>3, <2>1 DEF IInv, FedBlocks
  <2>2. CASE n = Len(fed) + 1
    <3>1. n - 1 = Len(fed)
      BY <1>2, <2>2
    <3> QED BY <1>1, <1>3, <2>2, <3>1
  <2>3. n \in 1..Len(fed) + 1
    BY <1>3
  <2>4. n \in 1..Len(fed) \/ n = Len(fed) + 1
    BY <1>2, <2>3, LastOrBefore
  <2> QED BY <2>1, <2>2, <2>4
<1>5. FedBlocks'
  BY <1>4 DEF FedBlocks
<1>6. /\ line' = 0 /\ k' = block /\ reg' = state /\ state' = state
      /\ state \in [1..4 -> Words]
  BY DEF IInv, TypeOK, Cycle, Words
<1>7. line' \in 0..64
  BY <1>6
<1> QED BY <1>1, <1>3, <1>5, <1>6, <1>7

(* The first w words of the padded text are not its length.                *)
LEMMA PadWordOf ==
  ASSUME NEW text, NEW m \in Nat, NEW w \in 0..15,
         16 * m + w # 16 * Blocks(text) - 2
  PROVE  PadWord(text, 16 * m + w)
           = Pack(PadByte(text, 64 * m + 4 * w), PadByte(text, 64 * m + 4 * w + 1),
                  PadByte(text, 64 * m + 4 * w + 2), PadByte(text, 64 * m + 4 * w + 3))
<1>1. 4 * (16 * m + w) = 64 * m + 4 * w
  OBVIOUS
<1> QED BY <1>1 DEF PadWord

LEMMA NextBlockKeeps == ASSUME IInv, NextBlock PROVE IInv'
<1> DEFINE m == Len(fed)
<1>1. /\ m \in Nat /\ s \in Seq(0..255) /\ Len(s) \in Nat
      /\ i = 64 * (m + 1) /\ i <= Len(s) /\ pc = "blocks"
  BY TextsAreSequences, LenProperties DEF IInv, Progress, NextBlock
<1>2. m + 2 <= Blocks(s) /\ Blocks(s) \in Nat
  BY <1>1, BlockCount
<1>3. Blk(s, i) \in BlockType
  BY <1>1, BlkType
<1>4. ASSUME NEW w \in 0..15
      PROVE  Blk(s, i)[w] = PadWord(s, 16 * m + w)
  <2>1. \A j \in 0..3 : PadByte(s, 64 * m + 4 * w + j) = s[64 * m + 4 * w + j + 1]
    BY <1>1 DEF PadByte
  <2>2. /\ PadByte(s, 64 * m + 4 * w) = s[64 * m + 4 * w + 1]
        /\ PadByte(s, 64 * m + 4 * w + 1) = s[64 * m + 4 * w + 2]
        /\ PadByte(s, 64 * m + 4 * w + 2) = s[64 * m + 4 * w + 3]
        /\ PadByte(s, 64 * m + 4 * w + 3) = s[64 * m + 4 * w + 4]
    BY <1>1, <2>1
  <2>3. i - 64 + 4 * w = 64 * m + 4 * w
    BY <1>1
  <2>4. Blk(s, i)[w] = Pack(s[64 * m + 4 * w + 1], s[64 * m + 4 * w + 2],
                            s[64 * m + 4 * w + 3], s[64 * m + 4 * w + 4])
    BY <2>3 DEF Blk
  <2>5. 16 * m + w # 16 * Blocks(s) - 2
    BY <1>1, <1>2
  <2>6. PadWord(s, 16 * m + w)
          = Pack(PadByte(s, 64 * m + 4 * w), PadByte(s, 64 * m + 4 * w + 1),
                 PadByte(s, 64 * m + 4 * w + 2), PadByte(s, 64 * m + 4 * w + 3))
    <3> HIDE DEF m
    <3>1. m \in Nat /\ s \in Seq(0..255)
      BY <1>1
    <3> QED BY ONLY <2>5, <3>1, w \in 0..15, PadWordOf
  <2> QED BY <2>2, <2>4, <2>6
<1>5. Cycle(Blk(s, i)) /\ i' = i + 64 /\ pc' = pc
  BY DEF NextBlock
<1>6. /\ fed' \in Seq(BlockType) /\ Len(fed') = m + 1 /\ FedBlocks' /\ s' = s
      /\ line' \in 0..64 /\ k' \in BlockType
      /\ state' \in [1..4 -> Words] /\ reg' \in [1..4 -> Words]
  BY <1>3, <1>4, <1>5, CycleKeeps
<1>7. TypeOK'
  <2>1. i' \in Nat
    BY <1>1, <1>5
  <2> QED BY <2>1, <1>5, <1>6 DEF IInv, TypeOK, Words, BlockType
<1>8. Progress'
  BY <1>1, <1>5, <1>6 DEF Progress
<1> QED BY <1>6, <1>7, <1>8 DEF IInv

LEMMA TailIsFed ==
  ASSUME NEW text \in Seq(0..255), NEW m \in Nat, 64 * m <= Len(text),
         NEW w \in 0..15, 16 * m + w # 16 * Blocks(text) - 2
  PROVE  TailBlk(SubSeq(text, 64 * m + 1, Len(text)))[w] = PadWord(text, 16 * m + w)
<1> DEFINE rest == SubSeq(text, 64 * m + 1, Len(text))
<1>1. \A p \in Nat : TailByte(rest, p) = PadByte(text, 64 * m + p)
  BY TailIsPadding
<1> HIDE DEF rest
<1>2. 4 * w \in Nat /\ 4 * w + 1 \in Nat /\ 4 * w + 2 \in Nat /\ 4 * w + 3 \in Nat
  OBVIOUS
<1>3. /\ 64 * m + (4 * w + 1) = 64 * m + 4 * w + 1
      /\ 64 * m + (4 * w + 2) = 64 * m + 4 * w + 2
      /\ 64 * m + (4 * w + 3) = 64 * m + 4 * w + 3
  OBVIOUS
<1>4. /\ TailByte(rest, 4 * w) = PadByte(text, 64 * m + 4 * w)
      /\ TailByte(rest, 4 * w + 1) = PadByte(text, 64 * m + 4 * w + 1)
      /\ TailByte(rest, 4 * w + 2) = PadByte(text, 64 * m + 4 * w + 2)
      /\ TailByte(rest, 4 * w + 3) = PadByte(text, 64 * m + 4 * w + 3)
  BY <1>1, <1>2, <1>3
<1>5. TailBlk(rest)[w] = Pack(TailByte(rest, 4 * w), TailByte(rest, 4 * w + 1),
                              TailByte(rest, 4 * w + 2), TailByte(rest, 4 * w + 3))
  BY DEF TailBlk
<1>6. PadWord(text, 16 * m + w)
        = Pack(PadByte(text, 64 * m + 4 * w), PadByte(text, 64 * m + 4 * w + 1),
               PadByte(text, 64 * m + 4 * w + 2), PadByte(text, 64 * m + 4 * w + 3))
  BY PadWordOf
<1> QED BY <1>4, <1>5, <1>6 DEF rest

(* The word before the last one is the length.                             *)
LEMMA LengthWord ==
  ASSUME NEW text \in Seq(0..255), NEW m \in Nat, m + 1 = Blocks(text)
  PROVE  PadWord(text, 16 * m + 14) = Bits(8 * Len(text))
<1>1. 16 * m + 14 = 16 * Blocks(text) - 2
  OBVIOUS
<1> QED BY <1>1 DEF PadWord

LEMMA TailBlockKeeps == ASSUME IInv, TailBlock PROVE IInv'
<1>1. PICK m \in Nat : m = Len(fed)
  BY LenProperties DEF IInv
<1>2. /\ s \in Seq(0..255) /\ Len(s) \in Nat
      /\ i = 64 * (m + 1) /\ i > Len(s) /\ 64 * m <= Len(s) /\ pc = "blocks"
  BY <1>1, TextsAreSequences, LenProperties DEF IInv, Progress, TailBlock
<1>3. PICK rest : rest = SubSeq(s, 64 * m + 1, Len(s))
  OBVIOUS
<1>4. rest \in Seq(0..255) /\ Len(rest) = Len(s) - 64 * m
  BY <1>2, <1>3, RestType
<1>5. TailBlk(rest) \in BlockType
  BY <1>4, TailBlkType
<1>6. i - 63 = 64 * m + 1
  BY <1>2
<1>7. i' = i /\ IF Len(rest) > 55
                THEN Cycle(TailBlk(rest)) /\ pc' = "length"
                ELSE /\ Cycle([TailBlk(rest) EXCEPT ![14] = Bits(8 * Len(s))])
                     /\ pc' = "done"
  BY <1>3, <1>6 DEF TailBlock
<1>8. CASE Len(rest) > 55
  <2>1. Cycle(TailBlk(rest)) /\ pc' = "length"
    BY <1>7, <1>8
  <2>2. Blocks(s) = m + 2
    BY <1>2, <1>4, <1>8, BlockCount
  <2>3. ASSUME NEW w \in 0..15 PROVE TailBlk(rest)[w] = PadWord(s, 16 * m + w)
    <3>1. 16 * m + w # 16 * Blocks(s) - 2
      BY <2>2
    <3> QED BY <1>2, <1>3, <3>1, TailIsFed
  <2>4. /\ fed' \in Seq(BlockType) /\ Len(fed') = m + 1 /\ FedBlocks' /\ s' = s
        /\ line' \in 0..64 /\ k' \in BlockType
        /\ state' \in [1..4 -> Words] /\ reg' \in [1..4 -> Words]
    BY <1>1, <1>5, <2>1, <2>3, CycleKeeps
  <2>5. TypeOK'
    BY <1>7, <2>1, <2>4 DEF IInv, TypeOK, Words, BlockType
  <2>6. Progress'
    BY <1>2, <2>1, <2>2, <2>4 DEF Progress, Blocks
  <2> QED BY <2>4, <2>5, <2>6 DEF IInv
<1>9. CASE ~(Len(rest) > 55)
  <2> DEFINE block == [TailBlk(rest) EXCEPT ![14] = Bits(8 * Len(s))]
  <2>1. Cycle(block) /\ pc' = "done"
    BY <1>7, <1>9
  <2>2. Blocks(s) = m + 1
    BY <1>2, <1>4, <1>9, BlockCount
  <2>3. block \in BlockType
    BY <1>2, <1>5, LengthType
  <2>4. ASSUME NEW w \in 0..15 PROVE block[w] = PadWord(s, 16 * m + w)
    <3>1. CASE w = 14
      BY <1>2, <1>5, <2>2, <3>1, LengthWord DEF BlockType
    <3>2. CASE w # 14
      <4>1. block[w] = TailBlk(rest)[w]
        BY <1>5, <3>2 DEF BlockType
      <4>2. 16 * m + w # 16 * Blocks(s) - 2
        BY <2>2, <3>2
      <4> QED BY <1>2, <1>3, <4>1, <4>2, TailIsFed
    <3> QED BY <3>1, <3>2
  <2> HIDE DEF block
  <2>5. /\ fed' \in Seq(BlockType) /\ Len(fed') = m + 1 /\ FedBlocks' /\ s' = s
        /\ line' \in 0..64 /\ k' \in BlockType
        /\ state' \in [1..4 -> Words] /\ reg' \in [1..4 -> Words]
    BY <1>1, <2>1, <2>3, <2>4, CycleKeeps
  <2>6. TypeOK'
    BY <1>7, <2>1, <2>5 DEF IInv, TypeOK, Words, BlockType
  <2>7. Progress'
    BY <1>2, <2>1, <2>2, <2>5 DEF Progress, Blocks
  <2> QED BY <2>5, <2>6, <2>7 DEF IInv
<1> QED BY <1>8, <1>9

LEMMA LengthBlockKeeps == ASSUME IInv, LengthBlock PROVE IInv'
<1>1. PICK m \in Nat : m = Len(fed)
  BY LenProperties DEF IInv
<1>2. /\ s \in Seq(0..255) /\ Len(s) \in Nat
      /\ m + 1 = Blocks(s) /\ Len(s) < 64 * m
  BY <1>1, TextsAreSequences, LenProperties DEF IInv, Progress, LengthBlock
<1> DEFINE block == [ZeroBlk EXCEPT ![14] = Bits(8 * Len(s))]
<1>3. Cycle(block) /\ pc' = "done" /\ i' = i
  BY DEF LengthBlock
<1>4. block \in BlockType
  BY <1>2, ZeroBlkType, LengthType
<1>5. ASSUME NEW w \in 0..15 PROVE block[w] = PadWord(s, 16 * m + w)
  <2>1. CASE w = 14
    BY <1>2, <2>1, ZeroBlkType, LengthWord DEF BlockType
  <2>2. CASE w # 14
    <3>1. block[w] = Pack(0, 0, 0, 0)
      BY <2>2, ZeroBlkType DEF BlockType, ZeroBlk
    <3>2. /\ PadByte(s, 64 * m + 4 * w) = 0 /\ PadByte(s, 64 * m + 4 * w + 1) = 0
          /\ PadByte(s, 64 * m + 4 * w + 2) = 0 /\ PadByte(s, 64 * m + 4 * w + 3) = 0
      BY <1>2 DEF PadByte
    <3>3. 16 * m + w # 16 * Blocks(s) - 2
      BY <1>2, <2>2
    <3>4. PadWord(s, 16 * m + w)
            = Pack(PadByte(s, 64 * m + 4 * w), PadByte(s, 64 * m + 4 * w + 1),
                   PadByte(s, 64 * m + 4 * w + 2), PadByte(s, 64 * m + 4 * w + 3))
      BY <3>3, PadWordOf
    <3> QED BY <3>1, <3>2, <3>4
  <2> QED BY <2>1, <2>2
<1> HIDE DEF block
<1>6. /\ fed' \in Seq(BlockType) /\ Len(fed') = m + 1 /\ FedBlocks' /\ s' = s
      /\ line' \in 0..64 /\ k' \in BlockType
      /\ state' \in [1..4 -> Words] /\ reg' \in [1..4 -> Words]
  BY <1>1, <1>3, <1>4, <1>5, CycleKeeps
<1>7. TypeOK'
  BY <1>3, <1>6 DEF IInv, TypeOK, Words, BlockType
<1>8. Progress'
  BY <1>2, <1>3, <1>6 DEF Progress, Blocks
<1> QED BY <1>6, <1>7, <1>8 DEF IInv

LEMMA NextIInv == IInv /\ [Next]_vars => IInv'
<1> SUFFICES ASSUME IInv, [Next]_vars PROVE IInv'
  OBVIOUS
<1>1. CASE MixLine
  <2>1. TypeOK'
    BY <1>1, MixType DEF IInv
  <2>2. UNCHANGED <<s, i, pc, fed>>
    BY <1>1 DEF MixLine
  <2> QED BY <2>1, <2>2 DEF IInv, FedBlocks, Progress, Blocks, PadWord, PadByte
<1>2. CASE NextBlock
  BY <1>2, NextBlockKeeps
<1>3. CASE TailBlock
  BY <1>3, TailBlockKeeps
<1>4. CASE LengthBlock
  BY <1>4, LengthBlockKeeps
<1>5. CASE UNCHANGED vars
  <2>1. UNCHANGED <<s, i, state, reg, k, line, pc, fed>>
    BY <1>5 DEF vars
  <2>2. TypeOK'
    BY <2>1 DEF IInv, TypeOK
  <2> QED BY <2>1, <2>2 DEF IInv, FedBlocks, Progress, Blocks, PadWord, PadByte
<1> QED BY <1>1, <1>2, <1>3, <1>4, <1>5 DEF Next

LEMMA PaddedHolds == IInv => Padded
<1> SUFFICES ASSUME IInv PROVE Padded
  OBVIOUS
<1>1. Len(fed) \in Nat /\ s \in Seq(0..255) /\ Len(s) \in Nat
  BY TextsAreSequences, LenProperties DEF IInv
<1>2. Blocks(s) \in Nat
  BY <1>1, BlockCount
<1>3. pc \in {"blocks", "length", "done"}
  BY DEF IInv, TypeOK
<1>4. pc = "blocks" => Len(fed) <= Blocks(s)
  BY <1>1 DEF IInv, Progress, Blocks
<1>5. Len(fed) <= Blocks(s)
  BY <1>1, <1>2, <1>3, <1>4 DEF IInv, Progress
<1> QED BY <1>5 DEF IInv, FedBlocks, Progress, Padded

-----------------------------------------------------------------------------
(* add32.                                                                  *)

LEMMA DivMod ==
  ASSUME NEW n \in Int, NEW d \in Nat \ {0}
  PROVE  /\ n \div d \in Int /\ n % d \in 0..d - 1
         /\ n = d * (n \div d) + (n % d)
BY SMT

LEMMA NoMultiple ==
  ASSUME NEW d \in Nat \ {0}, NEW z \in Int, -d < d * z, d * z < d
  PROVE z = 0
<1>1. CASE z >= 1
  <2>1. d * z >= d
    BY <1>1, SMT
  <2> QED BY <2>1, SMT
<1>2. CASE z <= -1
  <2>1. d * z <= -d
    BY <1>2, SMT
  <2> QED BY <2>1, SMT
<1> QED BY <1>1, <1>2, SMT

LEMMA Unique ==
  ASSUME NEW d \in Nat \ {0}, NEW n \in Int, NEW q \in Int, NEW r \in 0..d - 1, n = d * q + r
  PROVE  n % d = r /\ n \div d = q
<1>1. PICK qq \in Int : qq = n \div d
  BY DivMod
<1>2. PICK rr \in 0..d-1 : rr = n % d
  BY DivMod
<1>3. n = d * qq + rr
  BY <1>1, <1>2, DivMod
<1>4. d * (q - qq) = rr - r
  BY <1>3, SMT
<1>5. q - qq = 0
  BY <1>4, NoMultiple, SMT
<1> QED BY <1>1, <1>2, <1>4, <1>5, SMT

(* A number below h does not change what wraps.                            *)
LEMMA WrapLow ==
  ASSUME NEW g \in Nat \ {0}, NEW h \in Nat \ {0}, h = 2 * g,
         NEW m \in Int, NEW l \in 0..h - 1
  PROVE  Wrap(h, m * h) + l = Wrap(h, m * h + l)
<1>1. PICK hh \in Nat \ {0} : hh = h * h
  <2>1. h * h \in Nat \ {0}
    BY SMT
  <2> QED BY <2>1
<1>2. PICK half \in Nat : half = hh \div 2 /\ half = h * g
  <2>1. h * h = 2 * (h * g)
    BY SMT
  <2>2. h * g \in Nat
    BY SMT
  <2>3. hh \div 2 = h * g
    BY <1>1, <2>1, <2>2, SMT
  <2> QED BY <2>2, <2>3
<1>3. PICK a \in Int : a = m + g
  BY SMT
<1>4. PICK q \in Int, r \in 0..h - 1 : a = h * q + r
  <2>1. a \div h \in Int /\ a % h \in 0..h - 1 /\ a = h * (a \div h) + (a % h)
    BY DivMod
  <2> QED BY <2>1
<1>5. m * h + half = hh * q + h * r
  BY <1>1, <1>2, <1>3, <1>4, SMT
<1>6. h * r \in 0..hh - h
  BY <1>1, SMT
<1>7. (m * h + half) % hh = h * r
  <2>1. m * h + half \in Int /\ h * r \in 0..hh - 1
    BY <1>6, SMT
  <2> QED BY <1>5, <2>1, Unique
<1>8. (m * h + l + half) % hh = h * r + l
  <2>1. m * h + l + half \in Int /\ h * r + l \in 0..hh - 1
    BY <1>6, SMT
  <2>2. m * h + l + half = hh * q + (h * r + l)
    BY <1>5, SMT
  <2> QED BY <2>1, <2>2, Unique
<1>9. Wrap(h, m * h) = h * r - half /\ Wrap(h, m * h + l) = h * r + l - half
  BY <1>1, <1>2, <1>7, <1>8 DEF Wrap
<1>10. h * r \in Int
  BY <1>6, SMT
<1> QED BY <1>9, <1>10, SMT

(* The two functions add32 of the page are one, with 65536 values to the   *)
(* half of a word or any other even number: whichever the browser takes,   *)
(* the digest is the same.                                                 *)
THEOREM EitherAdd32 ==
  ASSUME NEW g \in Nat \ {0}, NEW x \in Int, NEW y \in Int
  PROVE  AddHalves(2 * g, x, y) = AddWhole(2 * g, x, y)
<1>1. PICK h \in Nat \ {0} : h = 2 * g
  BY SMT
<1> DEFINE lsw == (x % h) + (y % h)
           msw == (x \div h) + (y \div h) + (lsw \div h)
<1>2. /\ x \div h \in Int /\ x % h \in Int /\ x = h * (x \div h) + (x % h)
      /\ y \div h \in Int /\ y % h \in Int /\ y = h * (y \div h) + (y % h)
  BY DivMod, SMT
<1>3. lsw \in Int
  BY <1>2, SMT
<1>4. lsw \div h \in Int /\ lsw % h \in 0..h - 1 /\ lsw = h * (lsw \div h) + (lsw % h)
  BY <1>3, DivMod
<1>5. msw \in Int /\ x + y = msw * h + (lsw % h)
  BY <1>2, <1>4, SMT
<1>6. Wrap(h, msw * h) + (lsw % h) = Wrap(h, x + y)
  <2> HIDE DEF lsw, msw
  <2>1. Wrap(h, msw * h) + (lsw % h) = Wrap(h, msw * h + (lsw % h))
    BY <1>1, <1>4, <1>5, WrapLow
  <2> QED BY <1>5, <2>1
<1> QED BY <1>1, <1>6 DEF AddHalves, AddWhole

-----------------------------------------------------------------------------
(* The theorems about md51.                                                *)

(* The words of md5cycle are words of 32 bits for every text.              *)
THEOREM TypeCorrect == Spec => []TypeOK
<1>1. IInv => TypeOK
  BY DEF IInv
<1> QED BY <1>1, InitIInv, NextIInv, PTL DEF Spec

(* For a text of any length md5cycle is called with the blocks of the      *)
(* padded text, in order and to the end.                                   *)
THEOREM BlocksArePadded == Spec => []Padded
BY InitIInv, NextIInv, PaddedHolds, PTL DEF Spec

-----------------------------------------------------------------------------
(* The search: the order of the words and the two iterators.               *)

AnyWord == Seq(S!Letters)

(* What an iterator may hold: a word, or the one before the first of its   *)
(* length, whose last letter is one below FIRST                            *)
Position == {c \in Seq(-1..LAST) : \A l \in 1..Len(c) - 1 : c[l] \in S!Letters}

LEMMA LettersAre ==
  /\ LAST \in Nat /\ ChunkLength \in Nat \ {0} /\ None \notin AnyWord
  /\ S!FIRST = 0 /\ S!Letters = 0..LAST
  BY SearchAssumption DEF S!WordSearchAssumption, S!Letters, S!FIRST, AnyWord

LEMMA WordType ==
  ASSUME NEW w \in AnyWord
  PROVE  /\ Len(w) \in Nat /\ DOMAIN w = 1..Len(w) /\ w \in Position
         /\ \A l \in 1..Len(w) : w[l] \in 0..LAST
<1>1. /\ Len(w) \in Nat /\ DOMAIN w = 1..Len(w)
      /\ \A l \in 1..Len(w) : w[l] \in 0..LAST
  BY LettersAre, LenProperties, ElementOfSeq DEF AnyWord
<1>2. w \in Seq(-1..LAST)
  BY LettersAre DEF AnyWord
<1> QED BY <1>1, <1>2, LettersAre DEF Position

LEMMA PositionType ==
  ASSUME NEW c \in Position
  PROVE  /\ Len(c) \in Nat /\ DOMAIN c = 1..Len(c)
         /\ \A l \in 1..Len(c) : c[l] \in -1..LAST
         /\ \A l \in 1..Len(c) - 1 : c[l] \in 0..LAST
  BY LettersAre, LenProperties, ElementOfSeq DEF Position

(* Two words of one length differ at a first letter.                       *)
LEMMA FirstDifference ==
  ASSUME NEW T, NEW u \in Seq(T), NEW v \in Seq(T), Len(u) = Len(v), u # v
  PROVE  \E l \in 1..Len(u) : u[l] # v[l] /\ \A m \in 1..l - 1 : u[m] = v[m]
<1> DEFINE D == {l \in 1..Len(u) : u[l] # v[l]}
<1>1. Len(u) \in Nat
  BY LenProperties
<1>2. D \in SUBSET Nat /\ D # {}
  BY <1>1, SeqEqual
<1>3. PICK l \in D : \A m \in D : l =< m
  <2> HIDE DEF D
  <2> QED BY <1>2, LeastNatural
<1>4. \A m \in 1..l - 1 : m \in 1..Len(u) /\ m \notin D
  BY <1>1, <1>3
<1> QED BY <1>3, <1>4

(* A set of positions that is not empty has a last one.                    *)
LEMMA MaxIsLast ==
  ASSUME NEW n \in Nat, NEW R \in SUBSET (1..n), R # {}
  PROVE  S!Max(R) \in R /\ \A x \in R : x =< S!Max(R)
<1> DEFINE T == {n - x : x \in R}
<1>1. T \in SUBSET Nat /\ T # {}
  <2>1. \A x \in R : n - x \in Nat
    OBVIOUS
  <2> QED BY <2>1
<1>2. PICK t \in T : \A y \in T : t =< y
  <2> HIDE DEF T
  <2> QED BY <1>1, LeastNatural
<1>3. PICK z \in R : t = n - z
  BY <1>2
<1>4. \A x \in R : n - x \in T
  OBVIOUS
<1>5. ASSUME NEW x \in R PROVE z >= x
  <2>1. n - z =< n - x
    BY <1>2, <1>3, <1>4
  <2> HIDE DEF T
  <2>2. x \in 1..n /\ z \in 1..n
    BY <1>3
  <2> QED BY <2>1, <2>2
<1>6. \E x \in R : \A y \in R : x >= y
  BY <1>5
<1>7. S!Max(R) \in R /\ \A y \in R : S!Max(R) >= y
  BY <1>6 DEF S!Max
<1> QED BY <1>7

(* incr, said without Max                                                  *)
LEMMA IncrRaises ==
  ASSUME NEW c, NEW n \in Nat, DOMAIN c = 1..n, Len(c) = n
  PROVE  \/ /\ \A l \in 1..n : c[l] = LAST
            /\ S!Incr(c) = [l \in 1..n + 1 |-> 0]
         \/ \E m \in 1..n :
              /\ c[m] # LAST /\ \A l \in m + 1..n : c[l] = LAST
              /\ S!Incr(c) = [l \in 1..n |-> IF l < m THEN c[l]
                                             ELSE IF l = m THEN c[m] + 1 ELSE 0]
<1> DEFINE R == {l \in DOMAIN c : c[l] # LAST}
<1>1. CASE R = {}
  <2>1. S!Incr(c) = [l \in 1..n + 1 |-> 0]
    BY <1>1, LettersAre DEF S!Incr
  <2> QED BY <1>1, <2>1
<1>2. CASE R # {}
  <2>1. PICK m : m = S!Max(R)
    OBVIOUS
  <2>2. m \in R /\ \A x \in R : x =< m
    BY <1>2, <2>1, MaxIsLast
  <2>3. S!Incr(c) = [l \in DOMAIN c |-> CASE l < S!Max(R) -> c[l]
                                         [] l = S!Max(R) -> c[l] + 1
                                         [] l > S!Max(R) -> S!FIRST]
    BY <1>2 DEF S!Incr
  <2>4. S!Incr(c) = [l \in 1..n |-> CASE l < m -> c[l]
                                      [] l = m -> c[l] + 1
                                      [] l > m -> S!FIRST]
    <3> HIDE DEF R
    <3> QED BY <2>1, <2>3
  <2>5. S!Incr(c) = [l \in 1..n |-> IF l < m THEN c[l]
                                    ELSE IF l = m THEN c[m] + 1 ELSE 0]
    <3>1. ASSUME NEW l \in 1..n
          PROVE  (CASE l < m -> c[l] [] l = m -> c[l] + 1 [] l > m -> S!FIRST)
                 = IF l < m THEN c[l] ELSE IF l = m THEN c[m] + 1 ELSE 0
      BY <2>2, LettersAre
    <3> QED BY <2>4, <3>1, Zenon
  <2>6. \A l \in m + 1..n : c[l] = LAST
    BY <2>2
  <2> QED BY <2>2, <2>5, <2>6
<1> QED BY <1>1, <1>2

(* incr makes a word of letters of the alphabet: of the same length unless *)
(* all of them were LAST.                                                  *)
LEMMA IncrType ==
  ASSUME NEW c \in Position
  PROVE  /\ S!Incr(c) \in AnyWord /\ S!Incr(c) # << >>
         /\ Len(S!Incr(c)) = IF \A l \in 1..Len(c) : c[l] = LAST
                             THEN Len(c) + 1 ELSE Len(c)
<1>1. /\ Len(c) \in Nat /\ DOMAIN c = 1..Len(c)
      /\ \A l \in 1..Len(c) : c[l] \in -1..LAST
      /\ \A l \in 1..Len(c) - 1 : c[l] \in 0..LAST
  BY PositionType
<1> DEFINE n == Len(c)
<1>2. CASE (\A l \in 1..n : c[l] = LAST) /\ S!Incr(c) = [l \in 1..n + 1 |-> 0]
  <2>1. S!Incr(c) \in AnyWord /\ Len(S!Incr(c)) = n + 1
    BY <1>1, <1>2, LettersAre, IsASeq, LenProperties DEF AnyWord
  <2> QED BY <1>1, <1>2, <2>1, EmptySeq
<1>3. ASSUME NEW m \in 1..n, c[m] # LAST,
             S!Incr(c) = [l \in 1..n |-> IF l < m THEN c[l]
                                         ELSE IF l = m THEN c[m] + 1 ELSE 0]
      PROVE  S!Incr(c) \in AnyWord /\ Len(S!Incr(c)) = n
  <2>1. \A l \in 1..n : (IF l < m THEN c[l] ELSE IF l = m THEN c[m] + 1 ELSE 0)
                        \in S!Letters
    BY <1>1, <1>3, LettersAre
  <2> QED BY <1>1, <1>3, <2>1, IsASeq, LenProperties DEF AnyWord
<1> HIDE DEF n
<1>4. \/ (\A l \in 1..n : c[l] = LAST) /\ S!Incr(c) = [l \in 1..n + 1 |-> 0]
      \/ \E m \in 1..n :
           /\ c[m] # LAST /\ \A l \in m + 1..n : c[l] = LAST
           /\ S!Incr(c) = [l \in 1..n |-> IF l < m THEN c[l]
                                          ELSE IF l = m THEN c[m] + 1 ELSE 0]
  BY <1>1, IncrRaises DEF n
<1>5. CASE \E m \in 1..n : c[m] # LAST /\ S!Incr(c) \in AnyWord /\ Len(S!Incr(c)) = n
  <2>1. n \in Nat \ {0} /\ Len(<< >>) = 0
    BY <1>1, <1>5, EmptySeq DEF n
  <2> QED BY <1>5, <2>1 DEF n
<1> QED BY <1>2, <1>3, <1>4, <1>5

(* The words that come before c in the order, and c itself if it is one    *)
UpTo(c) == {u \in AnyWord : S!Before(u, c)}

(* What this says of words of different lengths and of one length          *)
LEMMA UpToLength ==
  ASSUME NEW u \in AnyWord, NEW c \in Position
  PROVE  /\ Len(u) < Len(c) => u \in UpTo(c)
         /\ Len(u) > Len(c) => u \notin UpTo(c)
<1>1. Len(u) \in Nat /\ Len(c) \in Nat
  BY WordType, PositionType
<1> QED BY <1>1 DEF UpTo, S!Before

LEMMA UpToLess ==
  ASSUME NEW u \in AnyWord, NEW c \in Position, Len(u) = Len(c)
  PROVE  u \in UpTo(c) <=>
           \/ u = c
           \/ \E l \in 1..Len(c) : u[l] < c[l] /\ \A m \in 1..l - 1 : u[m] = c[m]
<1>1. Len(u) \in Nat /\ Len(c) \in Nat /\ DOMAIN u = 1..Len(c)
  BY WordType, PositionType
<1> QED BY <1>1 DEF UpTo, S!Before

(* What an iterator raises comes next in the order: no word lies between.  *)
LEMMA IncrIsNext ==
  ASSUME NEW c \in Position, NEW u \in AnyWord
  PROVE  u \in UpTo(S!Incr(c)) <=> u \in UpTo(c) \/ u = S!Incr(c)
<1>1. PICK n \in Nat :
        /\ n = Len(c) /\ DOMAIN c = 1..n /\ c \in Seq(-1..LAST)
        /\ \A l \in 1..n : c[l] \in -1..LAST
        /\ \A l \in 1..n - 1 : c[l] \in 0..LAST
  BY PositionType DEF Position
<1>2. /\ Len(u) \in Nat /\ DOMAIN u = 1..Len(u) /\ u \in Seq(-1..LAST)
      /\ \A l \in 1..Len(u) : u[l] \in 0..LAST
  BY WordType DEF Position
<1>3. PICK d : d = S!Incr(c)
  OBVIOUS
<1>4. d \in Position /\ Len(d) \in Nat /\ DOMAIN d = 1..Len(d)
  BY <1>3, IncrType, WordType DEF Position
<1>5. \/ (\A l \in 1..n : c[l] = LAST) /\ d = [l \in 1..n + 1 |-> 0]
      \/ \E m \in 1..n :
           /\ c[m] # LAST /\ \A l \in m + 1..n : c[l] = LAST
           /\ d = [l \in 1..n |-> IF l < m THEN c[l] ELSE IF l = m THEN c[m] + 1 ELSE 0]
  BY <1>1, <1>3, IncrRaises
<1>6. /\ Len(u) < n => u \in UpTo(c)
      /\ Len(u) > n => u \notin UpTo(c)
      /\ Len(u) < Len(d) => u \in UpTo(d)
      /\ Len(u) > Len(d) => u \notin UpTo(d)
  BY <1>1, <1>4, UpToLength
<1>7. Len(u) = n =>
        (u \in UpTo(c) <=>
           \/ u = c
           \/ \E l \in 1..n : u[l] < c[l] /\ \A x \in 1..l - 1 : u[x] = c[x])
  BY <1>1, UpToLess
<1>8. Len(u) = Len(d) =>
        (u \in UpTo(d) <=>
           \/ u = d
           \/ \E l \in 1..Len(d) : u[l] < d[l] /\ \A x \in 1..l - 1 : u[x] = d[x])
  BY <1>4, UpToLess
(* A letter that is LAST is in no word lower than in another one.          *)
<1>9. ASSUME Len(u) = n, NEW m \in 0..n, \A l \in 1..m : u[l] = c[l],
             \A l \in m + 1..n : c[l] = LAST
      PROVE  u \in UpTo(c)
  <2>1. CASE u = c
    BY <1>7, <1>9, <2>1
  <2>2. CASE u # c
    <3>1. Len(u) = Len(c)
      BY <1>1, <1>9
    <3>2. c \in Seq(-1..LAST) /\ u \in Seq(-1..LAST)
      BY <1>1, <1>2
    <3>3. PICK l \in 1..n : u[l] # c[l] /\ \A x \in 1..l - 1 : u[x] = c[x]
      BY <1>9, <2>2, <3>1, <3>2, FirstDifference
    <3>4. l > m
      BY <1>9, <3>3
    <3>5. c[l] = LAST /\ u[l] \in 0..LAST
      BY <1>2, <1>9, <3>4
    <3>6. u[l] < c[l]
      BY <3>3, <3>5, LettersAre
    <3> QED BY <1>7, <1>9, <3>3, <3>6
  <2> QED BY <2>1, <2>2
<1>10. ASSUME \A l \in 1..n : c[l] = LAST, d = [l \in 1..n + 1 |-> 0]
       PROVE  u \in UpTo(d) <=> u \in UpTo(c) \/ u = d
  <2>1. Len(d) = n + 1 /\ \A l \in 1..n + 1 : d[l] = 0
    BY <1>1, <1>4, <1>10
  <2>2. CASE Len(u) < n
    BY <1>1, <1>2, <1>6, <2>1, <2>2
  <2>3. CASE Len(u) = n
    <3>1. u \in UpTo(c)
      BY <1>9, <1>10, <2>3
    <3> QED BY <1>1, <1>6, <2>1, <2>3, <3>1
  <2>4. CASE Len(u) = n + 1
    <3>1. u \in UpTo(d) <=> u = d
      BY <1>2, <1>8, <2>1, <2>4
    <3>2. u \notin UpTo(c)
      BY <1>1, <1>6, <2>4
    <3> QED BY <3>1, <3>2
  <2>5. CASE Len(u) > n + 1
    <3>1. u \notin UpTo(d) /\ u \notin UpTo(c) /\ u # d
      BY <1>1, <1>2, <1>6, <2>1, <2>5
    <3> QED BY <3>1
  <2>6. Len(u) \in Nat /\ n \in Nat
    BY <1>2
  <2>7. Len(u) < n \/ Len(u) = n \/ Len(u) = n + 1 \/ Len(u) > n + 1
    BY <2>6
  <2> QED BY <2>2, <2>3, <2>4, <2>5, <2>7
<1>11. ASSUME NEW m \in 1..n, c[m] # LAST, \A l \in m + 1..n : c[l] = LAST,
              d = [l \in 1..n |-> IF l < m THEN c[l] ELSE IF l = m THEN c[m] + 1 ELSE 0]
       PROVE  u \in UpTo(d) <=> u \in UpTo(c) \/ u = d
  <2>1. /\ Len(d) = n /\ d[m] = c[m] + 1
        /\ \A l \in 1..m - 1 : d[l] = c[l]
        /\ \A l \in m + 1..n : d[l] = 0
    BY <1>1, <1>4, <1>11
  <2>2. c[m] \in Int
    BY <1>1
  <2>3. CASE Len(u) # n
    <3>1. u # d
      BY <2>1, <2>3
    <3>2. Len(u) < n => u \in UpTo(d) /\ u \in UpTo(c)
      BY <1>6, <2>1
    <3>3. Len(u) > n => u \notin UpTo(d) /\ u \notin UpTo(c)
      BY <1>6, <2>1
    <3>4. Len(u) \in Nat /\ n \in Nat
      BY <1>2
    <3>5. Len(u) < n \/ Len(u) > n
      BY <2>3, <3>4
    <3> QED BY <3>1, <3>2, <3>3, <3>5
  <2>4. ASSUME Len(u) = n, u \in UpTo(d), u # d
        PROVE  u \in UpTo(c)
    <3>1. PICK l \in 1..n : u[l] < d[l] /\ \A x \in 1..l - 1 : u[x] = d[x]
      BY <1>8, <2>1, <2>4
    <3>2. u[l] \in 0..LAST /\ u[m] \in 0..LAST
      BY <1>2, <2>4
    <3>3. l =< m
      BY <2>1, <3>1, <3>2
    <3>4. \A x \in 1..l - 1 : u[x] = c[x]
      BY <2>1, <3>1, <3>3
    <3>5. CASE u[l] < c[l]
      BY <1>7, <2>4, <3>4, <3>5
    <3>6. CASE ~(u[l] < c[l])
      <4>1. l = m
        BY <2>1, <3>1, <3>3, <3>6
      <4>2. \A x \in 1..m : u[x] = c[x]
        BY <2>1, <2>2, <3>1, <3>2, <3>4, <3>6, <4>1
      <4>3. m \in 0..n
        BY <1>1
      <4> QED BY <1>9, <1>11, <2>4, <4>2, <4>3
    <3> QED BY <3>5, <3>6
  <2>5. ASSUME Len(u) = n, NEW l \in 1..n, u[l] < d[l], \A x \in 1..l - 1 : u[x] = d[x]
        PROVE  u \in UpTo(d)
    BY <1>8, <2>1, <2>5
  <2>6. ASSUME Len(u) = n, u \in UpTo(c)
        PROVE  u \in UpTo(d)
    <3>1. CASE u = c
      <4>1. u[m] < d[m] /\ \A x \in 1..m - 1 : u[x] = d[x]
        BY <2>1, <2>2, <3>1
      <4> QED BY <2>5, <2>6, <4>1
    <3>2. CASE u # c
      <4>1. PICK l \in 1..n : u[l] < c[l] /\ \A x \in 1..l - 1 : u[x] = c[x]
        BY <1>7, <2>6, <3>2
      <4>2. CASE l < m
        <5>1. u[l] < d[l] /\ \A x \in 1..l - 1 : u[x] = d[x]
          BY <2>1, <4>1, <4>2
        <5> QED BY <2>5, <2>6, <5>1
      <4>3. CASE l = m
        <5>1. u[m] \in 0..LAST
          BY <1>2, <2>6
        <5>2. u[m] < d[m] /\ \A x \in 1..m - 1 : u[x] = d[x]
          BY <2>1, <2>2, <4>1, <4>3, <5>1, LettersAre
        <5> QED BY <2>5, <2>6, <5>2
      <4>4. CASE l > m
        <5>1. \A x \in 1..m : u[x] = c[x]
          BY <4>1, <4>4
        <5>2. u[m] < d[m] /\ \A x \in 1..m - 1 : u[x] = d[x]
          BY <2>1, <2>2, <5>1
        <5> QED BY <2>5, <2>6, <5>2
      <4> QED BY <4>2, <4>3, <4>4
    <3> QED BY <3>1, <3>2
  <2>7. u = d => u \in UpTo(d)
    BY <1>8
  <2> QED BY <2>3, <2>4, <2>6, <2>7
<1> QED BY <1>3, <1>5, <1>10, <1>11

(* It was not there before.                                                *)
LEMMA IncrIsNew ==
  ASSUME NEW c \in Position
  PROVE  S!Incr(c) \notin UpTo(c)
<1>1. PICK n \in Nat : n = Len(c) /\ DOMAIN c = 1..n /\ \A l \in 1..n : c[l] \in -1..LAST
  BY PositionType
<1>2. PICK d : d = S!Incr(c)
  OBVIOUS
<1>3. d \in AnyWord /\ Len(d) \in Nat /\ DOMAIN d = 1..Len(d)
  BY <1>2, IncrType, WordType
<1>4. \/ d = [l \in 1..n + 1 |-> 0]
      \/ \E m \in 1..n :
           d = [l \in 1..n |-> IF l < m THEN c[l] ELSE IF l = m THEN c[m] + 1 ELSE 0]
  BY <1>1, <1>2, IncrRaises
<1>5. CASE d = [l \in 1..n + 1 |-> 0]
  <2>1. Len(d) = n + 1
    BY <1>1, <1>3, <1>5
  <2>2. n = Len(c) /\ Len(d) > n
    BY <1>1, <2>1
  <2> QED BY <1>2, <1>3, <2>2, UpToLength
<1>6. ASSUME NEW m \in 1..n,
             d = [l \in 1..n |-> IF l < m THEN c[l] ELSE IF l = m THEN c[m] + 1 ELSE 0]
      PROVE  d \notin UpTo(c)
  <2>1. /\ Len(d) = n /\ DOMAIN d = 1..n /\ d[m] = c[m] + 1
        /\ \A l \in 1..m - 1 : d[l] = c[l]
    BY <1>1, <1>3, <1>6
  <2>2. d # c
    BY <1>1, <2>1
  <2>3. ASSUME NEW l \in 1..n, d[l] < c[l], \A x \in 1..l - 1 : d[x] = c[x]
        PROVE  FALSE
    <3>1. l >= m
      BY <1>1, <2>1, <2>3
    <3>2. l # m
      BY <1>1, <2>1, <2>3
    <3> QED BY <1>1, <2>1, <2>3, <3>1, <3>2
  <2>4. n = Len(c) /\ Len(d) = Len(c)
    BY <1>1, <2>1
  <2> QED BY <1>3, <2>2, <2>3, <2>4, UpToLess
<1> QED BY <1>2, <1>4, <1>5, <1>6

(* Nothing comes before the empty word, or before the first word of a      *)
(* length; and every word up to its length before one that is all LAST.    *)
LEMMA NoneBeforeEmpty ==
  ASSUME NEW u \in AnyWord, u # << >>
  PROVE  u \notin UpTo(<< >>)
<1>1. << >> \in AnyWord /\ Len(<< >>) = 0
  BY EmptySeq DEF AnyWord
<1>2. << >> \in Position
  BY <1>1, WordType
<1>3. Len(u) > 0
  BY EmptySeq DEF AnyWord
<1> QED BY <1>1, <1>2, <1>3, UpToLength

LEMMA EmptyUpToAny ==
  ASSUME NEW w \in AnyWord
  PROVE  << >> \in UpTo(w)
<1>1. << >> \in AnyWord /\ Len(<< >>) = 0
  BY EmptySeq DEF AnyWord
<1>2. w \in Position /\ Len(w) \in Nat /\ (w # << >> => Len(w) > 0)
  BY WordType, EmptySeq DEF AnyWord
<1>3. CASE w # << >>
  BY <1>1, <1>2, <1>3, UpToLength
<1>4. CASE w = << >>
  BY <1>1, <1>2, <1>4, UpToLess
<1> QED BY <1>3, <1>4

LEMMA NoneBeforeFirst ==
  ASSUME NEW c \in Position, c # << >>, c[Len(c)] = -1,
         \A l \in 1..Len(c) - 1 : c[l] = 0,
         NEW u \in AnyWord, Len(u) = Len(c)
  PROVE  u \notin UpTo(c)
<1>1. Len(c) \in Nat \ {0}
  BY EmptySeq DEF Position
<1>2. \A l \in 1..Len(c) : u[l] \in 0..LAST
  BY WordType
<1>3. u # c
  BY <1>1, <1>2
<1>4. \A l \in 1..Len(c) : c[l] \in {0, -1}
  BY <1>1
<1>5. \A l \in 1..Len(c) : ~(u[l] < c[l])
  BY <1>2, <1>4, LettersAre
<1> QED BY <1>3, <1>5, UpToLess

LEMMA AllBeforeLast ==
  ASSUME NEW c \in Position, \A l \in 1..Len(c) : c[l] = LAST,
         NEW u \in AnyWord, Len(u) <= Len(c)
  PROVE  u \in UpTo(c)
<1>1. S!Incr(c) \in AnyWord /\ Len(S!Incr(c)) = Len(c) + 1
  BY IncrType
<1>2. Len(u) \in Nat /\ Len(c) \in Nat /\ S!Incr(c) \in Position
  BY <1>1, WordType, PositionType
<1>3. Len(u) < Len(S!Incr(c))
  BY <1>1, <1>2
<1>4. u \in UpTo(S!Incr(c)) /\ u # S!Incr(c)
  BY <1>2, <1>3, UpToLength
<1> QED BY <1>4, IncrIsNext

-----------------------------------------------------------------------------
(* The two ends of a word: its prefix and what a browser tries after it.   *)

Rest(p) == {u \in AnyWord : /\ u # << >> /\ Len(u) <= ChunkLength
                            /\ p # << >> => Len(u) = ChunkLength}

LEMMA PrefixOfJoined ==
  ASSUME NEW p \in AnyWord, NEW u \in Rest(p)
  PROVE  p \o u \in AnyWord \ {<< >>} /\ S!PrefixOf(p \o u) = p
<1>1. /\ u \in AnyWord /\ u # << >> /\ Len(u) <= ChunkLength
      /\ p # << >> => Len(u) = ChunkLength
  BY DEF Rest
<1>2. p \o u \in AnyWord /\ Len(p \o u) = Len(p) + Len(u) /\ p \o u # << >>
  BY <1>1, ConcatProperties, ConcatEqualIffEmpty DEF AnyWord
<1>3. Len(p) \in Nat /\ Len(u) \in Nat /\ (p # << >> => Len(p) > 0)
  BY <1>1, WordType, EmptySeq DEF AnyWord
<1>4. CASE p = << >>
  <2>1. p \o u = u
    BY <1>1, <1>4, ConcatEmptySeq DEF AnyWord
  <2>2. SubSeq(u, 1, 0) = << >>
    BY SubSeqEmpty
  <2> QED BY <1>1, <1>2, <1>4, <2>1, <2>2 DEF S!PrefixOf
<1>5. CASE p # << >>
  <2>1. ~(Len(p \o u) <= ChunkLength) /\ Len(p \o u) - ChunkLength = Len(p)
    BY <1>1, <1>2, <1>3, <1>5, LettersAre
  <2>2. S!PrefixOf(p \o u) = SubSeq(p \o u, 1, Len(p))
    BY <2>1 DEF S!PrefixOf
  <2>3. 1 \in 1..Len(p) /\ Len(p) \in 1..Len(p)
    BY <1>3, <1>5
  <2>4. SubSeq(p \o u, 1, Len(p)) = SubSeq(p, 1, Len(p))
    BY <1>1, <2>3, SubSeqOfConcat1 DEF AnyWord
  <2>5. SubSeq(p, 1, Len(p)) = p
    BY SubSeqFull DEF AnyWord
  <2> QED BY <1>2, <2>2, <2>4, <2>5
<1> QED BY <1>4, <1>5

LEMMA PrefixAndRest ==
  ASSUME NEW w \in AnyWord, w # << >>
  PROVE  /\ S!PrefixOf(w) \in AnyWord
         /\ \E u \in Rest(S!PrefixOf(w)) : w = S!PrefixOf(w) \o u
<1>1. Len(w) \in Nat \ {0} /\ ChunkLength \in Nat \ {0}
  BY EmptySeq, LettersAre DEF AnyWord
<1>2. CASE Len(w) <= ChunkLength
  <2>1. S!PrefixOf(w) = << >>
    BY <1>2, SubSeqEmpty DEF S!PrefixOf
  <2>2. << >> \in AnyWord /\ << >> \o w = w
    BY EmptySeq, ConcatEmptySeq DEF AnyWord
  <2>3. w \in Rest(<< >>)
    BY <1>2 DEF Rest
  <2> QED BY <2>1, <2>2, <2>3
<1>3. CASE ~(Len(w) <= ChunkLength)
  <2>1. PICK n \in Nat \ {0} : n = Len(w) - ChunkLength
    <3>1. Len(w) - ChunkLength \in Nat \ {0}
      BY <1>1, <1>3
    <3> QED BY <3>1
  <2>2. S!PrefixOf(w) = SubSeq(w, 1, n)
    BY <1>3, <2>1 DEF S!PrefixOf
  <2> DEFINE u == SubSeq(w, n + 1, Len(w))
  <2>3. \A l \in 1..Len(w) : w[l] \in S!Letters
    BY ElementOfSeq DEF AnyWord
  <2>4. /\ SubSeq(w, 1, n) \in AnyWord /\ Len(SubSeq(w, 1, n)) = n
        /\ u \in AnyWord /\ Len(u) = ChunkLength
    <3>1. n < Len(w) /\ Len(w) - (n + 1) + 1 = ChunkLength
      BY <1>1, <1>3, <2>1
    <3>2. \A l \in 1..n : w[l] \in S!Letters
      BY <1>1, <2>3, <3>1
    <3>3. \A l \in n + 1..Len(w) : w[l] \in S!Letters
      BY <1>1, <2>3, <3>1
    <3>4. SubSeq(w, 1, n) \in AnyWord /\ Len(SubSeq(w, 1, n)) = n
      BY <3>2, SubSeqProperties DEF AnyWord
    <3>5. u \in AnyWord /\ Len(u) = ChunkLength
      BY <1>1, <3>1, <3>3, SubSeqProperties DEF AnyWord
    <3> QED BY <3>4, <3>5
  <2>5. SubSeq(w, 1, n) \o u = w
    <3>1. w \in Seq(S!Letters) /\ 1 \in 1..Len(w) + 1 /\ n \in 1 - 1..Len(w)
          /\ Len(w) \in n..Len(w)
      BY <1>1, <1>3, <2>1 DEF AnyWord
    <3>2. SubSeq(w, 1, n) \o SubSeq(w, n + 1, Len(w)) = SubSeq(w, 1, Len(w))
      BY <3>1, ConcatAdjacentSubSeq
    <3> QED BY <3>2, SubSeqFull DEF AnyWord
  <2>6. u # << >>
    BY <1>1, <2>4, EmptySeq DEF AnyWord
  <2>7. u \in Rest(SubSeq(w, 1, n))
    BY <1>1, <2>4, <2>6 DEF Rest
  <2> QED BY <2>2, <2>4, <2>5, <2>7
<1> QED BY <1>2, <1>3

-----------------------------------------------------------------------------
(* The iterator of the browser, which holds its word the other way round.  *)

LEMMA ReverseTwice ==
  ASSUME NEW T, NEW t \in Seq(T)
  PROVE  /\ S!Reverse(t) \in Seq(T) /\ Len(S!Reverse(t)) = Len(t)
         /\ \A l \in 1..Len(t) : S!Reverse(t)[l] = t[Len(t) - l + 1]
         /\ S!Reverse(S!Reverse(t)) = t
<1>1. PICK n \in Nat : n = Len(t) /\ DOMAIN t = 1..n
  BY LenProperties
<1>2. \A l \in 1..n : n - l + 1 \in 1..n
  BY <1>1
<1>3. \A l \in 1..n : t[l] \in T
  BY <1>1, ElementOfSeq
<1>4. PICK r : r = S!Reverse(t)
  OBVIOUS
<1>5. r = [l \in 1..n |-> t[n - l + 1]]
  BY <1>1, <1>4 DEF S!Reverse
<1>6. r \in Seq(T) /\ Len(r) = n /\ \A l \in 1..n : r[l] = t[n - l + 1]
  BY <1>1, <1>2, <1>3, <1>5
<1>7. S!Reverse(r) = [l \in 1..n |-> r[n - l + 1]]
  BY <1>6 DEF S!Reverse
<1>8. \A l \in 1..n : r[n - l + 1] = t[l]
  BY <1>1, <1>2, <1>6
<1>9. S!Reverse(r) = [l \in 1..n |-> t[l]]
  BY <1>7, <1>8
<1>10. S!Reverse(r) \in Seq(T) /\ Len(S!Reverse(r)) = n /\ \A l \in 1..n : S!Reverse(r)[l] = t[l]
  BY <1>1, <1>3, <1>9
<1>11. S!Reverse(r) = t
  BY <1>1, <1>10, SeqEqual
<1> QED BY <1>1, <1>4, <1>6, <1>11

LEMMA IncrementIsIncr ==
  ASSUME NEW t \in Seq(-1..LAST), S!Reverse(t) \in Position
  PROVE  /\ S!Reverse(S!Increment(t)) = S!Incr(S!Reverse(t))
         /\ S!Increment(t) \in Seq(-1..LAST)
<1>1. S!Incr(S!Reverse(t)) \in Seq(-1..LAST)
  BY IncrType, WordType DEF Position
<1> QED BY <1>1, ReverseTwice DEF S!Increment

(* hasNext of the browser, said of the word it is at                       *)
LEMMA HasNextIs ==
  ASSUME NEW b, charList[b] \in Seq(-1..LAST), Len(charList[b]) <= ChunkLength
  PROVE  S!HasNext(b) <=>
           \/ prefix[b] = << >> /\ Len(charList[b]) < ChunkLength
           \/ \E l \in 1..Len(charList[b]) : S!Reverse(charList[b])[l] # LAST
<1>1. PICK n \in Nat : n = Len(charList[b]) /\ DOMAIN charList[b] = 1..n
  BY LenProperties
<1>2. n # ChunkLength + 1
  BY <1>1, LettersAre
<1>3. \A l \in 1..n : S!Reverse(charList[b])[l] = charList[b][n - l + 1]
  BY <1>1, ReverseTwice
<1>4. \A l \in 1..n : n - l + 1 \in 1..n /\ n - (n - l + 1) + 1 = l
  BY <1>1
<1>5. (\E l \in 1..n : charList[b][l] # LAST)
        <=> \E l \in 1..n : S!Reverse(charList[b])[l] # LAST
  <2>1. ASSUME NEW l \in 1..n, charList[b][l] # LAST
        PROVE  \E m \in 1..n : S!Reverse(charList[b])[m] # LAST
    <3>1. /\ n - l + 1 \in 1..n
          /\ S!Reverse(charList[b])[n - l + 1] = charList[b][n - (n - l + 1) + 1]
      BY <1>3, <1>4
    <3> QED BY <1>4, <2>1, <3>1
  <2>2. ASSUME NEW l \in 1..n, S!Reverse(charList[b])[l] # LAST
        PROVE  \E m \in 1..n : charList[b][m] # LAST
    BY <1>3, <1>4, <2>2
  <2> QED BY <2>1, <2>2
<1> QED BY <1>1, <1>2, <1>5, Zenon DEF S!HasNext

(* The constructor of the iterator: it is at the start of its words.       *)
LEMMA NewCharListIs ==
  ASSUME NEW n \in Nat
  PROVE  /\ S!NewCharList(n) \in Seq(-1..LAST) /\ Len(S!NewCharList(n)) = n
         /\ S!Reverse(S!NewCharList(n)) \in Position
         /\ \A l \in 1..n : S!Reverse(S!NewCharList(n))[l] = IF l = n THEN -1 ELSE 0
<1>1. PICK t : t = S!NewCharList(n)
  OBVIOUS
<1>2. t = [l \in 1..n |-> IF l = 1 THEN -1 ELSE 0]
  BY <1>1, LettersAre DEF S!NewCharList
<1>3. \A l \in 1..n : (IF l = 1 THEN -1 ELSE 0) \in -1..LAST
  BY LettersAre
<1>4. t \in Seq(-1..LAST) /\ Len(t) = n /\ \A l \in 1..n : t[l] = IF l = 1 THEN -1 ELSE 0
  BY <1>2, <1>3
<1>5. PICK r : r = S!Reverse(t)
  OBVIOUS
<1>6. r \in Seq(-1..LAST) /\ Len(r) = n /\ \A l \in 1..n : r[l] = t[n - l + 1]
  BY <1>4, <1>5, ReverseTwice
<1>7. \A l \in 1..n : n - l + 1 \in 1..n /\ (n - l + 1 = 1 <=> l = n)
  OBVIOUS
<1>8. \A l \in 1..n : r[l] = IF l = n THEN -1 ELSE 0
  BY <1>4, <1>6, <1>7
<1>9. \A l \in 1..n - 1 : r[l] \in S!Letters
  BY <1>8, LettersAre
<1>10. r \in Position
  BY <1>6, <1>9 DEF Position
<1> QED BY <1>1, <1>4, <1>5, <1>8, <1>10

-----------------------------------------------------------------------------
(* The inductive invariant of the search.                                  *)

Working(b) == prefix[b] # None

(* The word at which the iterator of a browser is                          *)
Current(b) == S!Reverse(charList[b])

SearchTypes ==
  /\ charlist \in AnyWord /\ emptyString \in BOOLEAN
  /\ prefix \in [Browsers -> AnyWord \cup {None}]
  /\ charList \in [Browsers -> Seq(-1..LAST)]
  /\ tested \subseteq AnyWord \ {<< >>}
  /\ found \subseteq tested

NothingYet ==
  ~emptyString => /\ charlist = << >> /\ tested = {}
                  /\ \A b \in Browsers : ~Working(b)

(* The prefixes at work are those of the server up to its own, and no two  *)
(* browsers have the same.                                                 *)
Chunks ==
  \A b \in Browsers : Working(b) =>
    /\ prefix[b] \in UpTo(charlist)
    /\ \A c \in Browsers : prefix[c] = prefix[b] => c = b

Places ==
  \A b \in Browsers : Working(b) =>
    /\ Len(charList[b]) <= ChunkLength
    /\ prefix[b] # << >> => Len(charList[b]) = ChunkLength
    /\ prefix[b] = << >> => Current(b) \in AnyWord
    /\ Current(b) \in Position

(* Of its prefix a browser has tried the words up to its place and no      *)
(* other; of a prefix the server has yet to hand out, nobody has any.      *)
TriedSoFar ==
  /\ \A w \in tested : S!PrefixOf(w) \in UpTo(charlist)
  /\ \A b \in Browsers : Working(b) =>
       \A u \in Rest(prefix[b]) :
         prefix[b] \o u \in tested <=> u \in UpTo(Current(b))

(* NoWordLeftOut, for words of every length                                *)
AllTried ==
  emptyString /\ found = {} =>
    \A w \in AnyWord \ {<< >>} :
      S!PrefixOf(w) \in UpTo(charlist) =>
        w \in tested \/ \E b \in Browsers : prefix[b] = S!PrefixOf(w)

SearchInv == /\ SearchTypes /\ NothingYet /\ Chunks /\ Places
             /\ TriedSoFar /\ AllTried

LEMMA SearchInitInv == S!Init => SearchInv
<1> SUFFICES ASSUME S!Init PROVE SearchInv
  OBVIOUS
<1>1. /\ charlist = << >> /\ emptyString = FALSE /\ tested = {} /\ found = {}
      /\ prefix = [b \in Browsers |-> None] /\ charList = [b \in Browsers |-> << >>]
  BY DEF S!Init
<1>2. << >> \in AnyWord /\ << >> \in Seq(-1..LAST)
  BY EmptySeq DEF AnyWord
<1>3. SearchTypes
  BY <1>1, <1>2 DEF SearchTypes
<1>4. \A b \in Browsers : ~Working(b)
  BY <1>1 DEF Working
<1> QED BY <1>1, <1>3, <1>4 DEF SearchInv, NothingYet, Chunks, Places, TriedSoFar, AllTried

LEMMA WorkingHasPrefix ==
  ASSUME SearchTypes, NEW b \in Browsers
  PROVE  /\ Working(b) <=> prefix[b] \in AnyWord
         /\ charList[b] \in Seq(-1..LAST)
  BY LettersAre DEF SearchTypes, Working

(* What the three steps do, said without Increment and NewCharList.        *)
LEMMA NextPrefixDoes ==
  ASSUME SearchInv, NEW b \in Browsers, S!NextPrefix(b)
  PROVE  /\ ~Working(b) /\ found = {} /\ emptyString'
         /\ charlist' \in AnyWord
         /\ prefix' = [prefix EXCEPT ![b] = charlist'] /\ UNCHANGED <<tested, found>>
         /\ charList' \in [Browsers -> Seq(-1..LAST)]
         /\ \A c \in Browsers \ {b} : charList'[c] = charList[c]
         /\ Len(charList'[b]) = IF charlist' = << >> THEN 0 ELSE ChunkLength
         /\ S!Reverse(charList'[b]) \in Position
         /\ \A u \in Rest(charlist') : u \notin UpTo(S!Reverse(charList'[b]))
         /\ charlist' = << >> => S!Reverse(charList'[b]) \in AnyWord
         /\ ~emptyString => charlist' = << >>
         /\ emptyString =>
              /\ charlist' \notin UpTo(charlist)
              /\ \A p \in AnyWord :
                   p \in UpTo(charlist') <=> p \in UpTo(charlist) \/ p = charlist'
<1>1. SearchTypes /\ NothingYet
  BY DEF SearchInv
<1>2. /\ prefix[b] = None /\ found = {} /\ emptyString' = TRUE
      /\ charlist' = IF emptyString THEN S!Incr(charlist) ELSE charlist
      /\ prefix' = [prefix EXCEPT ![b] = charlist'] /\ UNCHANGED <<tested, found>>
      /\ charList' = [charList EXCEPT ![b] =
                        S!NewCharList(IF charlist' = << >> THEN 0 ELSE ChunkLength)]
  BY DEF S!NextPrefix
<1>3. charlist \in AnyWord /\ charlist \in Position
  BY <1>1, WordType DEF SearchTypes
<1>4. charlist' \in AnyWord
  BY <1>2, <1>3, IncrType
<1>5. PICK n \in Nat : n = IF charlist' = << >> THEN 0 ELSE ChunkLength
  BY LettersAre
<1>6. /\ S!NewCharList(n) \in Seq(-1..LAST) /\ Len(S!NewCharList(n)) = n
      /\ S!Reverse(S!NewCharList(n)) \in Position
      /\ \A l \in 1..n : S!Reverse(S!NewCharList(n))[l] = IF l = n THEN -1 ELSE 0
  BY NewCharListIs
<1>7. /\ charList' = [charList EXCEPT ![b] = S!NewCharList(n)]
      /\ charList'[b] = S!NewCharList(n)
  BY <1>1, <1>2, <1>5 DEF SearchTypes
<1>8. charList' \in [Browsers -> Seq(-1..LAST)]
  BY <1>1, <1>6, <1>7 DEF SearchTypes
<1>9. \A c \in Browsers \ {b} : charList'[c] = charList[c]
  BY <1>1, <1>7 DEF SearchTypes
<1>10. PICK r : r = S!Reverse(charList'[b])
  OBVIOUS
<1>11. r \in Position /\ Len(r) = n /\ \A l \in 1..n : r[l] = IF l = n THEN -1 ELSE 0
  BY <1>6, <1>7, <1>10, ReverseTwice
<1>12. charlist' = << >> => r = << >>
  BY <1>5, <1>11, EmptySeq DEF Position
<1>13. ASSUME NEW u \in Rest(charlist') PROVE u \notin UpTo(r)
  <2>1. u \in AnyWord /\ u # << >> /\ (charlist' # << >> => Len(u) = ChunkLength)
    BY DEF Rest
  <2>2. CASE charlist' = << >>
    BY <1>12, <2>1, <2>2, NoneBeforeEmpty
  <2>3. CASE charlist' # << >>
    <3>1. n \in Nat \ {0} /\ Len(u) = Len(r) /\ Len(r) = n
      BY <1>5, <1>11, <2>1, <2>3, LettersAre
    <3>2. r # << >> /\ r[Len(r)] = -1 /\ \A l \in 1..Len(r) - 1 : r[l] = 0
      BY <1>11, <3>1, EmptySeq
    <3> QED BY <1>11, <2>1, <3>1, <3>2, NoneBeforeFirst
  <2> QED BY <2>2, <2>3
<1>14. charlist' = << >> => r \in AnyWord
  BY <1>12, EmptySeq DEF AnyWord
<1>15. ~emptyString => charlist' = << >>
  BY <1>1, <1>2 DEF NothingYet
<1>16. ASSUME emptyString
       PROVE  /\ charlist' \notin UpTo(charlist)
              /\ \A p \in AnyWord :
                   p \in UpTo(charlist') <=> p \in UpTo(charlist) \/ p = charlist'
  <2>1. charlist' = S!Incr(charlist)
    BY <1>2, <1>16
  <2>2. S!Incr(charlist) \notin UpTo(charlist)
    BY <1>3, IncrIsNew
  <2>3. \A p \in AnyWord : p \in UpTo(S!Incr(charlist))
                           <=> p \in UpTo(charlist) \/ p = S!Incr(charlist)
    BY <1>3, IncrIsNext
  <2> QED BY <2>1, <2>2, <2>3
<1>17. ~Working(b)
  BY <1>2 DEF Working
<1>18. Len(charList'[b]) = IF charlist' = << >> THEN 0 ELSE ChunkLength
  BY <1>5, <1>6, <1>7
<1> QED BY <1>2, <1>4, <1>8, <1>9, <1>10, <1>11, <1>13, <1>14, <1>15, <1>16, <1>17, <1>18

LEMMA TestWordDoes ==
  ASSUME SearchInv, NEW b \in Browsers, S!TestWord(b)
  PROVE  /\ Working(b)
         /\ S!Incr(Current(b)) \in Rest(prefix[b])
         /\ S!Incr(Current(b)) \notin UpTo(Current(b))
         /\ prefix[b] \o S!Incr(Current(b)) \notin tested
         /\ charList' \in [Browsers -> Seq(-1..LAST)]
         /\ \A c \in Browsers \ {b} : charList'[c] = charList[c]
         /\ S!Reverse(charList'[b]) = S!Incr(Current(b))
         /\ Len(charList'[b]) = Len(S!Incr(Current(b)))
         /\ tested' = tested \cup {prefix[b] \o S!Incr(Current(b))}
         /\ \/ /\ found' = {prefix[b] \o S!Incr(Current(b))}
               /\ prefix' = [prefix EXCEPT ![b] = None]
            \/ UNCHANGED <<found, prefix>>
         /\ UNCHANGED <<charlist, emptyString>>
<1>1. SearchTypes /\ Places /\ TriedSoFar
  BY DEF SearchInv
<1>2. Working(b) /\ S!HasNext(b) /\ UNCHANGED <<charlist, emptyString>>
  BY DEF S!TestWord, S!serverVars, Working
<1>3. charList' = [charList EXCEPT ![b] = S!Increment(charList[b])]
  BY DEF S!TestWord
<1>4. /\ tested' = tested \cup {prefix[b] \o S!Reverse(charList'[b])}
      /\ \/ /\ found' = {prefix[b] \o S!Reverse(charList'[b])}
            /\ prefix' = [prefix EXCEPT ![b] = None]
         \/ UNCHANGED <<found, prefix>>
  BY DEF S!TestWord
<1>5. prefix[b] \in AnyWord /\ charList[b] \in Seq(-1..LAST)
  BY <1>1, <1>2, WorkingHasPrefix
<1>6. PICK c : c = Current(b)
  OBVIOUS
<1>7. /\ c \in Position /\ Len(c) = Len(charList[b]) /\ Len(c) <= ChunkLength
      /\ prefix[b] # << >> => Len(c) = ChunkLength
  BY <1>1, <1>2, <1>5, <1>6, ReverseTwice DEF Places, Current
<1>8. /\ S!Reverse(S!Increment(charList[b])) = S!Incr(c)
      /\ S!Increment(charList[b]) \in Seq(-1..LAST)
  BY <1>5, <1>6, <1>7, IncrementIsIncr DEF Current
<1>9. charList'[b] = S!Increment(charList[b]) /\ charList' \in [Browsers -> Seq(-1..LAST)]
  BY <1>1, <1>3, <1>8 DEF SearchTypes
<1>10. \A e \in Browsers \ {b} : charList'[e] = charList[e]
  BY <1>1, <1>3 DEF SearchTypes
<1>11. S!Incr(c) \in Rest(prefix[b])
  <2>1. \/ prefix[b] = << >> /\ Len(c) < ChunkLength
        \/ \E l \in 1..Len(c) : c[l] # LAST
    BY <1>2, <1>5, <1>6, <1>7, HasNextIs DEF Current
  <2>2. /\ S!Incr(c) \in AnyWord /\ S!Incr(c) # << >>
        /\ Len(S!Incr(c)) = IF \A l \in 1..Len(c) : c[l] = LAST
                            THEN Len(c) + 1 ELSE Len(c)
    BY <1>7, IncrType
  <2>3. Len(c) \in Nat /\ ChunkLength \in Nat
    BY <1>7, PositionType, LettersAre
  <2>4. CASE \E l \in 1..Len(c) : c[l] # LAST
    <3>1. Len(S!Incr(c)) = Len(c)
      BY <2>2, <2>4
    <3> QED BY <1>7, <2>2, <3>1 DEF Rest
  <2>5. CASE prefix[b] = << >> /\ Len(c) < ChunkLength
    <3>1. Len(S!Incr(c)) <= ChunkLength
      BY <2>2, <2>3, <2>5
    <3> QED BY <2>2, <2>5, <3>1 DEF Rest
  <2> QED BY <2>1, <2>4, <2>5
<1>12. S!Incr(c) \notin UpTo(c)
  BY <1>7, IncrIsNew
<1>13. prefix[b] \o S!Incr(c) \notin tested
  BY <1>1, <1>2, <1>6, <1>11, <1>12 DEF TriedSoFar
<1>14. Len(charList'[b]) = Len(S!Incr(c))
  BY <1>8, <1>9, ReverseTwice
<1> QED BY <1>2, <1>4, <1>6, <1>8, <1>9, <1>10, <1>11, <1>12, <1>13, <1>14

(* A browser that has no next word has tried every word of its prefix.     *)
LEMMA EndChunkDoes ==
  ASSUME SearchInv, NEW b \in Browsers, S!EndChunk(b)
  PROVE  /\ Working(b)
         /\ \A u \in Rest(prefix[b]) : prefix[b] \o u \in tested
         /\ prefix' = [prefix EXCEPT ![b] = None]
         /\ UNCHANGED <<charlist, emptyString, charList, tested, found>>
<1>1. SearchTypes /\ Places /\ TriedSoFar
  BY DEF SearchInv
<1>2. /\ Working(b) /\ ~S!HasNext(b) /\ prefix' = [prefix EXCEPT ![b] = None]
      /\ UNCHANGED <<charlist, emptyString, charList, tested, found>>
  BY DEF S!EndChunk, S!serverVars, Working
<1>3. charList[b] \in Seq(-1..LAST)
  BY <1>1, <1>2, WorkingHasPrefix
<1>4. PICK c : c = Current(b)
  OBVIOUS
<1>5. /\ c \in Position /\ Len(c) = Len(charList[b]) /\ Len(c) <= ChunkLength
      /\ prefix[b] # << >> => Len(c) = ChunkLength
  BY <1>1, <1>2, <1>3, <1>4, ReverseTwice DEF Places, Current
<1>6. ~(prefix[b] = << >> /\ Len(c) < ChunkLength) /\ \A l \in 1..Len(c) : c[l] = LAST
  BY <1>2, <1>3, <1>4, <1>5, HasNextIs DEF Current
<1>7. Len(c) = ChunkLength
  BY <1>5, <1>6, PositionType, LettersAre
<1>8. ASSUME NEW u \in Rest(prefix[b]) PROVE prefix[b] \o u \in tested
  <2>1. u \in AnyWord /\ Len(u) <= Len(c)
    BY <1>7 DEF Rest
  <2>2. u \in UpTo(c)
    BY <1>5, <1>6, <2>1, AllBeforeLast
  <2> QED BY <1>1, <1>2, <1>4, <2>2 DEF TriedSoFar
<1> QED BY <1>2, <1>8

-----------------------------------------------------------------------------
(* Each step keeps the invariant.                                          *)

LEMMA NextPrefixKeeps ==
  ASSUME SearchInv, NEW b \in Browsers, S!NextPrefix(b)
  PROVE  SearchInv'
<1>1. SearchTypes /\ NothingYet /\ Chunks /\ Places /\ TriedSoFar /\ AllTried
  BY DEF SearchInv
<1>2. PICK q : q = charlist'
  OBVIOUS
<1>3. /\ ~Working(b) /\ found = {} /\ emptyString' /\ q \in AnyWord
      /\ prefix' = [prefix EXCEPT ![b] = q] /\ UNCHANGED <<tested, found>>
      /\ charList' \in [Browsers -> Seq(-1..LAST)]
      /\ \A c \in Browsers \ {b} : charList'[c] = charList[c]
  BY <1>2, NextPrefixDoes
<1>4. /\ Len(charList'[b]) = IF q = << >> THEN 0 ELSE ChunkLength
      /\ S!Reverse(charList'[b]) \in Position
      /\ \A u \in Rest(q) : u \notin UpTo(S!Reverse(charList'[b]))
      /\ q = << >> => S!Reverse(charList'[b]) \in AnyWord
  BY <1>2, NextPrefixDoes
<1>5. /\ ~emptyString => q = << >>
      /\ emptyString => q \notin UpTo(charlist)
      /\ emptyString => \A p \in AnyWord : p \in UpTo(q) <=> p \in UpTo(charlist) \/ p = q
  BY <1>2, NextPrefixDoes
<1>6. /\ prefix \in [Browsers -> AnyWord \cup {None}] /\ emptyString' \in BOOLEAN
      /\ prefix'[b] = q /\ \A c \in Browsers \ {b} : prefix'[c] = prefix[c]
  BY <1>1, <1>3 DEF SearchTypes, S!NextPrefix
<1>7. SearchTypes'
  BY <1>1, <1>2, <1>3, <1>6 DEF SearchTypes
<1>8. q \in UpTo(q)
  BY <1>3 DEF UpTo, S!Before
<1>9. NothingYet'
  BY <1>3 DEF NothingYet
<1>10. ASSUME NEW p \in AnyWord, emptyString, p \in UpTo(charlist)
       PROVE  p \in UpTo(q) /\ p # q
  BY <1>3, <1>5, <1>10
<1>11. Chunks'
  <2> SUFFICES ASSUME NEW c \in Browsers, Working(c)'
               PROVE  /\ prefix'[c] \in UpTo(q)
                      /\ \A e \in Browsers : prefix'[e] = prefix'[c] => e = c
    BY <1>2 DEF Chunks
  <2>1. ASSUME NEW e \in Browsers \ {b}, Working(e)
        PROVE  prefix[e] \in AnyWord /\ emptyString /\ prefix[e] \in UpTo(charlist)
    BY <1>1, <2>1, WorkingHasPrefix DEF Chunks, NothingYet
  <2>2. \A e \in Browsers \ {b} : Working(e) => prefix[e] \in UpTo(q) /\ prefix[e] # q
    BY <1>10, <2>1
  <2>3. \A e \in Browsers \ {b} : prefix[e] # q
    BY <1>3, <2>2, LettersAre DEF Working
  <2>4. CASE c = b
    BY <1>6, <1>8, <2>3, <2>4
  <2>5. CASE c # b
    <3>1. Working(c) /\ prefix'[c] = prefix[c]
      BY <1>6, <2>5 DEF Working
    <3>2. \A e \in Browsers : prefix[e] = prefix[c] => e = c
      BY <1>1, <3>1 DEF Chunks
    <3> QED BY <1>6, <2>2, <2>5, <3>1, <3>2
  <2> QED BY <2>4, <2>5
<1>12. Places'
  <2> SUFFICES ASSUME NEW c \in Browsers, Working(c)'
               PROVE  /\ Len(charList'[c]) <= ChunkLength
                      /\ prefix'[c] # << >> => Len(charList'[c]) = ChunkLength
                      /\ prefix'[c] = << >> => S!Reverse(charList'[c]) \in AnyWord
                      /\ S!Reverse(charList'[c]) \in Position
    BY DEF Places, Current
  <2>1. CASE c = b
    BY <1>4, <1>6, <2>1, LettersAre
  <2>2. CASE c # b
    <3>1. Working(c) /\ prefix'[c] = prefix[c] /\ charList'[c] = charList[c]
      BY <1>3, <1>6, <2>2 DEF Working
    <3> QED BY <1>1, <3>1 DEF Places, Current
  <2> QED BY <2>1, <2>2
<1>13. \A w \in tested : /\ emptyString
                         /\ S!PrefixOf(w) \in AnyWord /\ S!PrefixOf(w) \in UpTo(charlist)
  BY <1>1 DEF TriedSoFar, NothingYet, UpTo
<1>14. TriedSoFar'
  <2>1. \A w \in tested' : S!PrefixOf(w) \in UpTo(q)
    BY <1>3, <1>10, <1>13
  <2>2. ASSUME NEW c \in Browsers, Working(c)', NEW u \in Rest(prefix'[c])
        PROVE  prefix'[c] \o u \in tested' <=> u \in UpTo(S!Reverse(charList'[c]))
    <3>1. CASE c = b
      <4>1. u \in Rest(q) /\ prefix'[c] = q
        BY <1>6, <2>2, <3>1
      <4>2. S!PrefixOf(q \o u) = q
        BY <1>3, <4>1, PrefixOfJoined
      <4>3. q \o u \notin tested
        BY <1>3, <1>10, <1>13, <4>2
      <4> QED BY <1>3, <1>4, <3>1, <4>1, <4>3
    <3>2. CASE c # b
      <4>1. Working(c) /\ prefix'[c] = prefix[c] /\ charList'[c] = charList[c]
        BY <1>3, <1>6, <2>2, <3>2 DEF Working
      <4>2. u \in Rest(prefix[c])
        BY <2>2, <4>1
      <4>3. prefix[c] \o u \in tested <=> u \in UpTo(Current(c))
        BY <1>1, <4>1, <4>2 DEF TriedSoFar
      <4> QED BY <1>3, <4>1, <4>3 DEF Current
    <3> QED BY <3>1, <3>2
  <2> QED BY <1>2, <2>1, <2>2 DEF TriedSoFar, Current
<1>15. AllTried'
  <2> SUFFICES ASSUME NEW w \in AnyWord \ {<< >>}, S!PrefixOf(w) \in UpTo(q)
               PROVE  w \in tested \/ \E c \in Browsers : prefix'[c] = S!PrefixOf(w)
    BY <1>2, <1>3 DEF AllTried
  <2>1. S!PrefixOf(w) \in AnyWord
    BY PrefixAndRest
  <2>2. CASE S!PrefixOf(w) = q
    BY <1>6, <2>2
  <2>3. CASE S!PrefixOf(w) # q
    <3>1. emptyString
      BY <1>5, <2>1, <2>3, NoneBeforeEmpty
    <3>2. S!PrefixOf(w) \in UpTo(charlist)
      BY <1>5, <2>1, <2>3, <3>1
    <3>3. w \in tested \/ \E c \in Browsers : prefix[c] = S!PrefixOf(w)
      BY <1>1, <1>3, <3>1, <3>2 DEF AllTried
    <3>4. \A c \in Browsers : prefix[c] = S!PrefixOf(w) => c # b
      BY <1>3, <2>1, WorkingHasPrefix, <1>1
    <3> QED BY <1>6, <3>3, <3>4
  <2> QED BY <2>2, <2>3
<1> QED BY <1>7, <1>9, <1>11, <1>12, <1>14, <1>15 DEF SearchInv

LEMMA TestWordKeeps ==
  ASSUME SearchInv, NEW b \in Browsers, S!TestWord(b)
  PROVE  SearchInv'
<1>1. SearchTypes /\ NothingYet /\ Chunks /\ Places /\ TriedSoFar /\ AllTried
  BY DEF SearchInv
<1>2. PICK d, p, w : d = S!Incr(Current(b)) /\ p = prefix[b] /\ w = p \o d
  OBVIOUS
<1>3. /\ Working(b) /\ d \in Rest(p)
      /\ charList' \in [Browsers -> Seq(-1..LAST)]
      /\ \A c \in Browsers \ {b} : charList'[c] = charList[c]
      /\ S!Reverse(charList'[b]) = d /\ Len(charList'[b]) = Len(d)
  BY <1>2, TestWordDoes
<1>4. /\ tested' = tested \cup {w}
      /\ \/ found' = {w} /\ prefix' = [prefix EXCEPT ![b] = None]
         \/ UNCHANGED <<found, prefix>>
      /\ UNCHANGED <<charlist, emptyString>>
  BY <1>2, TestWordDoes
<1>5. /\ p \in AnyWord /\ d \in AnyWord /\ Len(d) <= ChunkLength
      /\ p # << >> => Len(d) = ChunkLength
  BY <1>1, <1>2, <1>3, WorkingHasPrefix DEF Rest
<1>6. w \in AnyWord \ {<< >>} /\ S!PrefixOf(w) = p
  BY <1>2, <1>3, <1>5, PrefixOfJoined
<1>7. SearchTypes'
  <2>1. prefix' \in [Browsers -> AnyWord \cup {None}]
    BY <1>1, <1>4 DEF SearchTypes
  <2> QED BY <1>1, <1>3, <1>4, <1>6, <2>1 DEF SearchTypes
<1>8. \A c \in Browsers : \/ prefix'[c] = prefix[c]
                          \/ c = b /\ prefix'[c] = None
  BY <1>1, <1>4 DEF SearchTypes
<1>9. \A c \in Browsers : Working(c)' => Working(c) /\ prefix'[c] = prefix[c]
  BY <1>8 DEF Working
<1>10. emptyString
  BY <1>1, <1>3 DEF NothingYet
<1>11. NothingYet'
  BY <1>4, <1>10 DEF NothingYet
<1>12. Chunks'
  BY <1>1, <1>4, <1>8, <1>9 DEF Chunks, Working
<1>13. Places'
  <2> SUFFICES ASSUME NEW c \in Browsers, Working(c)'
               PROVE  /\ Len(charList'[c]) <= ChunkLength
                      /\ prefix'[c] # << >> => Len(charList'[c]) = ChunkLength
                      /\ prefix'[c] = << >> => S!Reverse(charList'[c]) \in AnyWord
                      /\ S!Reverse(charList'[c]) \in Position
    BY DEF Places, Current
  <2>1. CASE c = b
    BY <1>2, <1>3, <1>5, <1>9, <2>1, WordType
  <2>2. CASE c # b
    BY <1>1, <1>3, <1>9, <2>2 DEF Places, Current
  <2> QED BY <2>1, <2>2
<1>14. TriedSoFar'
  <2>1. p \in UpTo(charlist)
    BY <1>1, <1>2, <1>3 DEF Chunks
  <2>2. \A v \in tested' : S!PrefixOf(v) \in UpTo(charlist')
    BY <1>1, <1>4, <1>6, <2>1 DEF TriedSoFar
  <2>3. ASSUME NEW c \in Browsers, Working(c)', NEW u \in Rest(prefix'[c])
        PROVE  prefix'[c] \o u \in tested' <=> u \in UpTo(S!Reverse(charList'[c]))
    <3>1. Working(c) /\ prefix'[c] = prefix[c] /\ u \in Rest(prefix[c]) /\ u \in AnyWord
      BY <1>9, <2>3 DEF Rest
    <3>2. prefix[c] \in AnyWord
      BY <1>1, <3>1, WorkingHasPrefix
    <3>3. prefix[c] \o u \in tested <=> u \in UpTo(Current(c))
      BY <1>1, <3>1 DEF TriedSoFar
    <3>4. CASE c = b
      <4>1. Current(b) \in Position
        BY <1>1, <1>3 DEF Places
      <4>2. u \in UpTo(d) <=> u \in UpTo(Current(b)) \/ u = d
        BY <1>2, <3>1, <4>1, IncrIsNext
      <4>3. p \o u = w <=> u = d
        <5>1. p \o u = p \o d => u = d
          BY <1>5, <3>1, ConcatSimplifications DEF AnyWord
        <5> QED BY <1>2, <5>1
      <4>4. p \o u \in tested' <=> p \o u \in tested \/ p \o u = w
        BY <1>4
      <4> QED BY <1>2, <1>3, <3>1, <3>3, <3>4, <4>2, <4>3, <4>4
    <3>5. CASE c # b
      <4>1. prefix[c] # p
        BY <1>1, <1>2, <1>3, <3>5 DEF Chunks
      <4>2. S!PrefixOf(prefix[c] \o u) = prefix[c]
        BY <3>1, <3>2, PrefixOfJoined
      <4>3. prefix[c] \o u # w
        BY <1>6, <4>1, <4>2
      <4> QED BY <1>3, <1>4, <3>1, <3>3, <3>5, <4>3 DEF Current
    <3> QED BY <3>4, <3>5
  <2> QED BY <2>2, <2>3 DEF TriedSoFar, Current
<1>15. AllTried'
  <2> SUFFICES ASSUME found' = {}, NEW v \in AnyWord \ {<< >>},
                      S!PrefixOf(v) \in UpTo(charlist)
               PROVE  v \in tested' \/ \E c \in Browsers : prefix'[c] = S!PrefixOf(v)
    BY <1>4 DEF AllTried
  <2>1. UNCHANGED <<found, prefix>>
    BY <1>4
  <2> QED BY <1>1, <1>4, <1>10, <2>1 DEF AllTried
<1> QED BY <1>7, <1>11, <1>12, <1>13, <1>14, <1>15 DEF SearchInv

LEMMA EndChunkKeeps ==
  ASSUME SearchInv, NEW b \in Browsers, S!EndChunk(b)
  PROVE  SearchInv'
<1>1. SearchTypes /\ NothingYet /\ Chunks /\ Places /\ TriedSoFar /\ AllTried
  BY DEF SearchInv
<1>2. /\ Working(b) /\ prefix' = [prefix EXCEPT ![b] = None]
      /\ UNCHANGED <<charlist, emptyString, charList, tested, found>>
      /\ \A u \in Rest(prefix[b]) : prefix[b] \o u \in tested
  BY EndChunkDoes
<1>3. SearchTypes'
  <2>1. prefix' \in [Browsers -> AnyWord \cup {None}]
    BY <1>1, <1>2 DEF SearchTypes
  <2> QED BY <1>1, <1>2, <2>1 DEF SearchTypes
<1>4. /\ prefix'[b] = None
      /\ \A c \in Browsers \ {b} : prefix'[c] = prefix[c]
  BY <1>1, <1>2 DEF SearchTypes
<1>5. \A c \in Browsers : Working(c)' => Working(c) /\ prefix'[c] = prefix[c] /\ c # b
  BY <1>4 DEF Working
<1>6. NothingYet'
  BY <1>1, <1>2 DEF NothingYet
<1>7. Chunks'
  BY <1>1, <1>2, <1>4, <1>5 DEF Chunks, Working
<1>8. Places'
  BY <1>1, <1>2, <1>5 DEF Places, Current
<1>9. TriedSoFar'
  <2>1. \A w \in tested' : S!PrefixOf(w) \in UpTo(charlist')
    BY <1>1, <1>2 DEF TriedSoFar
  <2>2. ASSUME NEW c \in Browsers, Working(c)', NEW u \in Rest(prefix'[c])
        PROVE  prefix'[c] \o u \in tested' <=> u \in UpTo(S!Reverse(charList'[c]))
    BY <1>1, <1>2, <1>5, <2>2 DEF TriedSoFar, Current
  <2> QED BY <2>1, <2>2 DEF TriedSoFar, Current
<1>10. AllTried'
  <2> SUFFICES ASSUME emptyString, found = {}, NEW w \in AnyWord \ {<< >>},
                      S!PrefixOf(w) \in UpTo(charlist)
               PROVE  w \in tested \/ \E c \in Browsers : prefix'[c] = S!PrefixOf(w)
    BY <1>2 DEF AllTried
  <2>1. CASE S!PrefixOf(w) = prefix[b]
    BY <1>2, <2>1, PrefixAndRest
  <2>2. CASE S!PrefixOf(w) # prefix[b]
    <3>1. w \in tested \/ \E c \in Browsers : prefix[c] = S!PrefixOf(w)
      BY <1>1 DEF AllTried
    <3> QED BY <1>4, <2>2, <3>1
  <2> QED BY <2>1, <2>2
<1> QED BY <1>3, <1>6, <1>7, <1>8, <1>9, <1>10 DEF SearchInv

LEMMA SearchNextInv == SearchInv /\ [S!Next]_S!vars => SearchInv'
<1> SUFFICES ASSUME SearchInv, [S!Next]_S!vars PROVE SearchInv'
  OBVIOUS
<1>1. CASE S!Next
  BY <1>1, NextPrefixKeeps, TestWordKeeps, EndChunkKeeps DEF S!Next
<1>2. CASE UNCHANGED S!vars
  <2>1. UNCHANGED <<charlist, emptyString, prefix, charList, tested, found>>
    BY <1>2 DEF S!vars, S!serverVars
  <2> QED BY <2>1 DEF SearchInv, SearchTypes, NothingYet, Chunks, Places, TriedSoFar,
                      AllTried, Working, Current
<1> QED BY <1>1, <1>2

-----------------------------------------------------------------------------
(* The words of SharedSearch are those of the lemmas.                      *)
LEMMA SharedWords ==
  /\ S!Shared!Letters = S!Letters
  /\ \A n : S!Shared!Words(n) = S!Words(n)
  /\ \A u, v : S!Shared!Before(u, v) <=> S!Before(u, v)
BY DEF S!Shared!Words, S!Shared!Letters, S!Shared!FIRST, S!Letters, S!FIRST, S!Words,
       S!Shared!Before, S!Before

LEMMA WordsOfLength ==
  ASSUME NEW n \in Nat
  PROVE  S!Words(n) = {u \in AnyWord : Len(u) = n}
<1>1. \A u \in S!Words(n) : u \in AnyWord /\ Len(u) = n
  BY DEF S!Words, AnyWord
<1>2. \A u \in AnyWord : Len(u) = n => u \in S!Words(n)
  BY LenProperties, ElementOfSeq DEF S!Words, AnyWord
<1> QED BY <1>1, <1>2

LEMMA WordsUpTo ==
  ASSUME NEW p \in AnyWord
  PROVE  UpTo(p) = {q \in UNION {S!Words(n) : n \in 0..Len(p)} : S!Before(q, p)}
<1>1. Len(p) \in Nat
  BY WordType
<1>2. \A n \in 0..Len(p) : \A q \in S!Words(n) : q \in AnyWord
  BY <1>1, WordsOfLength
<1>3. ASSUME NEW q \in UpTo(p)
      PROVE  q \in UNION {S!Words(n) : n \in 0..Len(p)}
  <2>1. q \in AnyWord /\ Len(q) \in Nat /\ Len(q) <= Len(p)
    BY <1>1, WordType DEF UpTo, S!Before
  <2> QED BY <1>1, <2>1, WordsOfLength
<1> QED BY <1>2, <1>3 DEF UpTo

LEMMA HandedIs ==
  ASSUME charlist \in AnyWord
  PROVE  S!Handed = IF emptyString THEN UpTo(charlist) ELSE {}
BY WordsUpTo DEF S!Handed

LEMMA SharedUpToIs ==
  ASSUME NEW p \in AnyWord
  PROVE  S!Shared!UpTo(p) = UpTo(p)
BY WordsUpTo, SharedWords DEF S!Shared!UpTo

LEMMA ChunkIs ==
  ASSUME NEW p \in AnyWord
  PROVE  S!Shared!Chunk(p) = {p \o u : u \in Rest(p)}
<1> DEFINE Lengths == IF p = << >> THEN 1..ChunkLength ELSE {ChunkLength}
           Ends    == UNION {S!Words(n) : n \in Lengths}
<1>1. Lengths \subseteq Nat \ {0}
  BY LettersAre
<1>2. ASSUME NEW u \in Ends PROVE u \in Rest(p)
  <2>1. PICK n \in Lengths : u \in S!Words(n)
    OBVIOUS
  <2>2. n \in Nat \ {0} /\ n <= ChunkLength /\ (p # << >> => n = ChunkLength)
    BY <1>1, <2>1, LettersAre
  <2>3. u \in AnyWord /\ Len(u) = n
    BY <2>1, <2>2, WordsOfLength
  <2> QED BY <2>2, <2>3, EmptySeq DEF Rest
<1>3. ASSUME NEW u \in Rest(p) PROVE u \in Ends
  <2>1. /\ u \in AnyWord /\ Len(u) \in Nat \ {0} /\ Len(u) <= ChunkLength
        /\ p # << >> => Len(u) = ChunkLength
    BY WordType, EmptySeq DEF Rest, AnyWord
  <2>2. Len(u) \in Lengths
    BY <2>1, LettersAre
  <2> QED BY <2>1, <2>2, WordsOfLength
<1>4. Ends = Rest(p)
  BY <1>2, <1>3
<1>5. S!Shared!Chunk(p) = {p \o u : u \in Ends}
  BY SharedWords DEF S!Shared!Chunk
<1> QED BY <1>4, <1>5

-----------------------------------------------------------------------------
(* Each step of the search is one of SharedSearch.                         *)

LEMMA NextPrefixHandsOut ==
  ASSUME SearchInv, SearchInv', NEW b \in Browsers, S!NextPrefix(b)
  PROVE  S!Shared!HandOut(b)
<1>1. /\ prefix[b] = None /\ found = {} /\ UNCHANGED <<secret, tested, found>>
      /\ emptyString' /\ charlist' \in AnyWord
      /\ prefix' = [prefix EXCEPT ![b] = charlist'] /\ prefix'[b] = charlist'
  BY NextPrefixDoes DEF S!NextPrefix, SearchInv, SearchTypes
<1>2. /\ ~emptyString => charlist' = << >>
      /\ emptyString => /\ charlist' \notin UpTo(charlist)
                        /\ \A p \in AnyWord :
                             p \in UpTo(charlist') <=> p \in UpTo(charlist) \/ p = charlist'
  BY NextPrefixDoes
<1>3. S!Handed = (IF emptyString THEN UpTo(charlist) ELSE {}) /\ S!Handed' = UpTo(charlist')
  <2>1. charlist \in AnyWord
    BY DEF SearchInv, SearchTypes
  <2>2. S!Handed' = {p \in UNION {S!Words(n) : n \in 0..Len(charlist')} : S!Before(p, charlist')}
    BY <1>1 DEF S!Handed, S!Words, S!Letters, S!FIRST, S!Before
  <2> QED BY <1>1, <2>1, <2>2, HandedIs, WordsUpTo
<1>4. charlist' \notin S!Handed /\ UpTo(charlist') = S!Handed \cup {charlist'}
  <2>1. CASE emptyString
    BY <1>1, <1>2, <1>3, <2>1 DEF UpTo
  <2>2. CASE ~emptyString
    <3>1. charlist' = << >>
      BY <1>2, <2>2
    <3>2. UpTo(<< >>) = {<< >>}
      <4>1. << >> \in AnyWord
        BY <1>1, <3>1
      <4>2. << >> \in UpTo(<< >>)
        BY <4>1, EmptyUpToAny
      <4> QED BY <4>2, NoneBeforeEmpty DEF UpTo
    <3> QED BY <1>3, <2>2, <3>1, <3>2
  <2> QED BY <2>1, <2>2
<1>5. S!Shared!UpTo(charlist') = UpTo(charlist')
  BY <1>1, SharedUpToIs
<1>6. charlist' \in Seq(S!Shared!Letters)
  BY <1>1, SharedWords DEF AnyWord
<1> QED BY <1>1, <1>3, <1>4, <1>5, <1>6 DEF S!Shared!HandOut

LEMMA TestWordTries ==
  ASSUME SearchInv, NEW b \in Browsers, S!TestWord(b)
  PROVE  S!Shared!Try(b)
<1>1. /\ Working(b) /\ UNCHANGED <<charlist, emptyString>>
      /\ S!Incr(Current(b)) \in Rest(prefix[b])
      /\ prefix[b] \o S!Incr(Current(b)) \notin tested
      /\ S!Reverse(charList'[b]) = S!Incr(Current(b))
  BY TestWordDoes
<1>2. PICK w : w = prefix[b] \o S!Reverse(charList'[b])
  OBVIOUS
<1>3. /\ tested' = tested \cup {w} /\ UNCHANGED secret
      /\ IF w = secret
         THEN found' = {w} /\ prefix' = [prefix EXCEPT ![b] = None]
         ELSE UNCHANGED <<found, prefix>>
  BY <1>2 DEF S!TestWord
<1>4. prefix[b] \in AnyWord
  BY <1>1, WorkingHasPrefix DEF SearchInv
<1>5. w \in S!Shared!Chunk(prefix[b]) \ tested
  BY <1>1, <1>2, <1>4, ChunkIs
<1>6. UNCHANGED S!Handed
  BY <1>1 DEF S!Handed, S!Words, S!Letters, S!FIRST, S!Before
<1> QED BY <1>1, <1>3, <1>5, <1>6 DEF S!Shared!Try, Working

LEMMA EndChunkReturns ==
  ASSUME SearchInv, NEW b \in Browsers, S!EndChunk(b)
  PROVE  S!Shared!Return(b)
<1>1. /\ Working(b) /\ \A u \in Rest(prefix[b]) : prefix[b] \o u \in tested
      /\ prefix' = [prefix EXCEPT ![b] = None]
      /\ UNCHANGED <<charlist, emptyString, charList, tested, found>>
  BY EndChunkDoes
<1>2. UNCHANGED secret
  BY DEF S!EndChunk
<1>3. prefix[b] \in AnyWord
  BY <1>1, WorkingHasPrefix DEF SearchInv
<1>4. S!Shared!Chunk(prefix[b]) \subseteq tested
  <2>1. S!Shared!Chunk(prefix[b]) = {prefix[b] \o u : u \in Rest(prefix[b])}
    BY <1>3, ChunkIs
  <2>2. \A w \in {prefix[b] \o u : u \in Rest(prefix[b])} : w \in tested
    BY <1>1
  <2> QED BY <2>1, <2>2
<1>5. UNCHANGED S!Handed
  BY <1>1 DEF S!Handed, S!Words, S!Letters, S!FIRST, S!Before
<1> QED BY <1>1, <1>2, <1>4, <1>5 DEF S!Shared!Return, Working

-----------------------------------------------------------------------------
(* Folds.  What a fold over a sequence gives is defined by a function of   *)
(* sets of positions; that there is one, and that it is what the loop      *)
(* makes of the sequence position by position, are inductions, said with   *)
(* sets instead of predicates.                                             *)

LEMMA StepByStep ==
  ASSUME NEW n \in Nat, NEW Q, 0 \in Q, \A m \in 1..n : m - 1 \in Q => m \in Q
  PROVE  n \in Q
<1> DEFINE T == {m \in 0..n : m \notin Q}
<1> SUFFICES ASSUME n \notin Q PROVE FALSE
  OBVIOUS
<1>1. T \in SUBSET Nat /\ n \in T
  OBVIOUS
<1>2. PICK m \in T : \A y \in T : m =< y
  <2> HIDE DEF T
  <2> QED BY <1>1, LeastNatural
<1>3. m \in 1..n /\ m - 1 \in 0..n
  BY <1>2
<1>4. m - 1 \notin T
  <2>1. ~(m =< m - 1)
    BY <1>3
  <2> HIDE DEF T
  <2> QED BY <1>2, <2>1
<1> QED BY <1>2, <1>3, <1>4

(* A loop over t that begins with base and whose body is op has its values *)
(* in T.                                                                   *)
Loop(T, op, base, t) ==
  /\ base \in T /\ Len(t) \in Nat
  /\ \A x \in T : \A m \in 1..Len(t) : op[<<x, t[m]>>] \in T

(* it follows the loop over t that begins with base and whose body is op.  *)
Follows(it, T, op, base, t) ==
  /\ it[{}] = base
  /\ \A m \in 1..Len(t) :
       it[1..m - 1] \in T => it[1..m] = op[<<it[1..m - 1], t[m]>>]

LEMMA FollowsUnique ==
  ASSUME NEW T, NEW op, NEW base, NEW t, Loop(T, op, base, t),
         NEW g, Follows(g, T, op, base, t), NEW h, Follows(h, T, op, base, t)
  PROVE  g[1..Len(t)] \in T /\ g[1..Len(t)] = h[1..Len(t)]
<1> DEFINE Q == {m \in 0..Len(t) : g[1..m] \in T /\ g[1..m] = h[1..m]}
<1>1. 0 \in Q
  <2>1. 1..0 = {}
    OBVIOUS
  <2> QED BY <2>1 DEF Follows, Loop
<1>2. ASSUME NEW m \in 1..Len(t), m - 1 \in Q PROVE m \in Q
  <2>1. g[1..m - 1] \in T /\ g[1..m - 1] = h[1..m - 1]
    BY <1>2
  <2>2. g[1..m] = op[<<g[1..m - 1], t[m]>>] /\ h[1..m] = op[<<h[1..m - 1], t[m]>>]
    BY <2>1 DEF Follows
  <2>3. op[<<g[1..m - 1], t[m]>>] \in T
    BY <2>1 DEF Loop
  <2> QED BY <2>1, <2>2, <2>3
<1>3. Len(t) \in Q
  <2> HIDE DEF Q
  <2>1. Len(t) \in Nat
    BY DEF Loop
  <2> QED BY <1>1, <1>2, <2>1, StepByStep
<1> QED BY <1>3

(* One more turn of the loop                                               *)
LEMMA FollowsAppend ==
  ASSUME NEW T, NEW op, NEW base, NEW t, Loop(T, op, base, t),
         NEW u, Len(u) = Len(t) + 1, \A m \in 1..Len(t) : u[m] = t[m],
         NEW g, Follows(g, T, op, base, t), NEW h, Follows(h, T, op, base, u)
  PROVE  h[1..Len(u)] = op[<<g[1..Len(t)], u[Len(u)]>>]
<1>1. Follows(h, T, op, base, t)
  BY DEF Follows, Loop
<1>2. g[1..Len(t)] \in T /\ g[1..Len(t)] = h[1..Len(t)]
  BY <1>1, FollowsUnique
<1>3. Len(u) \in 1..Len(u) /\ Len(u) - 1 = Len(t)
  BY DEF Loop
<1>4. h[1..Len(t)] \in T => h[1..Len(u)] = op[<<h[1..Len(t)], u[Len(u)]>>]
  BY <1>3 DEF Follows
<1> QED BY <1>2, <1>4

LEMMA MaxIsIn ==
  ASSUME NEW n \in Nat, NEW D \in SUBSET (1..n), D # {}
  PROVE  I!Max(D) \in D /\ \A x \in D : x =< I!Max(D)
BY MaxIsLast DEF I!Max, S!Max

(* There is such a function of the sets of positions.                      *)
Folds(g, op, base, t) ==
  g = [D \in SUBSET (DOMAIN t) |->
         IF D = {} THEN base ELSE op[<<g[D \ {I!Max(D)}], t[I!Max(D)]>>]]

LEMMA FoldExists ==
  ASSUME NEW T, NEW C, NEW op \in [T \X C -> T], NEW base \in T, NEW t \in Seq(C)
  PROVE  \E g \in [SUBSET (DOMAIN t) -> T] : Folds(g, op, base, t)
<1> DEFINE P(g, m) == \A D \in SUBSET (1..m) :
                        g[D] = IF D = {} THEN base
                               ELSE op[<<g[D \ {I!Max(D)}], t[I!Max(D)]>>]
           Q == {m \in 0..Len(t) : \E g \in [SUBSET (1..m) -> T] : P(g, m)}
<1>1. Len(t) \in Nat /\ DOMAIN t = 1..Len(t) /\ \A m \in 1..Len(t) : t[m] \in C
  BY LenProperties, ElementOfSeq
<1>2. 0 \in Q
  <2> DEFINE g == [D \in SUBSET (1..0) |-> base]
  <2>1. g \in [SUBSET (1..0) -> T]
    OBVIOUS
  <2>2. 1..0 = {}
    OBVIOUS
  <2>3. P(g, 0)
    BY <2>2
  <2> HIDE DEF P, g
  <2>4. \E x \in [SUBSET (1..0) -> T] : P(x, 0)
    BY <2>1, <2>3
  <2>5. 0 \in 0..Len(t)
    BY <1>1
  <2> QED BY <2>4, <2>5, Zenon
<1>3. ASSUME NEW m \in 1..Len(t), m - 1 \in Q PROVE m \in Q
  <2>1. m - 1 \in Nat /\ m \in Nat
    BY <1>1
  <2>2. PICK g \in [SUBSET (1..m - 1) -> T] : P(g, m - 1)
    <3> HIDE DEF P
    <3> QED BY <1>3
  <2>3. PICK h : h = [D \in SUBSET (1..m) |->
                        IF m \in D THEN op[<<g[D \ {m}], t[m]>>] ELSE g[D]]
    OBVIOUS
  <2>4. \A D \in SUBSET (1..m) : /\ D \ {m} \in SUBSET (1..m - 1)
                                 /\ m \notin D => D \in SUBSET (1..m - 1)
    BY <2>1
  <2>5. h \in [SUBSET (1..m) -> T]
    BY <1>1, <2>3, <2>4
  <2>6. ASSUME NEW D \in SUBSET (1..m), m \in D
        PROVE  h[D] = op[<<h[D \ {I!Max(D)}], t[I!Max(D)]>>] /\ D # {}
    <3>1. I!Max(D) \in D /\ m =< I!Max(D)
      BY <2>1, <2>6, MaxIsIn
    <3>2. I!Max(D) = m
      <4>1. I!Max(D) \in 1..m
        BY <3>1
      <4> QED BY <2>1, <3>1, <4>1
    <3>3. h[D] = op[<<g[D \ {m}], t[m]>>]
      BY <2>3, <2>6
    <3>4. h[D \ {m}] = g[D \ {m}]
      BY <2>3
    <3> QED BY <2>6, <3>2, <3>3, <3>4
  <2>7. ASSUME NEW D \in SUBSET (1..m), m \notin D, D # {}
        PROVE  h[D] = op[<<h[D \ {I!Max(D)}], t[I!Max(D)]>>]
    <3>1. h[D] = g[D] /\ h[D \ {I!Max(D)}] = g[D \ {I!Max(D)}]
      BY <2>3, <2>7
    <3>2. D \in SUBSET (1..m - 1)
      BY <2>4, <2>7
    <3> QED BY <2>2, <2>7, <3>1, <3>2
  <2>8. h[{}] = base
    BY <2>2, <2>3
  <2>9. P(h, m)
    BY <2>6, <2>7, <2>8
  <2> HIDE DEF P
  <2> QED BY <2>5, <2>9
<1>4. Len(t) \in Q
  <2> HIDE DEF Q
  <2> QED BY <1>1, <1>2, <1>3, StepByStep
<1>5. PICK g \in [SUBSET (1..Len(t)) -> T] : P(g, Len(t))
  <2> HIDE DEF P
  <2> QED BY <1>4
<1>6. Folds(g, op, base, t)
  BY <1>1, <1>5 DEF Folds
<1> QED BY <1>1, <1>5, <1>6

LEMMA MaxUpTo ==
  ASSUME NEW m \in Nat \ {0}
  PROVE  I!Max(1..m) = m /\ (1..m) \ {I!Max(1..m)} = 1..m - 1 /\ 1..m # {}
<1>1. I!Max(1..m) \in 1..m /\ m =< I!Max(1..m)
  <2>1. 1..m \in SUBSET (1..m) /\ m \in 1..m
    OBVIOUS
  <2> QED BY <2>1, MaxIsIn
<1> QED BY <1>1

(* R[t] is what the loop gives for t, which it reads element by element.   *)
LoopGives(R, T, C, op, base) ==
  /\ op \in [T \X C -> T] /\ base \in T
  /\ \A t \in Seq(C) : \E g : Follows(g, T, op, base, t) /\ R[t] = g[1..Len(t)]

LEMMA LoopNext ==
  ASSUME NEW R, NEW T, NEW C, NEW op, NEW base, LoopGives(R, T, C, op, base)
  PROVE  /\ R[<< >>] = base
         /\ \A t \in Seq(C) :
              /\ R[t] \in T
              /\ \A c \in C : R[Append(t, c)] = op[<<R[t], c>>]
<1>1. << >> \in Seq(C) /\ Len(<< >>) = 0 /\ 1..0 = {}
  BY EmptySeq
<1>2. R[<< >>] = base
  BY <1>1 DEF LoopGives, Follows
<1>3. ASSUME NEW t \in Seq(C)
      PROVE  R[t] \in T /\ \A c \in C : R[Append(t, c)] = op[<<R[t], c>>]
  <2>1. PICK g : Follows(g, T, op, base, t) /\ R[t] = g[1..Len(t)]
    BY DEF LoopGives
  <2>2. Loop(T, op, base, t)
    BY LenProperties, ElementOfSeq DEF LoopGives, Loop
  <2>3. R[t] \in T
    BY <2>1, <2>2, FollowsUnique
  <2>4. ASSUME NEW c \in C PROVE R[Append(t, c)] = op[<<R[t], c>>]
    <3>1. PICK u : u = Append(t, c)
      OBVIOUS
    <3>2. /\ u \in Seq(C) /\ Len(u) = Len(t) + 1 /\ u[Len(u)] = c
          /\ \A m \in 1..Len(t) : u[m] = t[m]
      BY <3>1
    <3>3. PICK h : Follows(h, T, op, base, u) /\ R[u] = h[1..Len(u)]
      BY <3>2 DEF LoopGives
    <3>4. h[1..Len(u)] = op[<<g[1..Len(t)], u[Len(u)]>>]
      BY <2>1, <2>2, <3>2, <3>3, FollowsAppend
    <3> QED BY <2>1, <3>1, <3>2, <3>3, <3>4
  <2> QED BY <2>3, <2>4
<1> QED BY <1>2, <1>3

(* normalizeText and split, character by character                         *)
CharSeqs == Seq(Nat)
WordLists == Seq(CharSeqs) \ {<< >>}

NormOp  == [p \in CharSeqs \X Nat |-> I!NextCharacter(p[1], p[2])]
SplitOp == [p \in WordLists \X Nat |-> I!SplitAt(p[1], p[2])]

LEMMA NormOpType == NormOp \in [CharSeqs \X Nat -> CharSeqs] /\ << >> \in CharSeqs
<1>1. ASSUME NEW t \in CharSeqs, NEW c \in Nat PROVE I!NextCharacter(t, c) \in CharSeqs
  <2>1. I!LowerCase(c) \in Nat /\ I!SPACE \in Nat
    BY DEF I!LowerCase, I!SPACE
  <2> QED BY <2>1 DEF I!NextCharacter, CharSeqs
<1> QED BY <1>1 DEF NormOp, CharSeqs

LEMMA SplitOpType == SplitOp \in [WordLists \X Nat -> WordLists] /\ << << >> >> \in WordLists
<1>1. ASSUME NEW t \in WordLists, NEW c \in Nat PROVE I!SplitAt(t, c) \in WordLists
  <2>1. /\ t \in Seq(CharSeqs) /\ Len(t) \in Nat \ {0} /\ << >> \in CharSeqs
        /\ Len(t) \in 1..Len(t)
    BY EmptySeq DEF WordLists, CharSeqs
  <2>2. Append(t, << >>) \in Seq(CharSeqs) /\ Len(Append(t, << >>)) = Len(t) + 1
    BY <2>1
  <2>3. Append(t[Len(t)], c) \in CharSeqs
    BY <2>1, ElementOfSeq DEF CharSeqs
  <2>4. PICK e \in CharSeqs : e = Append(t[Len(t)], c)
    BY <2>3
  <2>5. [t EXCEPT ![Len(t)] = e] \in Seq(CharSeqs) /\ Len([t EXCEPT ![Len(t)] = e]) = Len(t)
    BY <2>1, ExceptSeq
  <2>6. Len(<< >>) = 0
    OBVIOUS
  <2>7. CASE c = I!SPACE
    BY <2>1, <2>2, <2>6, <2>7 DEF I!SplitAt, WordLists
  <2>8. CASE c # I!SPACE
    <3>1. I!SplitAt(t, c) = [t EXCEPT ![Len(t)] = e]
      BY <2>4, <2>8 DEF I!SplitAt
    <3> QED BY <2>1, <2>5, <2>6, <3>1 DEF WordLists
  <2> QED BY <2>7, <2>8
<1>2. << << >> >> \in WordLists
  BY DEF WordLists, CharSeqs
<1> QED BY <1>1, <1>2 DEF SplitOp

LEMMA NormalizeFollows ==
  ASSUME NEW t \in CharSeqs
  PROVE  \E it : Follows(it, CharSeqs, NormOp, << >>, t) /\ I!normalizeText(t) = it[1..Len(t)]
<1>1. t \in Seq(Nat) /\ Len(t) \in Nat /\ DOMAIN t = 1..Len(t) /\ \A m \in 1..Len(t) : t[m] \in Nat
  BY LenProperties, ElementOfSeq DEF CharSeqs
<1>2. PICK g \in [SUBSET (DOMAIN t) -> CharSeqs] : Folds(g, NormOp, << >>, t)
  BY <1>1, NormOpType, FoldExists
<1>3. ASSUME NEW D \in SUBSET (DOMAIN t), D # {}
      PROVE  NormOp[<<g[D \ {I!Max(D)}], t[I!Max(D)]>>]
               = I!NextCharacter(g[D \ {I!Max(D)}], t[I!Max(D)])
  <2>1. I!Max(D) \in 1..Len(t)
    BY <1>1, <1>3, MaxIsIn
  <2>2. g[D \ {I!Max(D)}] \in CharSeqs /\ t[I!Max(D)] \in Nat
    BY <1>1, <2>1
  <2> QED BY <2>2 DEF NormOp
<1>4. g = [D \in SUBSET (DOMAIN t) |->
             IF D = {} THEN << >>
             ELSE I!NextCharacter(g[D \ {I!Max(D)}], t[I!Max(D)])]
  BY <1>2, <1>3 DEF Folds
<1>5. PICK it : /\ it = [D \in SUBSET (DOMAIN t) |->
                           IF D = {} THEN << >>
                           ELSE I!NextCharacter(it[D \ {I!Max(D)}], t[I!Max(D)])]
                /\ I!normalizeText(t) = it[DOMAIN t]
  <2> HIDE <1>2, <1>3
  <2> QED BY <1>4 DEF I!normalizeText, I!FoldLeft, I!MapThenFoldSet
<1>6. it[{}] = << >>
  BY <1>5
<1>7. ASSUME NEW m \in 1..Len(t), it[1..m - 1] \in CharSeqs
      PROVE  it[1..m] = NormOp[<<it[1..m - 1], t[m]>>]
  <2>1. I!Max(1..m) = m /\ (1..m) \ {I!Max(1..m)} = 1..m - 1 /\ 1..m # {}
    <3>1. m \in Nat \ {0}
      BY <1>1
    <3> QED BY <3>1, MaxUpTo
  <2>2. 1..m \in SUBSET (DOMAIN t) /\ t[m] \in Nat
    BY <1>1
  <2>3. it[1..m] = I!NextCharacter(it[1..m - 1], t[m])
    BY <1>5, <2>1, <2>2
  <2> QED BY <1>7, <2>2, <2>3 DEF NormOp
<1> QED BY <1>1, <1>5, <1>6, <1>7 DEF Follows

LEMMA NormalizeNext ==
  /\ I!normalizeText(<< >>) = << >>
  /\ \A t \in CharSeqs :
       /\ I!normalizeText(t) \in CharSeqs
       /\ \A c \in Nat : I!normalizeText(Append(t, c)) = I!NextCharacter(I!normalizeText(t), c)
<1> DEFINE R == [t \in Seq(Nat) |-> I!normalizeText(t)]
<1>1. LoopGives(R, CharSeqs, Nat, NormOp, << >>)
  BY NormalizeFollows, NormOpType DEF CharSeqs, LoopGives
<1>2. /\ R[<< >>] = << >>
      /\ \A t \in Seq(Nat) :
           R[t] \in CharSeqs /\ \A c \in Nat : R[Append(t, c)] = NormOp[<<R[t], c>>]
  <2> HIDE DEF R
  <2> QED BY <1>1, LoopNext
<1>3. \A t \in Seq(Nat) : \A c \in Nat : Append(t, c) \in Seq(Nat)
  OBVIOUS
<1>4. \A t \in CharSeqs, c \in Nat : NormOp[<<t, c>>] = I!NextCharacter(t, c)
  BY DEF NormOp
<1> QED BY <1>2, <1>3, <1>4, EmptySeq DEF CharSeqs

LEMMA SplitFollows ==
  ASSUME NEW t \in CharSeqs
  PROVE  \E it : Follows(it, WordLists, SplitOp, << << >> >>, t) /\ I!Split(t) = it[1..Len(t)]
<1>1. t \in Seq(Nat) /\ Len(t) \in Nat /\ DOMAIN t = 1..Len(t) /\ \A m \in 1..Len(t) : t[m] \in Nat
  BY LenProperties, ElementOfSeq DEF CharSeqs
<1>2. PICK g \in [SUBSET (DOMAIN t) -> WordLists] : Folds(g, SplitOp, << << >> >>, t)
  BY <1>1, SplitOpType, FoldExists
<1>3. ASSUME NEW D \in SUBSET (DOMAIN t), D # {}
      PROVE  SplitOp[<<g[D \ {I!Max(D)}], t[I!Max(D)]>>]
               = I!SplitAt(g[D \ {I!Max(D)}], t[I!Max(D)])
  <2>1. I!Max(D) \in 1..Len(t)
    BY <1>1, <1>3, MaxIsIn
  <2>2. g[D \ {I!Max(D)}] \in WordLists /\ t[I!Max(D)] \in Nat
    BY <1>1, <2>1
  <2> QED BY <2>2 DEF SplitOp
<1>4. g = [D \in SUBSET (DOMAIN t) |->
             IF D = {} THEN << << >> >>
             ELSE I!SplitAt(g[D \ {I!Max(D)}], t[I!Max(D)])]
  BY <1>2, <1>3 DEF Folds
<1>5. PICK it : /\ it = [D \in SUBSET (DOMAIN t) |->
                           IF D = {} THEN << << >> >>
                           ELSE I!SplitAt(it[D \ {I!Max(D)}], t[I!Max(D)])]
                /\ I!Split(t) = it[DOMAIN t]
  <2> HIDE <1>2, <1>3
  <2> QED BY <1>4 DEF I!Split, I!FoldLeft, I!MapThenFoldSet
<1>6. it[{}] = << << >> >>
  BY <1>5
<1>7. ASSUME NEW m \in 1..Len(t), it[1..m - 1] \in WordLists
      PROVE  it[1..m] = SplitOp[<<it[1..m - 1], t[m]>>]
  <2>1. I!Max(1..m) = m /\ (1..m) \ {I!Max(1..m)} = 1..m - 1 /\ 1..m # {}
    <3>1. m \in Nat \ {0}
      BY <1>1
    <3> QED BY <3>1, MaxUpTo
  <2>2. 1..m \in SUBSET (DOMAIN t) /\ t[m] \in Nat
    BY <1>1
  <2>3. it[1..m] = I!SplitAt(it[1..m - 1], t[m])
    BY <1>5, <2>1, <2>2
  <2> QED BY <1>7, <2>2, <2>3 DEF SplitOp
<1> QED BY <1>1, <1>5, <1>6, <1>7 DEF Follows

LEMMA SplitNext ==
  /\ I!Split(<< >>) = << << >> >>
  /\ \A t \in CharSeqs :
       /\ I!Split(t) \in WordLists
       /\ \A c \in Nat : I!Split(Append(t, c)) = I!SplitAt(I!Split(t), c)
<1> DEFINE R == [t \in Seq(Nat) |-> I!Split(t)]
<1>1. LoopGives(R, WordLists, Nat, SplitOp, << << >> >>)
  BY SplitFollows, SplitOpType DEF CharSeqs, LoopGives
<1>2. /\ R[<< >>] = << << >> >>
      /\ \A t \in Seq(Nat) :
           R[t] \in WordLists /\ \A c \in Nat : R[Append(t, c)] = SplitOp[<<R[t], c>>]
  <2> HIDE DEF R
  <2> QED BY <1>1, LoopNext
<1>3. \A t \in Seq(Nat) : \A c \in Nat : Append(t, c) \in Seq(Nat)
  OBVIOUS
<1>4. \A t \in WordLists, c \in Nat : SplitOp[<<t, c>>] = I!SplitAt(t, c)
  BY DEF SplitOp
<1> QED BY <1>2, <1>3, <1>4, EmptySeq DEF CharSeqs

(* What holds of the empty sequence, and of Append(u, c) when it holds of  *)
(* u, holds of every sequence.                                             *)
LEMMA OneByOne ==
  ASSUME NEW C, NEW Q, << >> \in Q,
         \A u \in Seq(C) : \A c \in C : u \in Q => Append(u, c) \in Q
  PROVE  \A t \in Seq(C) : t \in Q
<1> SUFFICES ASSUME NEW t \in Seq(C) PROVE t \in Q
  OBVIOUS
<1> DEFINE P == {m \in Nat : \A u \in Seq(C) : Len(u) = m => u \in Q}
<1>1. 0 \in P
  <2>1. \A u \in Seq(C) : Len(u) = 0 => u = << >>
    BY EmptySeq
  <2> QED BY <2>1
<1>2. ASSUME NEW m \in 1..Len(t), m - 1 \in P PROVE m \in P
  <2>1. m \in Nat \ {0}
    BY LenProperties
  <2>2. ASSUME NEW u \in Seq(C), Len(u) = m PROVE u \in Q
    <3>1. PICK v : v = SubSeq(u, 1, m - 1)
      OBVIOUS
    <3>2. v \in Seq(C) /\ Len(v) = m - 1 /\ \A x \in 1..m - 1 : v[x] = u[x]
      <4>1. \A x \in 1..m - 1 : u[x] \in C
        BY <2>1, <2>2, ElementOfSeq
      <4>2. 1 \in Int /\ m - 1 \in Int
        BY <2>1
      <4> QED BY <2>1, <3>1, <4>1, <4>2, SubSeqProperties
    <3>3. u[m] \in C
      BY <2>1, <2>2, ElementOfSeq
    <3>4. u = Append(v, u[m])
      <4>1. PICK w : w = Append(v, u[m])
        OBVIOUS
      <4>2. /\ w \in Seq(C) /\ Len(w) = m /\ w[m] = u[m]
            /\ \A x \in 1..m - 1 : w[x] = v[x]
        BY <2>1, <3>2, <3>3, <4>1
      <4>3. \A x \in 1..Len(u) : u[x] = w[x]
        BY <2>1, <2>2, <3>2, <4>2
      <4>4. u = w
        BY <2>2, <4>2, <4>3, SeqEqual
      <4> QED BY <4>1, <4>4
    <3>5. v \in Q
      BY <1>2, <3>2
    <3> QED BY <3>2, <3>3, <3>4, <3>5
  <2> QED BY <2>1, <2>2
<1>3. Len(t) \in P
  <2>1. Len(t) \in Nat
    BY LenProperties
  <2> HIDE DEF P
  <2> QED BY <1>1, <1>2, <2>1, StepByStep
<1> QED BY <1>3

(* The words that map makes of a text                                      *)
WordList(t) == I!Split(I!normalizeText(t))

Letter(c) == I!IsLetter(I!LowerCase(c))

LEMMA LetterIs ==
  ASSUME NEW t \in CharSeqs, NEW c \in Nat
  PROVE  /\ Len(t) \in Nat /\ DOMAIN t = 1..Len(t)
         /\ Append(t, c) \in CharSeqs /\ Len(Append(t, c)) = Len(t) + 1
         /\ \A m \in 1..Len(t) : Append(t, c)[m] = t[m]
         /\ Append(t, c)[Len(t) + 1] = c
         /\ \A m \in Int \ {Len(t) + 1} : I!LetterAt(Append(t, c), m) <=> I!LetterAt(t, m)
         /\ I!LetterAt(Append(t, c), Len(t) + 1) <=> Letter(c)
<1>1. /\ Len(t) \in Nat /\ DOMAIN t = 1..Len(t)
      /\ Append(t, c) \in CharSeqs /\ Len(Append(t, c)) = Len(t) + 1
      /\ DOMAIN Append(t, c) = 1..Len(t) + 1
      /\ \A m \in 1..Len(t) : Append(t, c)[m] = t[m]
      /\ Append(t, c)[Len(t) + 1] = c
  BY LenProperties DEF CharSeqs
<1>2. ASSUME NEW m \in Int \ {Len(t) + 1}
      PROVE  I!LetterAt(Append(t, c), m) <=> I!LetterAt(t, m)
  <2>1. CASE m \in 1..Len(t)
    <3>1. m \in 1..Len(t) + 1
      BY <1>1, <2>1
    <3> QED BY <1>1, <2>1, <3>1 DEF I!LetterAt
  <2>2. CASE m \notin 1..Len(t)
    <3>1. m \notin 1..Len(t) + 1
      BY <1>1, <2>2
    <3> QED BY <1>1, <2>2, <3>1 DEF I!LetterAt
  <2> QED BY <2>1, <2>2
<1>3. I!LetterAt(Append(t, c), Len(t) + 1) <=> Letter(c)
  <2>1. Len(t) + 1 \in 1..Len(t) + 1
    BY <1>1
  <2> QED BY <1>1, <2>1 DEF I!LetterAt, Letter
<1> QED BY <1>1, <1>2, <1>3

LEMMA NoLetterAtZero ==
  ASSUME NEW t \in CharSeqs, NEW m \in Int, m \notin 1..Len(t)
  PROVE  ~I!LetterAt(t, m)
BY LenProperties DEF I!LetterAt, CharSeqs

LEMMA FromLast ==
  ASSUME NEW t \in CharSeqs, t # << >>
  PROVE  \E u \in CharSeqs, c \in Nat : t = Append(u, c)
<1> DEFINE Q == {v \in CharSeqs : v # << >> => \E u \in CharSeqs, c \in Nat : v = Append(u, c)}
<1>1. << >> \in Q
  BY DEF CharSeqs
<1>2. ASSUME NEW u \in Seq(Nat), NEW c \in Nat PROVE Append(u, c) \in Q
  <2>1. u \in CharSeqs /\ Append(u, c) \in CharSeqs
    BY DEF CharSeqs
  <2>2. \E x \in CharSeqs, d \in Nat : Append(u, c) = Append(x, d)
    BY <2>1, Zenon
  <2> QED BY <2>1, <2>2, Zenon
<1>3. \A v \in Seq(Nat) : v \in Q
  <2> HIDE DEF Q
  <2> QED BY <1>1, <1>2, OneByOne
<1> QED BY <1>3 DEF CharSeqs

(* The text ends in a space of its own when it ends in no letter.          *)
LEMMA EndsInSpace ==
  ASSUME NEW t \in CharSeqs
  PROVE  LET w == I!normalizeText(t) IN
         w # << >> /\ I!Last(w) = I!SPACE <=> t # << >> /\ ~I!LetterAt(t, Len(t))
<1>1. CASE t = << >>
  BY <1>1, NormalizeNext
<1>2. CASE t # << >>
  <2>1. PICK u \in CharSeqs, c \in Nat : t = Append(u, c)
    BY <1>2, FromLast
  <2>2. PICK v : v = I!normalizeText(u)
    OBVIOUS
  <2>3. v \in CharSeqs /\ I!normalizeText(t) = I!NextCharacter(v, c)
    BY <2>1, <2>2, NormalizeNext
  <2>4. Len(t) = Len(u) + 1 /\ (I!LetterAt(t, Len(t)) <=> Letter(c))
    BY <2>1, LetterIs
  <2>5. \A x \in Nat : LET w == Append(v, x) IN w # << >> /\ w[Len(w)] = x
    <3>1. \A x \in Nat : /\ Append(v, x) \in Seq(Nat) /\ Len(Append(v, x)) = Len(v) + 1
                         /\ Append(v, x)[Len(v) + 1] = x /\ Len(v) + 1 # 0
      BY <2>3 DEF CharSeqs
    <3>2. Len(<< >>) = 0
      OBVIOUS
    <3> QED BY <3>1, <3>2
  <2>6. I!LowerCase(c) \in Nat /\ I!SPACE \in Nat /\ (Letter(c) => I!LowerCase(c) # I!SPACE)
    BY DEF I!LowerCase, I!SPACE, Letter, I!IsLetter
  <2>7. CASE Letter(c)
    <3>1. I!normalizeText(t) = Append(v, I!LowerCase(c))
      BY <2>3, <2>7 DEF I!NextCharacter, Letter
    <3> QED BY <2>4, <2>5, <2>6, <2>7, <3>1 DEF I!Last
  <2>8. CASE ~Letter(c) /\ v # << >> /\ I!Last(v) = I!SPACE
    <3>1. I!normalizeText(t) = v
      BY <2>3, <2>8 DEF I!NextCharacter, Letter
    <3> QED BY <1>2, <2>4, <2>8, <3>1
  <2>9. CASE ~Letter(c) /\ ~(v # << >> /\ I!Last(v) = I!SPACE)
    <3>1. I!normalizeText(t) = Append(v, I!SPACE)
      BY <2>3, <2>9 DEF I!NextCharacter, Letter
    <3> QED BY <1>2, <2>4, <2>5, <2>6, <2>9, <3>1 DEF I!Last
  <2> QED BY <2>7, <2>8, <2>9
<1> QED BY <1>1, <1>2

(* A letter goes to the last word, and the first character behind a word   *)
(* that is no letter begins a new one.                                     *)
LEMMA WordListNext ==
  /\ WordList(<< >>) = << << >> >>
  /\ \A t \in CharSeqs :
       /\ WordList(t) \in WordLists
       /\ \A c \in Nat :
            /\ Letter(c) =>
                 WordList(Append(t, c)) =
                   [WordList(t) EXCEPT ![Len(WordList(t))] = Append(@, I!LowerCase(c))]
            /\ ~Letter(c) =>
                 WordList(Append(t, c)) =
                   IF t # << >> /\ ~I!LetterAt(t, Len(t)) THEN WordList(t)
                   ELSE Append(WordList(t), << >>)
<1>1. WordList(<< >>) = << << >> >>
  BY NormalizeNext, SplitNext DEF WordList
<1>2. ASSUME NEW t \in CharSeqs, NEW c \in Nat
      PROVE  /\ WordList(t) \in WordLists
             /\ Letter(c) =>
                  WordList(Append(t, c)) =
                    [WordList(t) EXCEPT ![Len(WordList(t))] = Append(@, I!LowerCase(c))]
             /\ ~Letter(c) =>
                  WordList(Append(t, c)) =
                    IF t # << >> /\ ~I!LetterAt(t, Len(t)) THEN WordList(t)
                    ELSE Append(WordList(t), << >>)
  <2>1. PICK v : v = I!normalizeText(t)
    OBVIOUS
  <2>2. v \in CharSeqs /\ I!normalizeText(Append(t, c)) = I!NextCharacter(v, c)
    BY <2>1, NormalizeNext
  <2>3. WordList(t) \in WordLists
    BY <2>1, <2>2, SplitNext DEF WordList
  <2>4. I!LowerCase(c) \in Nat /\ I!SPACE \in Nat /\ (Letter(c) => I!LowerCase(c) # I!SPACE)
    BY DEF I!LowerCase, I!SPACE, Letter, I!IsLetter
  <2>5. \A x \in Nat : I!Split(Append(v, x)) = I!SplitAt(WordList(t), x)
    BY <2>1, <2>2, SplitNext DEF WordList
  <2>6. ASSUME Letter(c)
        PROVE  WordList(Append(t, c)) =
                 [WordList(t) EXCEPT ![Len(WordList(t))] = Append(@, I!LowerCase(c))]
    <3>1. I!NextCharacter(v, c) = Append(v, I!LowerCase(c))
      BY <2>6 DEF I!NextCharacter, Letter
    <3>2. WordList(Append(t, c)) = I!SplitAt(WordList(t), I!LowerCase(c))
      BY <2>2, <2>4, <2>5, <3>1 DEF WordList
    <3> QED BY <2>4, <2>6, <3>2 DEF I!SplitAt
  <2>7. ASSUME ~Letter(c)
        PROVE  WordList(Append(t, c)) =
                 IF t # << >> /\ ~I!LetterAt(t, Len(t)) THEN WordList(t)
                 ELSE Append(WordList(t), << >>)
    <3>1. v # << >> /\ I!Last(v) = I!SPACE <=> t # << >> /\ ~I!LetterAt(t, Len(t))
      BY <2>1, EndsInSpace
    <3>2. CASE t # << >> /\ ~I!LetterAt(t, Len(t))
      <4>1. I!NextCharacter(v, c) = v
        BY <2>7, <3>1, <3>2 DEF I!NextCharacter, Letter
      <4> QED BY <2>1, <2>2, <3>2, <4>1 DEF WordList
    <3>3. CASE ~(t # << >> /\ ~I!LetterAt(t, Len(t)))
      <4>1. I!NextCharacter(v, c) = Append(v, I!SPACE)
        BY <2>7, <3>1, <3>3 DEF I!NextCharacter, Letter
      <4>2. WordList(Append(t, c)) = I!SplitAt(WordList(t), I!SPACE)
        BY <2>2, <2>4, <2>5, <4>1 DEF WordList
      <4> QED BY <3>3, <4>2 DEF I!SplitAt
    <3> QED BY <3>2, <3>3
  <2> QED BY <2>3, <2>6, <2>7
<1>3. \A t \in CharSeqs : WordList(t) \in WordLists
  <2>1. 0 \in Nat
    OBVIOUS
  <2> QED BY <1>2, <2>1
<1> QED BY <1>1, <1>2, <1>3

-----------------------------------------------------------------------------
(* The runs of letters of a text and of the text with one more character   *)

RunsIn(n, L) ==
  {run \in (1..n) \X (1..n) :
     /\ run[1] <= run[2]
     /\ \A m \in run[1]..run[2] : m \in L
     /\ run[1] - 1 \notin L /\ run[2] + 1 \notin L}

LettersOf(t) == {m \in DOMAIN t : Letter(t[m])}

LEMMA LettersOfIs ==
  ASSUME NEW t \in CharSeqs
  PROVE  /\ LettersOf(t) \in SUBSET (1..Len(t)) /\ Len(t) \in Nat
         /\ \A m : I!LetterAt(t, m) <=> m \in LettersOf(t)
         /\ I!Runs(t) = RunsIn(Len(t), LettersOf(t))
<1>1. Len(t) \in Nat /\ LettersOf(t) \in SUBSET (1..Len(t))
  BY LenProperties DEF CharSeqs, LettersOf
<1>2. \A m : I!LetterAt(t, m) <=> m \in LettersOf(t)
  BY DEF I!LetterAt, LettersOf, Letter
<1>3. I!Runs(t) = RunsIn(Len(t), LettersOf(t))
  BY <1>2, Zenon DEF I!Runs, RunsIn
<1> QED BY <1>1, <1>2, <1>3

LEMMA LettersOfNext ==
  ASSUME NEW t \in CharSeqs, NEW c \in Nat
  PROVE  LettersOf(Append(t, c)) =
           IF Letter(c) THEN LettersOf(t) \cup {Len(t) + 1} ELSE LettersOf(t)
<1>1. /\ Len(t) \in Nat /\ Len(Append(t, c)) = Len(t) + 1 /\ Append(t, c) \in CharSeqs
      /\ \A m \in Int \ {Len(t) + 1} : I!LetterAt(Append(t, c), m) <=> I!LetterAt(t, m)
      /\ I!LetterAt(Append(t, c), Len(t) + 1) <=> Letter(c)
  BY LetterIs
<1>2. /\ LettersOf(t) \in SUBSET (1..Len(t))
      /\ LettersOf(Append(t, c)) \in SUBSET (1..Len(t) + 1)
      /\ \A m : I!LetterAt(t, m) <=> m \in LettersOf(t)
      /\ \A m : I!LetterAt(Append(t, c), m) <=> m \in LettersOf(Append(t, c))
  BY <1>1, LettersOfIs
<1>3. \A m \in 1..Len(t) : m \in LettersOf(Append(t, c)) <=> m \in LettersOf(t)
  <2>1. \A m \in 1..Len(t) : m \in Int \ {Len(t) + 1}
    BY <1>1
  <2> QED BY <1>1, <1>2, <2>1
<1>4. Len(t) + 1 \in LettersOf(Append(t, c)) <=> Letter(c)
  BY <1>1, <1>2
<1>5. \A m : m \in 1..Len(t) + 1 <=> m \in 1..Len(t) \/ m = Len(t) + 1
  BY <1>1
<1>6. Len(t) + 1 \notin 1..Len(t)
  BY <1>1
<1> HIDE <1>1
<1> QED BY <1>2, <1>3, <1>4, <1>5, <1>6, Zenon

LEMMA RunIn ==
  ASSUME NEW n \in Nat, NEW L, NEW x
  PROVE  x \in RunsIn(n, L) <=>
           /\ x \in (1..n) \X (1..n)
           /\ x[1] <= x[2]
           /\ \A m \in x[1]..x[2] : m \in L
           /\ x[1] - 1 \notin L /\ x[2] + 1 \notin L
BY DEF RunsIn

(* No letter more, no run more                                             *)
LEMMA RunsWithoutLetter ==
  ASSUME NEW n \in Nat, NEW L \in SUBSET (1..n)
  PROVE  RunsIn(n + 1, L) = RunsIn(n, L)
<1>1. ASSUME NEW x \in RunsIn(n + 1, L) PROVE x \in RunsIn(n, L)
  <2>1. /\ x \in (1..n + 1) \X (1..n + 1) /\ x[1] <= x[2]
        /\ \A m \in x[1]..x[2] : m \in L
        /\ x[1] - 1 \notin L /\ x[2] + 1 \notin L
    BY RunIn
  <2>2. x[1] \in x[1]..x[2] /\ x[2] \in x[1]..x[2]
    BY <2>1
  <2>3. x[1] \in L /\ x[2] \in L
    BY <2>1, <2>2
  <2>4. x \in (1..n) \X (1..n)
    BY <2>1, <2>3
  <2> QED BY <2>1, <2>4, RunIn
<1>2. ASSUME NEW x \in RunsIn(n, L) PROVE x \in RunsIn(n + 1, L)
  <2>1. /\ x \in (1..n) \X (1..n) /\ x[1] <= x[2]
        /\ \A m \in x[1]..x[2] : m \in L
        /\ x[1] - 1 \notin L /\ x[2] + 1 \notin L
    BY RunIn
  <2>2. x \in (1..n + 1) \X (1..n + 1) /\ n + 1 \in Nat
    BY <2>1
  <2> QED BY <2>1, <2>2, RunIn
<1> QED BY <1>1, <1>2

(* The last letter makes the run that ended before it longer, or is a run  *)
(* of its own; a is where this run begins.                                 *)
LEMMA RunsWithLetter ==
  ASSUME NEW n \in Nat, NEW L \in SUBSET (1..n), NEW a \in 1..n + 1,
         \A m \in a..n : m \in L, a - 1 \notin L
  PROVE  RunsIn(n + 1, L \cup {n + 1}) =
           {x \in RunsIn(n, L) : x[2] # n} \cup {<<a, n + 1>>}
<1> DEFINE M == L \cup {n + 1}
<1>1. n + 1 \in Nat /\ n + 1 \notin L /\ n + 2 \notin L /\ 0 \notin L
  OBVIOUS
<1>2. <<a, n + 1>> \in RunsIn(n + 1, M)
  <2>1. PICK x : x = <<a, n + 1>>
    OBVIOUS
  <2>2. x \in (1..n + 1) \X (1..n + 1) /\ x[1] <= x[2] /\ x[1] = a /\ x[2] = n + 1
    BY <2>1
  <2>3. \A m \in x[1]..x[2] : m \in M
    <3>1. \A m \in a..n + 1 : m \in a..n \/ m = n + 1
      OBVIOUS
    <3> QED BY <2>2, <3>1
  <2>4. x[1] - 1 \notin M /\ x[2] + 1 \notin M
    BY <1>1, <2>2
  <2> HIDE DEF M
  <2> QED BY <1>1, <2>1, <2>2, <2>3, <2>4, RunIn
<1>3. ASSUME NEW x \in RunsIn(n, L), x[2] # n PROVE x \in RunsIn(n + 1, M)
  <2>1. /\ x \in (1..n) \X (1..n) /\ x[1] <= x[2]
        /\ \A m \in x[1]..x[2] : m \in L
        /\ x[1] - 1 \notin L /\ x[2] + 1 \notin L
    BY RunIn
  <2>2. x \in (1..n + 1) \X (1..n + 1) /\ x[2] + 1 # n + 1 /\ x[1] - 1 # n + 1
    BY <1>3, <2>1
  <2>3. (\A m \in x[1]..x[2] : m \in M) /\ x[1] - 1 \notin M /\ x[2] + 1 \notin M
    BY <2>1, <2>2
  <2> HIDE DEF M
  <2> QED BY <1>1, <2>1, <2>2, <2>3, RunIn
<1>4. ASSUME NEW x \in RunsIn(n + 1, M)
      PROVE  x = <<a, n + 1>> \/ (x \in RunsIn(n, L) /\ x[2] # n)
  <2>1. /\ x \in (1..n + 1) \X (1..n + 1) /\ x[1] <= x[2]
        /\ \A m \in x[1]..x[2] : m \in M
        /\ x[1] - 1 \notin M /\ x[2] + 1 \notin M
    <3> HIDE DEF M
    <3> QED BY <1>1, RunIn
  <2>2. CASE x[2] = n + 1
    <3>1. ~(x[1] < a)
      <4>1. x[1] < a => a - 1 \in x[1]..x[2] /\ a - 1 # n + 1
        BY <2>1, <2>2
      <4> QED BY <2>1, <4>1
    <3>2. ~(a < x[1])
      <4>1. a < x[1] => x[1] - 1 \in a..n
        BY <2>1, <2>2
      <4> QED BY <2>1, <4>1
    <3>3. x[1] = a
      BY <2>1, <3>1, <3>2
    <3> QED BY <2>1, <2>2, <3>3
  <2>3. CASE x[2] # n + 1
    <3>1. x[1] \in 1..n /\ x[2] \in 1..n /\ x \in (1..n) \X (1..n)
      BY <2>1, <2>3
    <3>2. x[2] # n
      BY <2>1
    <3>3. \A m \in x[1]..x[2] : m # n + 1
      BY <3>1
    <3>4. (\A m \in x[1]..x[2] : m \in L) /\ x[1] - 1 \notin L /\ x[2] + 1 \notin L
      BY <2>1, <3>3
    <3> QED BY <2>1, <3>1, <3>2, <3>4, RunIn
  <2> QED BY <2>2, <2>3
<1> HIDE DEF M
<1>5. RunsIn(n + 1, M) = {x \in RunsIn(n, L) : x[2] # n} \cup {<<a, n + 1>>}
  BY <1>2, <1>3, <1>4
<1> QED BY <1>5 DEF M

LEMMA RunEnds ==
  ASSUME NEW n \in Nat, NEW L \in SUBSET (1..n),
         NEW x \in RunsIn(n, L), NEW y \in RunsIn(n, L), x[2] = y[2]
  PROVE  x = y
<1>1. /\ x \in (1..n) \X (1..n) /\ x[1] <= x[2]
      /\ (\A m \in x[1]..x[2] : m \in L) /\ x[1] - 1 \notin L
  BY RunIn
<1>2. /\ y \in (1..n) \X (1..n) /\ y[1] <= y[2]
      /\ (\A m \in y[1]..y[2] : m \in L) /\ y[1] - 1 \notin L
  BY RunIn
<1>3. x[1] < y[1] => y[1] - 1 \in x[1]..x[2]
  BY <1>1, <1>2
<1>4. y[1] < x[1] => x[1] - 1 \in y[1]..y[2]
  BY <1>1, <1>2
<1>5. x[1] = y[1]
  BY <1>1, <1>2, <1>3, <1>4
<1> QED BY <1>1, <1>2, <1>5

LEMMA SpelledIs ==
  ASSUME NEW t \in CharSeqs, NEW a \in Int, NEW e \in Int, a >= 1, e =< Len(t), a =< e + 1
  PROVE  /\ I!Spelled(t, <<a, e>>) \in Seq(Nat)
         /\ Len(I!Spelled(t, <<a, e>>)) = e - a + 1
         /\ \A m \in 1..e - a + 1 : I!Spelled(t, <<a, e>>)[m] = I!LowerCase(t[a + m - 1])
<1>1. PICK w : w = I!Spelled(t, <<a, e>>)
  OBVIOUS
<1>2. w = [m \in 1..e - a + 1 |-> I!LowerCase(t[a + m - 1])]
  BY <1>1 DEF I!Spelled
<1>3. \A m \in 1..e - a + 1 : I!LowerCase(t[a + m - 1]) \in Nat
  <2>1. Len(t) \in Nat /\ \A m \in 1..Len(t) : t[m] \in Nat
    BY LenProperties, ElementOfSeq DEF CharSeqs
  <2>2. \A c \in Nat : I!LowerCase(c) \in Nat
    BY DEF I!LowerCase
  <2>3. \A m \in 1..e - a + 1 : a + m - 1 \in 1..Len(t)
    BY <2>1
  <2> QED BY <2>1, <2>2, <2>3
<1>4. e - a + 1 \in Nat
  OBVIOUS
<1>5. w \in [1..e - a + 1 -> Nat]
  BY <1>2, <1>3
<1>6. w \in Seq(Nat) /\ Len(w) = e - a + 1
  BY <1>4, <1>5
<1> QED BY <1>1, <1>2, <1>6

LEMMA SpelledNext ==
  ASSUME NEW t \in CharSeqs, NEW c \in Nat
  PROVE  /\ \A x \in I!Runs(t) : I!Spelled(Append(t, c), x) = I!Spelled(t, x)
         /\ \A a \in 1..Len(t) + 1 :
              I!Spelled(Append(t, c), <<a, Len(t) + 1>>)
                = Append(I!Spelled(t, <<a, Len(t)>>), I!LowerCase(c))
<1>1. /\ Len(t) \in Nat /\ Append(t, c) \in CharSeqs /\ Len(Append(t, c)) = Len(t) + 1
      /\ \A m \in 1..Len(t) : Append(t, c)[m] = t[m]
      /\ Append(t, c)[Len(t) + 1] = c
  BY LetterIs
<1>2. PICK u : u = Append(t, c)
  OBVIOUS
<1>3. ASSUME NEW x \in I!Runs(t) PROVE I!Spelled(u, x) = I!Spelled(t, x)
  <2>1. x \in (1..Len(t)) \X (1..Len(t))
    BY DEF I!Runs
  <2>2. \A m \in 1..x[2] - x[1] + 1 : x[1] + m - 1 \in 1..Len(t)
    BY <1>1, <2>1
  <2>3. \A m \in 1..x[2] - x[1] + 1 : I!LowerCase(u[x[1] + m - 1]) = I!LowerCase(t[x[1] + m - 1])
    BY <1>1, <1>2, <2>2
  <2> QED BY <2>3, Zenon DEF I!Spelled
<1>4. ASSUME NEW a \in 1..Len(t) + 1
      PROVE  I!Spelled(u, <<a, Len(t) + 1>>)
               = Append(I!Spelled(t, <<a, Len(t)>>), I!LowerCase(c))
  <2>1. PICK v : v = I!Spelled(u, <<a, Len(t) + 1>>)
    OBVIOUS
  <2>2. PICK w : w = I!Spelled(t, <<a, Len(t)>>)
    OBVIOUS
  <2>3. /\ v \in Seq(Nat) /\ Len(v) = Len(t) + 1 - a + 1
        /\ \A m \in 1..Len(t) + 1 - a + 1 : v[m] = I!LowerCase(u[a + m - 1])
    <3>1. PICK e \in Int : e = Len(t) + 1
      BY <1>1
    <3>2. u \in CharSeqs /\ a \in Int /\ a >= 1 /\ e =< Len(u) /\ a =< e + 1
      BY <1>1, <1>2, <3>1
    <3>3. v = I!Spelled(u, <<a, e>>)
      BY <2>1, <3>1
    <3>4. /\ v \in Seq(Nat) /\ Len(v) = e - a + 1
          /\ \A m \in 1..e - a + 1 : v[m] = I!LowerCase(u[a + m - 1])
      BY <3>2, <3>3, SpelledIs
    <3> QED BY <3>1, <3>4
  <2>4. /\ w \in Seq(Nat) /\ Len(w) = Len(t) - a + 1
        /\ \A m \in 1..Len(t) - a + 1 : w[m] = I!LowerCase(t[a + m - 1])
    <3>1. a \in Int /\ a >= 1 /\ Len(t) =< Len(t) /\ a =< Len(t) + 1 /\ Len(t) \in Int
      BY <1>1
    <3> QED BY <2>2, <3>1, SpelledIs
  <2>5. PICK l \in Nat : l = I!LowerCase(c)
    BY DEF I!LowerCase
  <2>6. PICK z : z = Append(w, l)
    OBVIOUS
  <2>7. /\ z \in Seq(Nat) /\ Len(z) = Len(w) + 1
        /\ z[Len(w) + 1] = l /\ \A m \in 1..Len(w) : z[m] = w[m]
    <3>1. w \in Seq(Nat) /\ Len(w) \in Nat
      BY <2>4, LenProperties
    <3>2. /\ Append(w, l) \in Seq(Nat) /\ Len(Append(w, l)) = Len(w) + 1
          /\ Append(w, l)[Len(w) + 1] = l
          /\ \A m \in 1..Len(w) : Append(w, l)[m] = w[m]
      BY <3>1
    <3> QED BY <2>6, <3>2
  <2>8. ASSUME NEW m \in 1..Len(v) PROVE v[m] = z[m]
    <3>1. CASE m = Len(w) + 1
      <4>1. a + m - 1 = Len(t) + 1
        BY <1>1, <2>4, <3>1
      <4> QED BY <1>1, <1>2, <2>3, <2>5, <2>7, <3>1, <4>1
    <3>2. CASE m # Len(w) + 1
      <4>1. m \in 1..Len(w) /\ a + m - 1 \in 1..Len(t)
        BY <1>1, <2>3, <2>4, <3>2
      <4>2. v[m] = I!LowerCase(u[a + m - 1]) /\ w[m] = I!LowerCase(t[a + m - 1])
        BY <2>3, <2>4, <4>1
      <4> QED BY <1>1, <1>2, <2>7, <4>1, <4>2
    <3> QED BY <3>1, <3>2
  <2>9. Len(v) = Len(z)
    BY <1>1, <2>3, <2>4, <2>7
  <2>10. v = z
    BY <2>3, <2>7, <2>8, <2>9, SeqEqual
  <2> QED BY <2>1, <2>2, <2>5, <2>6, <2>10
<1> QED BY <1>2, <1>3, <1>4

-----------------------------------------------------------------------------
(* The words of a text, in order: those with a letter are its runs, each   *)
(* of them once, and the others are at the ends.                           *)

Filled(words) == {x \in DOMAIN words : words[x] # << >>}

Matches(t, r) ==
  /\ r \in [Filled(WordList(t)) -> I!Runs(t)]
  /\ \A x, y \in Filled(WordList(t)) : r[x] = r[y] => x = y
  /\ \A z \in I!Runs(t) : \E x \in Filled(WordList(t)) : r[x] = z
  /\ \A x \in Filled(WordList(t)) : I!Spelled(t, r[x]) = WordList(t)[x]
  /\ I!LetterAt(t, Len(t)) => r[Len(WordList(t))][2] = Len(t)

EmptyWords(t) ==
  /\ \A x \in 1..Len(WordList(t)) - 1 :
       WordList(t)[x] = << >> <=> x = 1 /\ ~I!LetterAt(t, 1)
  /\ WordList(t)[Len(WordList(t))] = << >> <=> ~I!LetterAt(t, Len(t))
  /\ t # << >> /\ ~I!LetterAt(t, 1) => Len(WordList(t)) >= 2

LEMMA WordListType ==
  ASSUME NEW t \in CharSeqs
  PROVE  /\ WordList(t) \in Seq(CharSeqs) /\ Len(WordList(t)) \in Nat \ {0}
         /\ DOMAIN WordList(t) = 1..Len(WordList(t))
         /\ \A x \in 1..Len(WordList(t)) : WordList(t)[x] \in CharSeqs
<1>1. PICK w : w = WordList(t)
  OBVIOUS
<1>2. w \in Seq(CharSeqs) /\ w # << >>
  BY <1>1, WordListNext DEF WordLists
<1>3. /\ Len(w) \in Nat \ {0} /\ DOMAIN w = 1..Len(w)
      /\ \A x \in 1..Len(w) : w[x] \in CharSeqs
  BY <1>2, EmptySeq, LenProperties, ElementOfSeq
<1> QED BY <1>1, <1>2, <1>3

LEMMA MatchesEmpty == Matches(<< >>, << >>) /\ EmptyWords(<< >>)
<1>1. /\ << >> \in CharSeqs /\ Len(<< >>) = 0 /\ WordList(<< >>) = << << >> >>
      /\ DOMAIN << << >> >> = 1..1 /\ Len(<< << >> >>) = 1 /\ << << >> >>[1] = << >>
  BY EmptySeq, WordListNext DEF CharSeqs
<1>2. Filled(WordList(<< >>)) = {}
  BY <1>1 DEF Filled
<1>3. I!Runs(<< >>) = {}
  BY <1>1 DEF I!Runs
<1>4. ~I!LetterAt(<< >>, 0)
  BY <1>1, NoLetterAtZero
<1>5. << >> \in [{} -> {}]
  OBVIOUS
<1>6. EmptyWords(<< >>)
  <2>1. /\ 1..Len(WordList(<< >>)) - 1 = {}
        /\ WordList(<< >>)[Len(WordList(<< >>))] = << >>
    BY <1>1
  <2>2. ~I!LetterAt(<< >>, Len(<< >>))
    BY <1>1, <1>4
  <2> QED BY <2>1, <2>2, Zenon DEF EmptyWords
<1> QED BY <1>1, <1>2, <1>3, <1>4, <1>5, <1>6 DEF Matches

(* A character that is no letter                                           *)
LEMMA OtherCharacter ==
  ASSUME NEW t \in CharSeqs, NEW c \in Nat, ~Letter(c),
         NEW r, Matches(t, r), EmptyWords(t)
  PROVE  Matches(Append(t, c), r) /\ EmptyWords(Append(t, c))
<1>1. PICK u : u = Append(t, c)
  OBVIOUS
<1>2. PICK w : w = WordList(t)
  OBVIOUS
<1>3. PICK v : v = WordList(u)
  OBVIOUS
<1>4. /\ u \in CharSeqs /\ Len(t) \in Nat /\ Len(u) = Len(t) + 1
      /\ \A m \in Int \ {Len(t) + 1} : I!LetterAt(u, m) <=> I!LetterAt(t, m)
      /\ ~I!LetterAt(u, Len(u))
  BY <1>1, LetterIs
<1>5. /\ w \in Seq(CharSeqs) /\ Len(w) \in Nat \ {0} /\ DOMAIN w = 1..Len(w)
      /\ \A x \in 1..Len(w) : w[x] \in CharSeqs
  BY <1>2, WordListType
<1>a. Len(w) \in Nat \ {0}
  BY <1>5
<1>6. I!Runs(u) = I!Runs(t)
  <2>1. LettersOf(u) = LettersOf(t)
    BY <1>1, LettersOfNext
  <2>2. /\ LettersOf(t) \in SUBSET (1..Len(t)) /\ I!Runs(t) = RunsIn(Len(t), LettersOf(t))
        /\ I!Runs(u) = RunsIn(Len(u), LettersOf(u))
    BY <1>4, LettersOfIs
  <2> QED BY <1>4, <2>1, <2>2, RunsWithoutLetter
<1>7. v = IF t # << >> /\ ~I!LetterAt(t, Len(t)) THEN w ELSE Append(w, << >>)
  BY <1>1, <1>2, <1>3, WordListNext
<1>8. Append(w, << >>) \in Seq(CharSeqs) /\ Len(Append(w, << >>)) = Len(w) + 1
      /\ DOMAIN Append(w, << >>) = 1..Len(w) + 1
      /\ Append(w, << >>)[Len(w) + 1] = << >>
      /\ \A x \in 1..Len(w) : Append(w, << >>)[x] = w[x]
  BY <1>5 DEF CharSeqs
<1>9. /\ DOMAIN v = 1..Len(v) /\ Len(v) \in Nat
      /\ 1..Len(w) \subseteq 1..Len(v) /\ \A x \in 1..Len(w) : v[x] = w[x]
      /\ v = w \/ (Len(v) = Len(w) + 1 /\ v[Len(v)] = << >>)
  <2>1. CASE v = w
    BY <1>5, <2>1
  <2>2. CASE v = Append(w, << >>)
    <3>1. /\ Len(v) = Len(w) + 1 /\ DOMAIN v = 1..Len(w) + 1 /\ v[Len(w) + 1] = << >>
          /\ \A x \in 1..Len(w) : v[x] = w[x]
      BY <1>8, <2>2
    <3> QED BY <1>a, <3>1
  <2> QED BY <1>7, <2>1, <2>2
<1>10. Filled(v) = Filled(w)
  <2>1. \A x : x \in 1..Len(v) /\ v[x] # << >> <=> x \in 1..Len(w) /\ w[x] # << >>
    <3>1. CASE v = w
      BY <3>1
    <3>2. CASE Len(v) = Len(w) + 1 /\ v[Len(v)] = << >>
      <4>1. \A x : x \in 1..Len(v) <=> x \in 1..Len(w) \/ x = Len(v)
        BY <1>5, <3>2
      <4> QED BY <1>9, <3>2, <4>1
    <3> QED BY <1>9, <3>1, <3>2
  <2> QED BY <1>5, <1>9, <2>1 DEF Filled
<1>11. Matches(u, r)
  <2>1. /\ r \in [Filled(w) -> I!Runs(t)]
        /\ \A x, y \in Filled(w) : r[x] = r[y] => x = y
        /\ \A z \in I!Runs(t) : \E x \in Filled(w) : r[x] = z
        /\ \A x \in Filled(w) : I!Spelled(t, r[x]) = w[x]
    BY <1>2 DEF Matches
  <2>2. \A x \in Filled(w) : w[x] = v[x]
    BY <1>5, <1>9 DEF Filled
  <2>3. \A x \in Filled(w) : I!Spelled(u, r[x]) = v[x]
    <3>1. \A z \in I!Runs(t) : I!Spelled(u, z) = I!Spelled(t, z)
      BY <1>1, SpelledNext
    <3> QED BY <2>1, <2>2, <3>1
  <2> QED BY <1>3, <1>4, <1>6, <1>10, <2>1, <2>3 DEF Matches
<1>12. EmptyWords(u)
  <2>1. /\ \A x \in 1..Len(w) - 1 : w[x] = << >> <=> x = 1 /\ ~I!LetterAt(t, 1)
        /\ w[Len(w)] = << >> <=> ~I!LetterAt(t, Len(t))
        /\ t # << >> /\ ~I!LetterAt(t, 1) => Len(w) >= 2
    BY <1>2 DEF EmptyWords
  <2>2. CASE t # << >> /\ ~I!LetterAt(t, Len(t))
    <3>1. v = w
      BY <1>7, <2>2
    <3>2. Len(t) # 0
      BY <2>2, EmptySeq DEF CharSeqs
    <3>3. I!LetterAt(u, 1) <=> I!LetterAt(t, 1)
      BY <1>4, <3>2
    <3>4. w[Len(w)] = << >>
      BY <2>1, <2>2
    <3>5. WordList(u)[Len(WordList(u))] = << >> <=> ~I!LetterAt(u, Len(u))
      BY <1>3, <1>4, <3>1, <3>4
    <3>6. \A x \in 1..Len(v) - 1 : v[x] = << >> <=> x = 1 /\ ~I!LetterAt(u, 1)
      BY <2>1, <3>1, <3>3, Zenon
    <3>7. u # << >> /\ ~I!LetterAt(u, 1) => Len(v) >= 2
      BY <2>1, <2>2, <3>1, <3>3
    <3> QED BY <1>3, <3>5, <3>6, <3>7 DEF EmptyWords
  <2>3. CASE ~(t # << >> /\ ~I!LetterAt(t, Len(t)))
    <3>1. v = Append(w, << >>) /\ Len(v) = Len(w) + 1 /\ v[Len(v)] = << >>
      BY <1>7, <1>8, <2>3
    <3>2. v[Len(v)] = << >> <=> ~I!LetterAt(u, Len(u))
      BY <1>4, <3>1
    <3>3. u # << >> /\ ~I!LetterAt(u, 1) => Len(v) >= 2
      BY <1>5, <3>1
    <3>4. ASSUME NEW x \in 1..Len(v) - 1
          PROVE  v[x] = << >> <=> x = 1 /\ ~I!LetterAt(u, 1)
      <4>1. x \in 1..Len(w) /\ v[x] = w[x]
        <5>1. Len(v) - 1 = Len(w)
          BY <1>a, <3>1
        <5> QED BY <1>9, <5>1
      <4>2. CASE t = << >>
        <5>1. Len(w) = 1 /\ w[1] = << >> /\ Len(u) = 1
          BY <1>2, <1>4, <4>2, WordListNext
        <5>2. x = 1
          BY <4>1, <5>1
        <5>3. ~I!LetterAt(u, 1)
          BY <1>4, <5>1
        <5> QED BY <4>1, <5>1, <5>2, <5>3
      <4>3. CASE t # << >>
        <5>1. Len(t) # 0
          BY <4>3, EmptySeq DEF CharSeqs
        <5>2. I!LetterAt(u, 1) <=> I!LetterAt(t, 1)
          BY <1>4, <5>1
        <5>3. CASE x \in 1..Len(w) - 1
          <6>1. w[x] = << >> <=> x = 1 /\ ~I!LetterAt(t, 1)
            BY <2>1, <5>3
          <6> QED BY <4>1, <5>2, <6>1, Zenon
        <5>4. CASE x = Len(w)
          <6>1. w[x] # << >>
            BY <2>1, <2>3, <4>3, <5>4
          <6>2. ~(x = 1 /\ ~I!LetterAt(t, 1))
            BY <1>5, <2>1, <4>3, <5>4
          <6> QED BY <4>1, <5>2, <6>1, <6>2, Zenon
        <5>5. x \in 1..Len(w) - 1 \/ x = Len(w)
          BY <1>a, <4>1
        <5> QED BY <5>3, <5>4, <5>5
      <4> QED BY <4>2, <4>3
    <3> QED BY <1>3, <3>2, <3>3, <3>4, Zenon DEF EmptyWords
  <2> QED BY <2>2, <2>3
<1> QED BY <1>1, <1>11, <1>12

(* Where the run of letters begins that the next letter would belong to    *)
LastRun(t, r, a) ==
  /\ a \in 1..Len(t) + 1
  /\ \A m \in a..Len(t) : m \in LettersOf(t)
  /\ a - 1 \notin LettersOf(t)
  /\ WordList(t)[Len(WordList(t))] = I!Spelled(t, <<a, Len(t)>>)
  /\ \A x \in Filled(WordList(t)) \ {Len(WordList(t))} : r[x][2] # Len(t)
  /\ \A z \in I!Runs(t) : z[2] # Len(t) =>
       \E x \in Filled(WordList(t)) \ {Len(WordList(t))} : r[x] = z

LEMMA HasLastRun ==
  ASSUME NEW t \in CharSeqs, NEW r, Matches(t, r), EmptyWords(t)
  PROVE  \E a : LastRun(t, r, a)
<1>1. PICK w : w = WordList(t)
  OBVIOUS
<1>2. PICK n \in Nat : n = Len(t)
  BY LenProperties DEF CharSeqs
<1>3. PICK L \in SUBSET (1..n) :
        /\ L = LettersOf(t) /\ I!Runs(t) = RunsIn(n, L)
        /\ \A m : I!LetterAt(t, m) <=> m \in L
  BY <1>2, LettersOfIs
<1>4. /\ r \in [Filled(w) -> RunsIn(n, L)]
      /\ \A x, y \in Filled(w) : r[x] = r[y] => x = y
      /\ \A z \in RunsIn(n, L) : \E x \in Filled(w) : r[x] = z
      /\ \A x \in Filled(w) : I!Spelled(t, r[x]) = w[x]
      /\ n \in L => r[Len(w)][2] = n
  BY <1>1, <1>2, <1>3 DEF Matches
<1>5. w[Len(w)] = << >> <=> n \notin L
  BY <1>1, <1>2, <1>3 DEF EmptyWords
<1>6. Len(w) \in DOMAIN w
  BY <1>1, WordListType
<1>7. CASE n \in L
  <2>1. Len(w) \in Filled(w)
    BY <1>5, <1>6, <1>7 DEF Filled
  <2>2. PICK z \in RunsIn(n, L) : z = r[Len(w)]
    BY <1>4, <2>1
  <2>3. /\ z \in (1..n) \X (1..n) /\ z[1] <= z[2]
        /\ (\A m \in z[1]..z[2] : m \in L) /\ z[1] - 1 \notin L
    BY RunIn
  <2>4. z[2] = n /\ z = <<z[1], n>> /\ z[1] \in 1..n + 1
    BY <1>4, <1>7, <2>2, <2>3
  <2>5. w[Len(w)] = I!Spelled(t, <<z[1], n>>)
    BY <1>4, <2>1, <2>2, <2>4
  <2>6. ASSUME NEW x \in Filled(w) \ {Len(w)} PROVE r[x][2] # n
    <3>1. r[x] \in RunsIn(n, L) /\ r[x] # z
      BY <1>4, <2>1, <2>2
    <3> QED BY <2>4, <3>1, RunEnds
  <2>7. ASSUME NEW y \in RunsIn(n, L), y[2] # n
        PROVE  \E x \in Filled(w) \ {Len(w)} : r[x] = y
    BY <1>4, <2>2, <2>4, <2>7
  <2>8. PICK a : a = z[1]
    OBVIOUS
  <2>9. a \in 1..n + 1 /\ (\A m \in a..n : m \in L) /\ a - 1 \notin L
    BY <2>3, <2>4, <2>8
  <2>10. LastRun(t, r, a)
    BY <1>1, <1>2, <1>3, <2>5, <2>6, <2>7, <2>8, <2>9 DEF LastRun
  <2> QED BY <2>10
<1>8. CASE n \notin L
  <2>1. Len(w) \notin Filled(w)
    BY <1>5, <1>8 DEF Filled
  <2>2. w[Len(w)] = I!Spelled(t, <<n + 1, n>>)
    <3>1. n + 1 \in Int /\ n + 1 >= 1 /\ n =< Len(t) /\ n + 1 =< n + 1 /\ n \in Int
      BY <1>2
    <3>2. /\ I!Spelled(t, <<n + 1, n>>) \in Seq(Nat)
          /\ Len(I!Spelled(t, <<n + 1, n>>)) = n - (n + 1) + 1
      BY <3>1, SpelledIs
    <3>3. PICK e : e = I!Spelled(t, <<n + 1, n>>)
      OBVIOUS
    <3>4. e = << >>
      BY <3>2, <3>3, EmptySeq
    <3> QED BY <1>5, <1>8, <3>3, <3>4
  <2>3. ASSUME NEW z \in RunsIn(n, L) PROVE z[2] # n
    <3>1. /\ z \in (1..n) \X (1..n) /\ z[1] <= z[2]
          /\ \A m \in z[1]..z[2] : m \in L
      BY RunIn
    <3>2. z[2] \in z[1]..z[2]
      BY <3>1
    <3> QED BY <1>8, <3>1, <3>2
  <2>4. n + 1 \in 1..n + 1 /\ (\A m \in n + 1..n : m \in L) /\ n + 1 - 1 \notin L
    BY <1>8
  <2>5. \A x \in Filled(w) \ {Len(w)} : r[x][2] # n
    BY <1>4, <2>3
  <2>6. \A z \in RunsIn(n, L) : z[2] # n => \E x \in Filled(w) \ {Len(w)} : r[x] = z
    BY <1>4, <2>1
  <2>7. LastRun(t, r, n + 1)
    BY <1>1, <1>2, <1>3, <2>2, <2>4, <2>5, <2>6 DEF LastRun
  <2> QED BY <2>7
<1> QED BY <1>7, <1>8

LEMMA NextLetter ==
  ASSUME NEW t \in CharSeqs, NEW c \in Nat, Letter(c),
         NEW r, Matches(t, r), EmptyWords(t)
  PROVE  EmptyWords(Append(t, c)) /\ \E h : Matches(Append(t, c), h)
<1>1. PICK u : u = Append(t, c)
  OBVIOUS
<1>2. PICK w : w = WordList(t)
  OBVIOUS
<1>3. PICK v : v = WordList(u)
  OBVIOUS
<1>4. PICK n \in Nat : n = Len(t)
  BY LenProperties DEF CharSeqs
<1>5. /\ u \in CharSeqs /\ Len(u) = n + 1
      /\ \A m \in Int \ {n + 1} : I!LetterAt(u, m) <=> I!LetterAt(t, m)
      /\ I!LetterAt(u, n + 1)
  BY <1>1, <1>4, LetterIs
<1>6. PICK l \in Nat : l = I!LowerCase(c)
  BY DEF I!LowerCase
<1>7. PICK N \in Nat \ {0} :
        N = Len(w) /\ w \in Seq(CharSeqs) /\ DOMAIN w = 1..N /\ \A x \in 1..N : w[x] \in CharSeqs
  BY <1>2, WordListType
<1>8. PICK e \in CharSeqs : e = Append(w[N], l) /\ e # << >>
  <2>1. w[N] \in Seq(Nat) /\ Len(w[N]) \in Nat
    BY <1>7, LenProperties DEF CharSeqs
  <2>2. Append(w[N], l) \in Seq(Nat) /\ Len(Append(w[N], l)) = Len(w[N]) + 1
    BY <2>1
  <2>3. Len(<< >>) = 0 /\ Len(w[N]) + 1 # 0
    BY <2>1
  <2> QED BY <2>2, <2>3 DEF CharSeqs
<1>9. v = [w EXCEPT ![N] = e]
  BY <1>1, <1>2, <1>3, <1>6, <1>7, <1>8, WordListNext
<1>10. /\ DOMAIN v = 1..N /\ Len(v) = N
       /\ v[N] = e /\ \A x \in 1..N \ {N} : v[x] = w[x]
  <2>1. N \in 1..N
    BY <1>7
  <2>2. Len([w EXCEPT ![N] = e]) = N
    BY <1>7, <2>1, ExceptSeq
  <2> QED BY <1>7, <1>9, <2>1, <2>2
<1>11. EmptyWords(u)
  <2>1. /\ \A x \in 1..N - 1 : w[x] = << >> <=> x = 1 /\ ~I!LetterAt(t, 1)
        /\ t # << >> /\ ~I!LetterAt(t, 1) => N >= 2
    BY <1>2, <1>7 DEF EmptyWords
  <2>2. CASE t = << >>
    <3>1. N = 1 /\ n = 0
      BY <1>2, <1>4, <1>7, <2>2, WordListNext
    <3>2. I!LetterAt(u, 1) /\ 1..N - 1 = {}
      BY <1>5, <3>1
    <3>3. v[N] # << >> /\ I!LetterAt(u, Len(u))
      BY <1>5, <1>8, <1>10
    <3> QED BY <1>3, <1>10, <3>2, <3>3, Zenon DEF EmptyWords
  <2>3. CASE t # << >>
    <3>1. n # 0
      BY <1>4, <2>3, EmptySeq DEF CharSeqs
    <3>2. I!LetterAt(u, 1) <=> I!LetterAt(t, 1)
      BY <1>5, <3>1
    <3>3. v[N] # << >> /\ I!LetterAt(u, Len(u))
      BY <1>5, <1>8, <1>10
    <3>4. ASSUME NEW x \in 1..N - 1 PROVE v[x] = << >> <=> x = 1 /\ ~I!LetterAt(u, 1)
      <4>1. v[x] = w[x]
        BY <1>7, <1>10
      <4>2. w[x] = << >> <=> x = 1 /\ ~I!LetterAt(t, 1)
        BY <2>1
      <4> QED BY <3>2, <4>1, <4>2, Zenon
    <3>5. ~I!LetterAt(u, 1) => N >= 2
      BY <2>1, <2>3, <3>2
    <3> QED BY <1>3, <1>10, <3>3, <3>4, <3>5, Zenon DEF EmptyWords
  <2> QED BY <2>2, <2>3
<1>12. PICK a : LastRun(t, r, a)
  BY HasLastRun
<1>13. PICK L \in SUBSET (1..n) :
         /\ L = LettersOf(t) /\ I!Runs(t) = RunsIn(n, L)
         /\ I!Runs(u) = RunsIn(n + 1, L \cup {n + 1})
  <2>1. LettersOf(u) = LettersOf(t) \cup {n + 1}
    BY <1>1, <1>4, LettersOfNext
  <2>2. /\ LettersOf(t) \in SUBSET (1..n) /\ I!Runs(t) = RunsIn(n, LettersOf(t))
        /\ I!Runs(u) = RunsIn(n + 1, LettersOf(u))
    BY <1>4, <1>5, LettersOfIs
  <2> QED BY <2>1, <2>2
<1>14. /\ a \in 1..n + 1 /\ (\A m \in a..n : m \in L) /\ a - 1 \notin L
       /\ w[N] = I!Spelled(t, <<a, n>>)
       /\ \A x \in Filled(w) \ {N} : r[x][2] # n
       /\ \A z \in RunsIn(n, L) : z[2] # n => \E x \in Filled(w) \ {N} : r[x] = z
  BY <1>2, <1>4, <1>7, <1>12, <1>13 DEF LastRun
<1>15. PICK z : z = <<a, n + 1>>
  OBVIOUS
<1>16. /\ I!Runs(u) = {x \in RunsIn(n, L) : x[2] # n} \cup {z}
       /\ z \notin RunsIn(n, L) /\ z[2] = n + 1
  <2>1. I!Runs(u) = {x \in RunsIn(n, L) : x[2] # n} \cup {z}
    BY <1>13, <1>14, <1>15, RunsWithLetter
  <2>2. z[2] = n + 1
    BY <1>15
  <2>3. z \notin RunsIn(n, L)
    BY <2>2, RunIn
  <2> QED BY <2>1, <2>2, <2>3
<1>17. Filled(v) = Filled(w) \cup {N}
  BY <1>7, <1>8, <1>10 DEF Filled
<1>18. /\ r \in [Filled(w) -> RunsIn(n, L)]
       /\ \A x, y \in Filled(w) : r[x] = r[y] => x = y
       /\ \A x \in Filled(w) : I!Spelled(t, r[x]) = w[x]
  BY <1>2, <1>13 DEF Matches
<1>19. PICK h : h = [x \in Filled(v) |-> IF x = N THEN z ELSE r[x]]
  OBVIOUS
<1>20. /\ DOMAIN h = Filled(v) /\ h[N] = z
       /\ \A x \in Filled(w) \ {N} : h[x] = r[x] /\ h[x] \in RunsIn(n, L) /\ h[x][2] # n
  BY <1>14, <1>17, <1>18, <1>19
<1>21. h \in [Filled(v) -> I!Runs(u)]
  BY <1>16, <1>17, <1>19, <1>20
<1>22. \A x, y \in Filled(v) : h[x] = h[y] => x = y
  BY <1>16, <1>17, <1>18, <1>20
<1>23. \A y \in I!Runs(u) : \E x \in Filled(v) : h[x] = y
  BY <1>14, <1>16, <1>17, <1>20
<1>24. \A x \in Filled(v) : I!Spelled(u, h[x]) = v[x]
  <2>1. I!Spelled(u, z) = v[N]
    <3>1. I!Spelled(u, z) = Append(I!Spelled(t, <<a, n>>), l)
      BY <1>1, <1>4, <1>6, <1>14, <1>15, SpelledNext
    <3> QED BY <1>8, <1>10, <1>14, <3>1
  <2>2. ASSUME NEW x \in Filled(w) \ {N} PROVE I!Spelled(u, h[x]) = v[x]
    <3>1. \A y \in I!Runs(t) : I!Spelled(u, y) = I!Spelled(t, y)
      BY <1>1, SpelledNext
    <3>2. v[x] = w[x]
      BY <1>7, <1>10 DEF Filled
    <3> QED BY <1>13, <1>18, <1>20, <3>1, <3>2
  <2> QED BY <1>17, <1>20, <2>1, <2>2
<1>25. Matches(u, h)
  <2>1. h[Len(v)][2] = Len(u)
    BY <1>5, <1>10, <1>16, <1>20
  <2> QED BY <1>3, <1>21, <1>22, <1>23, <1>24, <2>1 DEF Matches
<1> QED BY <1>1, <1>11, <1>25

LEMMA WordListMatches ==
  ASSUME NEW t \in CharSeqs
  PROVE  EmptyWords(t) /\ \E r : Matches(t, r)
<1> DEFINE Q == {x \in CharSeqs : EmptyWords(x) /\ \E r : Matches(x, r)}
<1>1. << >> \in Q
  BY MatchesEmpty, EmptySeq DEF CharSeqs
<1>2. ASSUME NEW x \in Seq(Nat), NEW c \in Nat, x \in Q PROVE Append(x, c) \in Q
  <2>1. x \in CharSeqs /\ Append(x, c) \in CharSeqs
    BY DEF CharSeqs
  <2>2. PICK r : EmptyWords(x) /\ Matches(x, r)
    BY <1>2
  <2>3. EmptyWords(Append(x, c)) /\ \E h : Matches(Append(x, c), h)
    <3>1. CASE Letter(c)
      BY <2>1, <2>2, <3>1, NextLetter
    <3>2. CASE ~Letter(c)
      BY <2>1, <2>2, <3>2, OtherCharacter
    <3> QED BY <3>1, <3>2
  <2> QED BY <2>1, <2>3
<1>3. \A x \in Seq(Nat) : x \in Q
  <2> HIDE DEF Q
  <2> QED BY <1>1, <1>2, OneByOne
<1> QED BY <1>3 DEF CharSeqs

(* The words of a text are those that WordsOf says ...                     *)
LEMMA WordListIsWordsOf ==
  ASSUME NEW t \in CharSeqs
  PROVE  {WordList(t)[x] : x \in DOMAIN WordList(t)} = I!WordsOf(t)
<1>1. PICK w : w = WordList(t)
  OBVIOUS
<1>2. PICK N \in Nat \ {0} : N = Len(w) /\ DOMAIN w = 1..N
  BY <1>1, WordListType
<1>3. PICK r : Matches(t, r)
  BY WordListMatches
<1>4. /\ r \in [Filled(w) -> I!Runs(t)]
      /\ \A z \in I!Runs(t) : \E x \in Filled(w) : r[x] = z
      /\ \A x \in Filled(w) : I!Spelled(t, r[x]) = w[x]
  BY <1>1, <1>3 DEF Matches
<1>5. {I!Spelled(t, z) : z \in I!Runs(t)} = {w[x] : x \in Filled(w)}
  BY <1>4
<1>6. << >> \in {w[x] : x \in DOMAIN w} <=> ~(I!LetterAt(t, 1) /\ I!LetterAt(t, Len(t)))
  <2>1. /\ \A x \in 1..N - 1 : w[x] = << >> <=> x = 1 /\ ~I!LetterAt(t, 1)
        /\ w[N] = << >> <=> ~I!LetterAt(t, Len(t))
        /\ t # << >> /\ ~I!LetterAt(t, 1) => N >= 2
    BY <1>1, <1>2, WordListMatches DEF EmptyWords
  <2>2. CASE t = << >>
    <3>1. ~I!LetterAt(t, Len(t))
      BY <2>2, EmptySeq, NoLetterAtZero
    <3>2. N \in DOMAIN w /\ w[N] = << >>
      BY <1>2, <2>1, <3>1
    <3> QED BY <3>1, <3>2
  <2>3. CASE t # << >> /\ ~I!LetterAt(t, 1)
    <3>1. 1 \in 1..N - 1 /\ 1 \in DOMAIN w
      BY <1>2, <2>1, <2>3
    <3>2. w[1] = << >>
      BY <2>1, <2>3, <3>1
    <3> QED BY <2>3, <3>1, <3>2
  <2>4. CASE I!LetterAt(t, 1)
    <3>1. \A x \in 1..N - 1 : w[x] # << >>
      BY <2>1, <2>4
    <3>2. \A x \in DOMAIN w : x \in 1..N - 1 \/ x = N
      BY <1>2
    <3>3. N \in DOMAIN w
      BY <1>2
    <3> QED BY <2>1, <2>4, <3>1, <3>2, <3>3
  <2> QED BY <2>2, <2>3, <2>4
<1>7. {w[x] : x \in DOMAIN w} =
        {w[x] : x \in Filled(w)} \cup
        IF I!LetterAt(t, 1) /\ I!LetterAt(t, Len(t)) THEN {} ELSE {<< >>}
  BY <1>6 DEF Filled
<1> QED BY <1>1, <1>5, <1>7 DEF I!WordsOf

(* ... and a word that is not empty is in the list once for each place at  *)
(* which it stands.                                                        *)
RunsOf(t, word) == {run \in I!Runs(t) : I!Spelled(t, run) = word}

LEMMA AsManyAsRuns ==
  ASSUME NEW t \in CharSeqs, NEW word, word # << >>
  PROVE  /\ IsFiniteSet(RunsOf(t, word))
         /\ Cardinality(RunsOf(t, word)) =
              Cardinality({x \in DOMAIN WordList(t) : WordList(t)[x] = word})
<1>1. PICK w : w = WordList(t)
  OBVIOUS
<1>2. PICK N \in Nat : DOMAIN w = 1..N
  BY <1>1, WordListType
<1>3. PICK r : Matches(t, r)
  BY WordListMatches
<1>4. /\ r \in [Filled(w) -> I!Runs(t)]
      /\ \A x, y \in Filled(w) : r[x] = r[y] => x = y
      /\ \A z \in I!Runs(t) : \E x \in Filled(w) : r[x] = z
      /\ \A x \in Filled(w) : I!Spelled(t, r[x]) = w[x]
  BY <1>1, <1>3 DEF Matches
<1>5. PICK P : P = {x \in DOMAIN w : w[x] = word}
  OBVIOUS
<1>6. IsFiniteSet(P)
  <2>1. IsFiniteSet(1..N)
    BY FS_Interval
  <2> QED BY <1>2, <1>5, <2>1, FS_Subset
<1>7. P \subseteq Filled(w)
  BY <1>5 DEF Filled
<1>8. ExistsBijection(P, RunsOf(t, word))
  <2>1. PICK h : h = [x \in P |-> r[x]]
    OBVIOUS
  <2>2. h \in [P -> RunsOf(t, word)]
    BY <1>4, <1>5, <1>7, <2>1 DEF RunsOf
  <2>3. \A x, y \in P : h[x] = h[y] => x = y
    BY <1>4, <1>7, <2>1
  <2>4. \A z \in RunsOf(t, word) : \E x \in P : h[x] = z
    BY <1>4, <1>5, <1>7, <2>1 DEF RunsOf, Filled
  <2>5. h \in Bijection(P, RunsOf(t, word))
    BY <2>2, <2>3, <2>4 DEF Bijection, Injection, Surjection, IsInjective
  <2> QED BY <2>5 DEF ExistsBijection
<1> QED BY <1>1, <1>5, <1>6, <1>8, FS_Bijection

-----------------------------------------------------------------------------
(* addValues, pair by pair                                                 *)
Pairs(V)  == [key : CharSeqs, value : V]
Groups(V) == UNION {[K -> Seq(V)] : K \in SUBSET CharSeqs}
AddOp(V)  == [p \in Groups(V) \X Pairs(V) |-> I!AddValue(p[1], p[2])]

ValuesOf(groups, word) == IF word \in DOMAIN groups THEN groups[word] ELSE << >>

LEMMA ValuesType ==
  ASSUME NEW V, NEW g \in Groups(V), NEW word
  PROVE  ValuesOf(g, word) \in Seq(V) /\ DOMAIN g \in SUBSET CharSeqs
<1>1. PICK K \in SUBSET CharSeqs : g \in [K -> Seq(V)]
  BY DEF Groups
<1> QED BY <1>1, EmptySeq DEF ValuesOf

LEMMA AddValueDoes ==
  ASSUME NEW V, NEW g \in Groups(V), NEW p \in Pairs(V)
  PROVE  /\ I!AddValue(g, p) \in Groups(V)
         /\ DOMAIN I!AddValue(g, p) = DOMAIN g \cup {p.key}
         /\ ValuesOf(I!AddValue(g, p), p.key) = Append(ValuesOf(g, p.key), p.value)
         /\ \A word : word # p.key =>
              ValuesOf(I!AddValue(g, p), word) = ValuesOf(g, word)
<1>1. PICK K \in SUBSET CharSeqs : g \in [K -> Seq(V)]
  BY DEF Groups
<1>2. p.key \in CharSeqs /\ p.value \in V
  BY DEF Pairs
<1>3. ValuesOf(g, p.key) \in Seq(V)
  BY ValuesType
<1>4. PICK e \in Seq(V) : e = Append(ValuesOf(g, p.key), p.value)
  <2>1. PICK q \in Seq(V), y \in V : q = ValuesOf(g, p.key) /\ y = p.value
    BY <1>2, <1>3
  <2>2. Append(q, y) \in Seq(V)
    OBVIOUS
  <2> QED BY <2>1, <2>2, Zenon
<1>5. PICK h : h = I!AddValue(g, p)
  OBVIOUS
<1>6. h = [word \in K \cup {p.key} |-> IF word = p.key THEN e ELSE g[word]]
  BY <1>1, <1>4, <1>5 DEF I!AddValue, ValuesOf
<1>7. h \in [K \cup {p.key} -> Seq(V)]
  BY <1>1, <1>6
<1>8. K \cup {p.key} \in SUBSET CharSeqs
  BY <1>2
<1>9. h \in Groups(V)
  <2>1. [K \cup {p.key} -> Seq(V)] \in {[M -> Seq(V)] : M \in SUBSET CharSeqs}
    BY <1>8
  <2> QED BY <1>7, <2>1 DEF Groups
<1>10. DOMAIN h = DOMAIN g \cup {p.key}
  BY <1>1, <1>6
<1>11. ValuesOf(h, p.key) = e
  BY <1>6, <1>10 DEF ValuesOf
<1>12. \A word : word # p.key => ValuesOf(h, word) = ValuesOf(g, word)
  BY <1>1, <1>6, <1>10 DEF ValuesOf
<1> QED BY <1>4, <1>5, <1>9, <1>10, <1>11, <1>12

LEMMA AddOpType == ASSUME NEW V PROVE AddOp(V) \in [Groups(V) \X Pairs(V) -> Groups(V)]
BY AddValueDoes DEF AddOp

LEMMA AddFollows ==
  ASSUME NEW V, NEW base \in Groups(V), NEW t \in Seq(Pairs(V))
  PROVE  \E it : /\ Follows(it, Groups(V), AddOp(V), base, t)
                 /\ I!addValues(base, t) = it[1..Len(t)]
<1>1. Len(t) \in Nat /\ DOMAIN t = 1..Len(t) /\ \A m \in 1..Len(t) : t[m] \in Pairs(V)
  BY LenProperties, ElementOfSeq
<1>2. PICK g \in [SUBSET (DOMAIN t) -> Groups(V)] : Folds(g, AddOp(V), base, t)
  BY <1>1, AddOpType, FoldExists
<1>3. ASSUME NEW D \in SUBSET (DOMAIN t), D # {}
      PROVE  AddOp(V)[<<g[D \ {I!Max(D)}], t[I!Max(D)]>>]
               = I!AddValue(g[D \ {I!Max(D)}], t[I!Max(D)])
  <2>1. I!Max(D) \in 1..Len(t)
    BY <1>1, <1>3, MaxIsIn
  <2>2. g[D \ {I!Max(D)}] \in Groups(V) /\ t[I!Max(D)] \in Pairs(V)
    BY <1>1, <2>1
  <2> QED BY <2>2 DEF AddOp
<1>4. g = [D \in SUBSET (DOMAIN t) |->
             IF D = {} THEN base
             ELSE I!AddValue(g[D \ {I!Max(D)}], t[I!Max(D)])]
  BY <1>2, <1>3 DEF Folds
<1>5. PICK it : /\ it = [D \in SUBSET (DOMAIN t) |->
                           IF D = {} THEN base
                           ELSE I!AddValue(it[D \ {I!Max(D)}], t[I!Max(D)])]
                /\ I!addValues(base, t) = it[DOMAIN t]
  <2> HIDE <1>2, <1>3
  <2> QED BY <1>4 DEF I!addValues, I!FoldLeft, I!MapThenFoldSet
<1>6. it[{}] = base
  BY <1>5
<1>7. ASSUME NEW m \in 1..Len(t), it[1..m - 1] \in Groups(V)
      PROVE  it[1..m] = AddOp(V)[<<it[1..m - 1], t[m]>>]
  <2>1. I!Max(1..m) = m /\ (1..m) \ {I!Max(1..m)} = 1..m - 1 /\ 1..m # {}
    <3>1. m \in Nat \ {0}
      BY <1>1
    <3> QED BY <3>1, MaxUpTo
  <2>2. 1..m \in SUBSET (DOMAIN t) /\ t[m] \in Pairs(V)
    BY <1>1
  <2>3. it[1..m] = I!AddValue(it[1..m - 1], t[m])
    BY <1>5, <2>1, <2>2
  <2> QED BY <1>7, <2>2, <2>3 DEF AddOp
<1> QED BY <1>1, <1>5, <1>6, <1>7 DEF Follows

LEMMA AddNext ==
  ASSUME NEW V, NEW base \in Groups(V)
  PROVE  /\ I!addValues(base, << >>) = base
         /\ \A t \in Seq(Pairs(V)) :
              /\ I!addValues(base, t) \in Groups(V)
              /\ \A p \in Pairs(V) :
                   I!addValues(base, Append(t, p)) = I!AddValue(I!addValues(base, t), p)
<1> DEFINE R == [t \in Seq(Pairs(V)) |-> I!addValues(base, t)]
<1>1. LoopGives(R, Groups(V), Pairs(V), AddOp(V), base)
  BY AddFollows, AddOpType DEF LoopGives
<1>2. /\ R[<< >>] = base
      /\ \A t \in Seq(Pairs(V)) :
           R[t] \in Groups(V) /\ \A p \in Pairs(V) : R[Append(t, p)] = AddOp(V)[<<R[t], p>>]
  <2> HIDE DEF R
  <2> QED BY <1>1, LoopNext
<1>3. \A t \in Seq(Pairs(V)) : \A p \in Pairs(V) : Append(t, p) \in Seq(Pairs(V))
  OBVIOUS
<1>4. \A g \in Groups(V), p \in Pairs(V) : AddOp(V)[<<g, p>>] = I!AddValue(g, p)
  BY DEF AddOp
<1> QED BY <1>2, <1>3, <1>4, EmptySeq

(* The groups after some pairs: of each word, the values of its pairs were *)
(* added, one for each pair.                                               *)
PairsOf(t, word) == {x \in DOMAIN t : t[x].key = word}

Added(base, t, g) ==
  /\ DOMAIN g = DOMAIN base \cup {t[x].key : x \in DOMAIN t}
  /\ \A word :
       /\ I!ToSet(ValuesOf(g, word)) =
            I!ToSet(ValuesOf(base, word)) \cup {t[x].value : x \in PairsOf(t, word)}
       /\ Len(ValuesOf(g, word)) = Len(ValuesOf(base, word)) + Cardinality(PairsOf(t, word))

LEMMA PairsAreFinite ==
  ASSUME NEW V, NEW t \in Seq(Pairs(V)), NEW word
  PROVE  /\ IsFiniteSet(PairsOf(t, word)) /\ PairsOf(t, word) \subseteq 1..Len(t)
         /\ Cardinality(PairsOf(t, word)) \in Nat
<1>1. Len(t) \in Nat /\ DOMAIN t = 1..Len(t)
  BY LenProperties
<1>2. IsFiniteSet(1..Len(t))
  BY <1>1, FS_Interval
<1>3. PairsOf(t, word) \subseteq 1..Len(t)
  BY <1>1 DEF PairsOf
<1> QED BY <1>2, <1>3, FS_Subset, FS_CardinalityType

LEMMA ElementsOfAppend ==
  ASSUME NEW V, NEW q \in Seq(V), NEW e \in V
  PROVE  I!ToSet(Append(q, e)) = I!ToSet(q) \cup {e} /\ Len(Append(q, e)) = Len(q) + 1
<1>1. PICK u : u = Append(q, e)
  OBVIOUS
<1>2. /\ Len(q) \in Nat /\ DOMAIN q = 1..Len(q)
      /\ DOMAIN u = 1..Len(q) + 1 /\ u[Len(q) + 1] = e /\ Len(u) = Len(q) + 1
      /\ \A m \in 1..Len(q) : u[m] = q[m]
  BY <1>1
<1>3. \A m : m \in 1..Len(q) + 1 <=> m \in 1..Len(q) \/ m = Len(q) + 1
  BY <1>2
<1>4. I!ToSet(u) = I!ToSet(q) \cup {e}
  BY <1>2, <1>3 DEF I!ToSet
<1> QED BY <1>1, <1>2, <1>4

LEMMA AddValuesDoes ==
  ASSUME NEW V, NEW base \in Groups(V), NEW t \in Seq(Pairs(V))
  PROVE  I!addValues(base, t) \in Groups(V) /\ Added(base, t, I!addValues(base, t))
<1> DEFINE Q == {x \in Seq(Pairs(V)) : Added(base, x, I!addValues(base, x))}
<1>1. << >> \in Q
  <2>1. PICK z : z = << >>
    OBVIOUS
  <2>2. z \in Seq(Pairs(V)) /\ DOMAIN z = {}
    BY <2>1, EmptySeq
  <2>3. I!addValues(base, z) = base
    BY <2>1, AddNext
  <2>4. \A word : Len(ValuesOf(base, word)) \in Nat
    BY ValuesType, LenProperties
  <2>5. \A word : PairsOf(z, word) = {} /\ {z[x].value : x \in PairsOf(z, word)} = {}
    BY <2>2 DEF PairsOf
  <2>6. {z[x].key : x \in DOMAIN z} = {} /\ Cardinality({}) = 0
    BY <2>2, FS_EmptySet
  <2>7. \A word : /\ I!ToSet(ValuesOf(base, word)) = I!ToSet(ValuesOf(base, word)) \cup {}
                  /\ Len(ValuesOf(base, word)) = Len(ValuesOf(base, word)) + 0
    BY <2>4
  <2>8. Added(base, z, base)
    <3> HIDE DEF Q
    <3> QED BY <2>5, <2>6, <2>7 DEF Added
  <2> QED BY <2>1, <2>2, <2>3, <2>8
<1>2. ASSUME NEW q \in Seq(Pairs(V)), NEW p \in Pairs(V), q \in Q PROVE Append(q, p) \in Q
  <2>1. PICK u : u = Append(q, p)
    OBVIOUS
  <2>2. /\ u \in Seq(Pairs(V)) /\ Len(q) \in Nat /\ DOMAIN q = 1..Len(q)
        /\ DOMAIN u = 1..Len(q) + 1 /\ u[Len(q) + 1] = p
        /\ \A m \in 1..Len(q) : u[m] = q[m]
    BY <2>1
  <2>3. PICK g : g = I!addValues(base, q)
    OBVIOUS
  <2>4. PICK h : h = I!AddValue(g, p)
    OBVIOUS
  <2>5. g \in Groups(V) /\ I!addValues(base, u) = h
    BY <2>1, <2>3, <2>4, AddNext
  <2>6. Added(base, q, g)
    BY <1>2, <2>3
  <2>7. /\ DOMAIN h = DOMAIN g \cup {p.key}
        /\ ValuesOf(h, p.key) = Append(ValuesOf(g, p.key), p.value)
        /\ \A word : word # p.key => ValuesOf(h, word) = ValuesOf(g, word)
    <3>1. g \in Groups(V)
      BY <2>5
    <3> HIDE DEF Q
    <3> QED BY <2>4, <3>1, AddValueDoes, Zenon
  <2>8. \A m : m \in 1..Len(q) + 1 <=> m \in 1..Len(q) \/ m = Len(q) + 1
    BY <2>2
  <2>9. \A word : PairsOf(u, word) =
                    IF word = p.key THEN PairsOf(q, word) \cup {Len(q) + 1}
                    ELSE PairsOf(q, word)
    BY <2>2, <2>8 DEF PairsOf
  <2>10. DOMAIN h = DOMAIN base \cup {u[x].key : x \in DOMAIN u}
    <3>1. {u[x].key : x \in DOMAIN u} = {q[x].key : x \in DOMAIN q} \cup {p.key}
      BY <2>2, <2>8
    <3> QED BY <2>6, <2>7, <3>1 DEF Added
  <2>11. ASSUME NEW word
         PROVE  /\ I!ToSet(ValuesOf(h, word)) =
                     I!ToSet(ValuesOf(base, word)) \cup {u[x].value : x \in PairsOf(u, word)}
                /\ Len(ValuesOf(h, word)) =
                     Len(ValuesOf(base, word)) + Cardinality(PairsOf(u, word))
    <3>1. /\ I!ToSet(ValuesOf(g, word)) =
               I!ToSet(ValuesOf(base, word)) \cup {q[x].value : x \in PairsOf(q, word)}
          /\ Len(ValuesOf(g, word)) =
               Len(ValuesOf(base, word)) + Cardinality(PairsOf(q, word))
      BY <2>6 DEF Added
    <3>2. \A x \in PairsOf(q, word) : x \in 1..Len(q) /\ u[x] = q[x]
      BY <2>2 DEF PairsOf
    <3>3. CASE word # p.key
      <4>1. ValuesOf(h, word) = ValuesOf(g, word) /\ PairsOf(u, word) = PairsOf(q, word)
        BY <2>7, <2>9, <3>3
      <4>2. {u[x].value : x \in PairsOf(q, word)} = {q[x].value : x \in PairsOf(q, word)}
        BY <3>2
      <4> QED BY <3>1, <4>1, <4>2
    <3>4. CASE word = p.key
      <4>1. ValuesOf(g, word) \in Seq(V) /\ p.value \in V
        BY <2>5, ValuesType DEF Pairs
      <4>2. /\ I!ToSet(ValuesOf(h, word)) = I!ToSet(ValuesOf(g, word)) \cup {p.value}
            /\ Len(ValuesOf(h, word)) = Len(ValuesOf(g, word)) + 1
        <5>1. PICK y \in Seq(V), e \in V : y = ValuesOf(g, word) /\ e = p.value
          BY <4>1
        <5>2. I!ToSet(Append(y, e)) = I!ToSet(y) \cup {e} /\ Len(Append(y, e)) = Len(y) + 1
          BY ElementsOfAppend
        <5>3. ValuesOf(h, word) = Append(y, e)
          BY <2>7, <3>4, <5>1
        <5> QED BY <5>1, <5>2, <5>3
      <4>3. PairsOf(u, word) = PairsOf(q, word) \cup {Len(q) + 1}
        BY <2>9, <3>4
      <4>4. {u[x].value : x \in PairsOf(u, word)} =
              {q[x].value : x \in PairsOf(q, word)} \cup {p.value}
        BY <2>2, <3>2, <4>3
      <4>5. /\ IsFiniteSet(PairsOf(q, word)) /\ PairsOf(q, word) \subseteq 1..Len(q)
            /\ Cardinality(PairsOf(q, word)) \in Nat
        BY PairsAreFinite
      <4>6. Len(q) + 1 \notin PairsOf(q, word)
        BY <2>2, <4>5
      <4>7. Cardinality(PairsOf(u, word)) = Cardinality(PairsOf(q, word)) + 1
        BY <4>3, <4>5, <4>6, FS_AddElement
      <4>8. Len(ValuesOf(base, word)) \in Nat
        BY ValuesType, LenProperties
      <4>9. Len(ValuesOf(h, word)) =
              Len(ValuesOf(base, word)) + Cardinality(PairsOf(u, word))
        BY <3>1, <4>2, <4>5, <4>7, <4>8
      <4>10. I!ToSet(ValuesOf(h, word)) =
               I!ToSet(ValuesOf(base, word)) \cup {u[x].value : x \in PairsOf(u, word)}
        <5> HIDE DEF Q
        <5> QED BY <3>1, <4>2, <4>4
      <4> QED BY <4>9, <4>10
    <3> QED BY <3>3, <3>4
  <2>12. Added(base, u, h)
    BY <2>10, <2>11 DEF Added
  <2> QED BY <2>1, <2>2, <2>5, <2>12
<1>3. \A x \in Seq(Pairs(V)) : x \in Q
  <2> HIDE DEF Q
  <2> QED BY <1>1, <1>2, OneByOne
<1>4. I!addValues(base, t) \in Groups(V)
  BY AddNext
<1> QED BY <1>3, <1>4

-----------------------------------------------------------------------------
(* The reverse index.                                                      *)

Names == {problem[f].key : f \in DOMAIN problem}
Read  == DOMAIN problem \ unread

StandsAt(files, word) ==
  UNION {{f} \X RunsOf(problem[f].value, word) : f \in files}

IndexTypes ==
  /\ problem \in Problems
  /\ unread \subseteq DOMAIN problem
  /\ groupBy \in Groups(Names)

(* GroupsAreOfTheTexts, for words without a group as well                  *)
GroupsSoFar ==
  /\ DOMAIN groupBy = UNION {I!WordsOf(problem[f].value) : f \in Read}
  /\ \A word :
       /\ I!ToSet(ValuesOf(groupBy, word)) = I!NamesOf(I!Having(word, Read))
       /\ word # << >> =>
            /\ IsFiniteSet(StandsAt(Read, word))
            /\ Len(ValuesOf(groupBy, word)) = Cardinality(StandsAt(Read, word))

(* Nothing is reduced before every text is read; an entry has the names of *)
(* its group, each once, but for Proto.                                    *)
ResultsSoFar ==
  \A r \in results :
    /\ unread = {}
    /\ r.key \in DOMAIN groupBy
    /\ I!ToSet(r.value) = I!ToSet(groupBy[r.key]) \ {Proto}
    /\ Cardinality(I!ToSet(r.value)) = Len(r.value)

IndexInv == IndexTypes /\ GroupsSoFar /\ ResultsSoFar

LEMMA FilesAre ==
  ASSUME IndexTypes, NEW f \in DOMAIN problem
  PROVE  problem[f].value \in CharSeqs /\ problem[f].key \in Names
<1>1. PICK t \in Seq(I!Characters) : t = problem[f].value
  BY IndexAssumption DEF IndexTypes, I!IndexerAssumption
<1>2. I!Characters \subseteq Nat
  BY DEF I!Characters
<1>3. t \in CharSeqs
  <2>1. Len(t) \in Nat /\ t \in [1..Len(t) -> I!Characters]
    BY LenProperties
  <2>2. t \in [1..Len(t) -> Nat]
    BY <1>2, <2>1
  <2> QED BY <2>1, <2>2, SeqDef DEF CharSeqs
<1> QED BY <1>1, <1>3 DEF Names

LEMMA IndexInitInv == I!Init => IndexInv
<1> SUFFICES ASSUME I!Init PROVE IndexInv
  OBVIOUS
<1>1. /\ problem \in Problems /\ unread = DOMAIN problem /\ groupBy = << >> /\ results = {}
  BY DEF I!Init
<1>2. DOMAIN groupBy = {} /\ groupBy \in [{} -> Seq(Names)]
  BY <1>1
<1>3. groupBy \in Groups(Names)
  <2>1. [{} -> Seq(Names)] \in {[K -> Seq(Names)] : K \in SUBSET CharSeqs}
    OBVIOUS
  <2> QED BY <1>2, <2>1 DEF Groups
<1>4. Read = {}
  BY <1>1 DEF Read
<1>5. \A word : ValuesOf(groupBy, word) = << >>
  BY <1>2 DEF ValuesOf
<1>6. I!ToSet(<< >>) = {} /\ Len(<< >>) = 0
  BY DEF I!ToSet
<1>7. IsFiniteSet({}) /\ Cardinality({}) = 0
  BY FS_EmptySet
<1>8. \A word : StandsAt({}, word) = {} /\ I!NamesOf(I!Having(word, {})) = {}
  BY DEF StandsAt, I!NamesOf, I!Having
<1>9. GroupsSoFar
  BY <1>2, <1>4, <1>5, <1>6, <1>7, <1>8 DEF GroupsSoFar
<1> QED BY <1>1, <1>3, <1>9 DEF IndexInv, IndexTypes, ResultsSoFar

(* What the answer to the map task of a file brings                        *)
Answer(m, V, name, t) ==
  /\ m \in Seq(Pairs(V))
  /\ {m[x].key : x \in DOMAIN m} = I!WordsOf(t)
  /\ \A word :
       /\ {m[x].value : x \in PairsOf(m, word)} =
            IF word \in I!WordsOf(t) THEN {name} ELSE {}
       /\ word # << >> =>
            /\ IsFiniteSet(RunsOf(t, word))
            /\ Cardinality(PairsOf(m, word)) = Cardinality(RunsOf(t, word))

LEMMA MapGives ==
  ASSUME NEW V, NEW name \in V, NEW t \in CharSeqs
  PROVE  Answer(I!map(name, t), V, name, t)
<1>1. PICK w : w = WordList(t)
  OBVIOUS
<1>2. PICK N \in Nat : DOMAIN w = 1..N /\ \A x \in 1..N : w[x] \in CharSeqs
  BY <1>1, WordListType
<1>3. PICK m : m = I!map(name, t)
  OBVIOUS
<1>4. m = [x \in 1..N |-> [key |-> w[x], value |-> name]]
  BY <1>1, <1>2, <1>3 DEF I!map, WordList
<1>5. m \in [1..N -> Pairs(V)]
  BY <1>2, <1>4 DEF Pairs
<1>6. m \in Seq(Pairs(V))
  BY <1>5
<1>7. DOMAIN m = 1..N /\ \A x \in 1..N : m[x].key = w[x] /\ m[x].value = name
  BY <1>4
<1>8. {w[x] : x \in 1..N} = I!WordsOf(t)
  BY <1>1, <1>2, WordListIsWordsOf
<1>9. {m[x].key : x \in DOMAIN m} = I!WordsOf(t)
  BY <1>7, <1>8
<1>10. ASSUME NEW word
       PROVE  /\ {m[x].value : x \in PairsOf(m, word)} =
                   IF word \in I!WordsOf(t) THEN {name} ELSE {}
              /\ word # << >> =>
                   /\ IsFiniteSet(RunsOf(t, word))
                   /\ Cardinality(PairsOf(m, word)) = Cardinality(RunsOf(t, word))
  <2>1. PairsOf(m, word) = {x \in DOMAIN w : w[x] = word}
    BY <1>2, <1>7 DEF PairsOf
  <2>2. PairsOf(m, word) \subseteq 1..N
    BY <1>2, <2>1
  <2>3. {m[x].value : x \in PairsOf(m, word)} = IF PairsOf(m, word) = {} THEN {} ELSE {name}
    BY <1>7, <2>2
  <2>4. word \in I!WordsOf(t) <=> PairsOf(m, word) # {}
    BY <1>2, <1>8, <2>1
  <2>5. word # << >> =>
          /\ IsFiniteSet(RunsOf(t, word))
          /\ Cardinality(PairsOf(m, word)) = Cardinality(RunsOf(t, word))
    BY <1>1, <2>1, AsManyAsRuns
  <2> QED BY <2>3, <2>4, <2>5
<1>11. Answer(m, V, name, t)
  BY <1>6, <1>9, <1>10, Zenon DEF Answer
<1> QED BY <1>3, <1>11

(* What Indexer takes from FiniteSets is what the theorems are about.       *)
LEMMA SameCardinality == \A E : I!Cardinality(E) = Cardinality(E)
BY DEF I!Cardinality, Cardinality

LEMMA SameFinite == \A E : I!IsFiniteSet(E) <=> IsFiniteSet(E)
BY DEF I!IsFiniteSet, IsFiniteSet

(* reduce lists each name once.                                            *)
LEMMA ListIsOfSet ==
  ASSUME NEW E, IsFiniteSet(E), NEW files \in I!SetToSeqs(E)
  PROVE  I!ToSet(files) = E /\ Len(files) = Cardinality(E)
<1>1. PICK n \in Nat : n = Cardinality(E)
  BY FS_CardinalityType
<1>2. files \in [1..n -> E] /\ \A x, y \in 1..n : x # y => files[x] # files[y]
  BY <1>1, SameCardinality DEF I!SetToSeqs
<1>3. files \in Injection(1..n, E)
  BY <1>2 DEF Injection, IsInjective
<1>4. Cardinality(1..n) = n
  BY FS_Interval
<1>5. files \in Surjection(1..n, E)
  BY <1>1, <1>3, <1>4, FS_Injection
<1>6. \A e \in E : \E x \in 1..n : files[x] = e
  BY <1>5 DEF Surjection
<1>7. I!ToSet(files) = E
  BY <1>2, <1>6 DEF I!ToSet
<1>8. Len(files) = n
  BY <1>1, <1>2
<1> QED BY <1>1, <1>7, <1>8

LEMMA ElementsAreFinite ==
  ASSUME NEW V, NEW q \in Seq(V)
  PROVE  IsFiniteSet(I!ToSet(q))
<1>1. Len(q) \in Nat /\ q \in [1..Len(q) -> V] /\ DOMAIN q = 1..Len(q)
  BY LenProperties
<1>2. PICK n \in Nat : n = Len(q)
  BY <1>1
<1>3. q \in Surjection(1..n, I!ToSet(q))
  BY <1>1, <1>2 DEF Surjection, I!ToSet
<1>4. IsFiniteSet(1..n)
  BY FS_Interval
<1> QED BY <1>3, <1>4, FS_Surjection

(* The answer of file f adds f to the files that are read.                 *)
LEMMA MapFileKeeps ==
  ASSUME IndexInv, NEW f \in unread, I!MapFile(f)
  PROVE  IndexInv'
<1>1. /\ IndexTypes /\ GroupsSoFar /\ ResultsSoFar
      /\ problem \in Problems /\ unread \subseteq DOMAIN problem /\ groupBy \in Groups(Names)
  BY DEF IndexInv, IndexTypes
<1>2. f \in DOMAIN problem /\ f \notin Read
  BY <1>1 DEF Read
<1>3. PICK t \in CharSeqs, name \in Names : t = problem[f].value /\ name = problem[f].key
  BY <1>1, <1>2, FilesAre
<1>4. PICK m : m = I!map(name, t)
  OBVIOUS
<1>5. Answer(m, Names, name, t)
  BY <1>3, <1>4, MapGives
<1>6. PICK g : g = I!addValues(groupBy, m)
  OBVIOUS
<1>7. /\ groupBy' = g /\ unread' = unread \ {f} /\ problem' = problem /\ results' = results
  BY <1>3, <1>4, <1>6 DEF I!MapFile
<1>8. m \in Seq(Pairs(Names))
  BY <1>5 DEF Answer
<1>9. g \in Groups(Names) /\ Added(groupBy, m, g)
  BY <1>1, <1>6, <1>8, AddValuesDoes
<1>10. Read' = Read \cup {f} /\ Names' = Names
  BY <1>1, <1>2, <1>7 DEF Read, Names
<1>11. IndexTypes'
  <2>1. Groups(Names)' = Groups(Names)
    BY <1>10 DEF Groups
  <2> QED BY <1>1, <1>7, <1>9, <2>1 DEF IndexTypes
<1>12. ResultsSoFar'
  BY <1>1, <1>7 DEF ResultsSoFar
<1>13. DOMAIN g = UNION {I!WordsOf(problem[x].value) : x \in Read \cup {f}}
  <2>1. DOMAIN g = DOMAIN groupBy \cup I!WordsOf(problem[f].value)
    BY <1>3, <1>5, <1>9 DEF Added, Answer
  <2>2. DOMAIN groupBy = UNION {I!WordsOf(problem[x].value) : x \in Read}
    BY <1>1 DEF GroupsSoFar
  <2> QED BY <2>1, <2>2
<1>14. ASSUME NEW word
       PROVE  I!ToSet(ValuesOf(g, word)) = I!NamesOf(I!Having(word, Read \cup {f}))
  <2>1. I!ToSet(ValuesOf(g, word)) =
          I!ToSet(ValuesOf(groupBy, word)) \cup {m[x].value : x \in PairsOf(m, word)}
    BY <1>9 DEF Added
  <2>2. {m[x].value : x \in PairsOf(m, word)} = IF word \in I!WordsOf(t) THEN {name} ELSE {}
    BY <1>5 DEF Answer
  <2>3. I!ToSet(ValuesOf(groupBy, word)) = I!NamesOf(I!Having(word, Read))
    BY <1>1 DEF GroupsSoFar
  <2>4. I!Having(word, Read \cup {f}) =
          I!Having(word, Read) \cup (IF word \in I!WordsOf(t) THEN {f} ELSE {})
    BY <1>3 DEF I!Having
  <2>5. I!NamesOf(I!Having(word, Read \cup {f})) =
          I!NamesOf(I!Having(word, Read)) \cup (IF word \in I!WordsOf(t) THEN {name} ELSE {})
    BY <1>3, <2>4 DEF I!NamesOf
  <2> QED BY <2>1, <2>2, <2>3, <2>5
<1>15. ASSUME NEW word, word # << >>
       PROVE  /\ IsFiniteSet(StandsAt(Read \cup {f}, word))
              /\ Len(ValuesOf(g, word)) = Cardinality(StandsAt(Read \cup {f}, word))
  <2>1. PICK A : A = StandsAt(Read, word)
    OBVIOUS
  <2>2. PICK R : R = RunsOf(t, word)
    OBVIOUS
  <2>3. PICK F : F = {f} \X R
    OBVIOUS
  <2>4. IsFiniteSet(A) /\ Len(ValuesOf(groupBy, word)) = Cardinality(A)
    BY <1>1, <1>15, <2>1 DEF GroupsSoFar
  <2>5. IsFiniteSet(R) /\ Cardinality(PairsOf(m, word)) = Cardinality(R)
    BY <1>5, <1>15, <2>2 DEF Answer
  <2>6. Cardinality(A) \in Nat /\ Cardinality(R) \in Nat
    BY <2>4, <2>5, FS_CardinalityType
  <2>7. IsFiniteSet(F) /\ Cardinality(F) = Cardinality(R)
    <3>1. IsFiniteSet({f}) /\ Cardinality({f}) = 1
      BY FS_Singleton
    <3>2. IsFiniteSet(F) /\ Cardinality(F) = 1 * Cardinality(R)
      BY <2>3, <2>5, <3>1, FS_Product
    <3> QED BY <2>6, <3>2
  <2>8. A \cap F = {}
    BY <1>2, <2>1, <2>3 DEF StandsAt
  <2>9. StandsAt(Read \cup {f}, word) = A \cup F
    BY <1>3, <2>1, <2>2, <2>3 DEF StandsAt
  <2>10. IsFiniteSet(A \cup F) /\ Cardinality(A \cup F) = Cardinality(A) + Cardinality(R)
    <3>1. Cardinality({}) = 0
      BY FS_EmptySet
    <3>2. /\ IsFiniteSet(A \cup F)
          /\ Cardinality(A \cup F) = Cardinality(A) + Cardinality(F) - Cardinality(A \cap F)
      BY <2>4, <2>7, FS_Union
    <3>3. PICK a \in Nat, b \in Nat : a = Cardinality(A) /\ b = Cardinality(R)
      BY <2>6
    <3>4. Cardinality(A \cap F) = 0
      BY <2>8, <3>1
    <3>5. Cardinality(A \cup F) = a + b - 0
      BY <2>7, <3>2, <3>3, <3>4
    <3> QED BY <3>2, <3>3, <3>5
  <2>11. Len(ValuesOf(g, word)) =
           Len(ValuesOf(groupBy, word)) + Cardinality(PairsOf(m, word))
    BY <1>9 DEF Added
  <2> QED BY <2>4, <2>5, <2>9, <2>10, <2>11
<1>16. GroupsSoFar'
  <2>1. /\ DOMAIN groupBy' = UNION {I!WordsOf(problem'[x].value) : x \in Read'}
    BY <1>7, <1>10, <1>13
  <2>2. ASSUME NEW word
        PROVE  /\ I!Having(word, Read)' = I!Having(word, Read \cup {f})
               /\ I!NamesOf(I!Having(word, Read))' = I!NamesOf(I!Having(word, Read \cup {f}))
               /\ StandsAt(Read, word)' = StandsAt(Read \cup {f}, word)
    BY <1>7, <1>10 DEF I!Having, I!NamesOf, StandsAt
  <2>3. ASSUME NEW word
        PROVE  /\ I!ToSet(ValuesOf(groupBy', word)) = I!NamesOf(I!Having(word, Read))'
               /\ word # << >> =>
                    /\ IsFiniteSet(StandsAt(Read, word)')
                    /\ Len(ValuesOf(groupBy', word)) = Cardinality(StandsAt(Read, word)')
    BY <1>7, <1>14, <1>15, <2>2
  <2> QED BY <2>1, <2>3 DEF GroupsSoFar
<1> QED BY <1>11, <1>12, <1>16 DEF IndexInv

LEMMA GroupsStay ==
  ASSUME GroupsSoFar, problem' = problem, unread' = unread, groupBy' = groupBy
  PROVE  GroupsSoFar'
<1>1. Read' = Read
  BY DEF Read
<1>2. ASSUME NEW word
      PROVE  /\ I!NamesOf(I!Having(word, Read))' = I!NamesOf(I!Having(word, Read))
             /\ StandsAt(Read, word)' = StandsAt(Read, word)
  BY <1>1 DEF StandsAt, I!Having, I!NamesOf
<1>3. ASSUME NEW word
      PROVE  /\ I!ToSet(ValuesOf(groupBy', word)) = I!NamesOf(I!Having(word, Read))'
             /\ word # << >> =>
                  /\ IsFiniteSet(StandsAt(Read, word)')
                  /\ Len(ValuesOf(groupBy', word)) = Cardinality(StandsAt(Read, word)')
  BY <1>2 DEF GroupsSoFar
<1>4. DOMAIN groupBy' = UNION {I!WordsOf(problem'[f].value) : f \in Read'}
  BY <1>1 DEF GroupsSoFar
<1> QED BY <1>3, <1>4 DEF GroupsSoFar

(* An entry lists the names of its group, and groups change no more.       *)
LEMMA ReduceWordKeeps ==
  ASSUME IndexInv, NEW word \in DOMAIN groupBy, I!ReduceWord(word)
  PROVE  IndexInv'
<1>1. /\ IndexTypes /\ GroupsSoFar /\ ResultsSoFar
      /\ groupBy \in Groups(Names)
  BY DEF IndexInv, IndexTypes
<1>2. PICK e \in I!reduce(word, groupBy[word]) : results' = results \cup {e}
  BY DEF I!ReduceWord
<1>3. unread = {} /\ problem' = problem /\ unread' = unread /\ groupBy' = groupBy
  BY DEF I!ReduceWord
<1>4. groupBy[word] \in Seq(Names)
  <2>1. ValuesOf(groupBy, word) \in Seq(Names)
    BY <1>1, ValuesType
  <2> QED BY <2>1 DEF ValuesOf
<1>5. PICK E : E = I!ToSet(groupBy[word]) \ {Proto}
  OBVIOUS
<1>6. IsFiniteSet(E)
  <2>1. IsFiniteSet(I!ToSet(groupBy[word])) /\ E \in SUBSET I!ToSet(groupBy[word])
    BY <1>4, <1>5, ElementsAreFinite
  <2> QED BY <2>1, FS_Subset
<1>7. PICK files \in I!SetToSeqs(E) : e = [key |-> word, value |-> files]
  BY <1>2, <1>5 DEF I!reduce
<1>8. I!ToSet(files) = E /\ Len(files) = Cardinality(E)
  BY <1>6, ListIsOfSet
<1>9. e.key = word /\ e.value = files
  BY <1>7
<1>10. ASSUME NEW r \in results'
       PROVE  /\ r.key \in DOMAIN groupBy
              /\ I!ToSet(r.value) = I!ToSet(groupBy[r.key]) \ {Proto}
              /\ Cardinality(I!ToSet(r.value)) = Len(r.value)
  <2>1. CASE r \in results
    BY <1>1, <2>1 DEF ResultsSoFar
  <2>2. CASE r = e
    BY <1>5, <1>8, <1>9, <2>2
  <2> QED BY <1>2, <2>1, <2>2
<1>11. ResultsSoFar'
  BY <1>3, <1>10 DEF ResultsSoFar
<1>12. IndexTypes'
  <2>1. Groups(Names)' = Groups(Names)
    BY <1>3 DEF Groups, Names
  <2> QED BY <1>1, <1>3, <2>1 DEF IndexTypes
<1>13. GroupsSoFar'
  BY <1>1, <1>3, GroupsStay
<1> QED BY <1>11, <1>12, <1>13 DEF IndexInv

LEMMA IndexNextInv == IndexInv /\ [I!Next]_I!vars => IndexInv'
<1> SUFFICES ASSUME IndexInv, [I!Next]_I!vars PROVE IndexInv'
  OBVIOUS
<1>1. CASE I!Next
  BY <1>1, MapFileKeeps, ReduceWordKeeps DEF I!Next
<1>2. CASE UNCHANGED I!vars
  <2>1. UNCHANGED <<problem, unread, groupBy, results>>
    BY <1>2 DEF I!vars
  <2>2. Groups(Names)' = Groups(Names)
    BY <2>1 DEF Groups, Names
  <2>3. IndexTypes'
    BY <2>1, <2>2 DEF IndexInv, IndexTypes
  <2>4. GroupsSoFar'
    <3>1. GroupsSoFar
      BY DEF IndexInv
    <3> QED BY <2>1, <3>1, GroupsStay
  <2>5. ResultsSoFar'
    BY <2>1 DEF IndexInv, ResultsSoFar
  <2> QED BY <2>3, <2>4, <2>5 DEF IndexInv
<1> QED BY <1>1, <1>2

LEMMA IndexRuns == ScriptSpec => I!Init /\ [][I!Next]_I!vars
<1>1. ScriptInit => I!Init
  BY DEF ScriptInit
<1>2. [ScriptNext]_scriptVars => [I!Next]_I!vars
  BY DEF ScriptNext, Digest, Index, Search, scriptVars, indexVars, I!vars
<1> QED BY <1>1, <1>2, PTL DEF ScriptSpec

LEMMA IndexInvariance == ScriptSpec => []IndexInv
BY IndexRuns, IndexInitInv, IndexNextInv, PTL

-----------------------------------------------------------------------------
(* The theorems about the scripts.                                         *)

LEMMA SearchRuns == ScriptSpec => S!Init /\ [][S!Next]_S!vars
<1>1. ScriptInit => S!Init
  BY DEF ScriptInit
<1>2. [ScriptNext]_scriptVars => [S!Next]_S!vars
  BY DEF ScriptNext, Digest, Index, Search, scriptVars, searchVars, S!vars, S!serverVars
<1> QED BY <1>1, <1>2, PTL DEF ScriptSpec

LEMMA SearchInvariance == ScriptSpec => []SearchInv
BY SearchRuns, SearchInitInv, SearchNextInv, PTL

(* What md5 works on and what the browsers search with keep their types,   *)
(* whichever of the scripts runs.                                          *)
THEOREM ScriptTypes == ScriptSpec => []Types
<1>1. ScriptInit => IInv
  BY InitIInv DEF ScriptInit
<1>2. IInv /\ [ScriptNext]_scriptVars => IInv'
  <2>1. [ScriptNext]_scriptVars => [Next]_vars
    BY DEF ScriptNext, Digest, Index, Search, scriptVars
  <2> QED BY <2>1, NextIInv
<1>3. SearchInv => S!TypeOK
  <2> SUFFICES ASSUME SearchInv PROVE S!TypeOK
    OBVIOUS
  <2>1. SearchTypes
    BY DEF SearchInv
  <2>2. S!Letters \cup {S!FIRST - 1} = -1..LAST
    BY LettersAre
  <2>3. charlist \in Seq(S!Letters) /\ emptyString \in BOOLEAN
    BY <2>1 DEF SearchTypes, AnyWord
  <2>4. \A b \in Browsers :
          /\ prefix[b] = None \/ prefix[b] \in Seq(S!Letters)
          /\ charList[b] \in Seq(S!Letters \cup {S!FIRST - 1})
    BY <2>1, <2>2 DEF SearchTypes, AnyWord
  <2>5. \A w \in tested \cup found : w \in Seq(S!Letters) /\ w # << >>
    BY <2>1 DEF SearchTypes, AnyWord
  <2> QED BY <2>3, <2>4, <2>5 DEF S!TypeOK
<1>4. IInv => TypeOK
  BY DEF IInv
<1> QED BY <1>1, <1>2, <1>3, <1>4, SearchInvariance, PTL DEF ScriptSpec, Types

(* For every alphabet, length of the chunks and number of browsers, no     *)
(* word is passed over: neither at a carry of one of the two iterators nor *)
(* between the prefixes of two browsers (incr, increment, hasNext).        *)
THEOREM SearchIsComplete == ScriptSpec => []NoWordLeftOut
<1>1. SearchInv => NoWordLeftOut
  <2> SUFFICES ASSUME SearchInv, emptyString, found = {},
                      NEW n \in 1..MaxPrefix + ChunkLength, NEW w \in S!Words(n),
                      S!Before(S!PrefixOf(w), charlist)
               PROVE  w \in tested \/ \E b \in Browsers : prefix[b] = S!PrefixOf(w)
    BY DEF NoWordLeftOut, S!NoWordLeftOut
  <2>1. n \in Nat \ {0}
    BY LettersAre, SearchAssumption DEF S!WordSearchAssumption
  <2>2. w \in AnyWord /\ Len(w) = n
    BY <2>1 DEF S!Words, AnyWord
  <2>3. w # << >>
    BY <2>1, <2>2, EmptySeq
  <2>4. S!PrefixOf(w) \in UpTo(charlist)
    BY <2>2, <2>3, PrefixAndRest DEF UpTo
  <2> QED BY <2>2, <2>3, <2>4 DEF SearchInv, AllTried
<1> QED BY <1>1, SearchInvariance, PTL

(* No word is tried twice, by the same browser or by two                   *)
(* (WordIterator.next of the server and of the browser).                   *)
THEOREM SearchIsWithoutRepeats == ScriptSpec => NoWordTwice
<1>1. SearchInv => \A b \in Browsers : S!TestWord(b) => tested' # tested
  <2> SUFFICES ASSUME SearchInv, NEW b \in Browsers, S!TestWord(b)
               PROVE  tested' # tested
    OBVIOUS
  <2>1. PICK w : w \notin tested /\ tested' = tested \cup {w}
    BY TestWordDoes
  <2> QED BY <2>1
<1>2. SearchInv /\ [S!Next]_S!vars =>
        [\A b \in Browsers : S!TestWord(b) => tested' # tested]_S!vars
  BY <1>1
<1> QED BY <1>2, SearchRuns, SearchInvariance, PTL DEF NoWordTwice, S!NoWordTwice

(* The search implements SharedSearch, for every alphabet, length of the   *)
(* chunks, number of browsers and word that is sought (WordIterator.next   *)
(* and incr of the server, increment, hasNext and map of md5cracker.js).   *)
THEOREM WordsAreShared == ScriptSpec => SharesTheWords
<1>1. S!Init => S!Shared!Init
  <2> SUFFICES ASSUME S!Init PROVE S!Shared!Init
    OBVIOUS
  <2>1. S!Handed = {}
    BY DEF S!Init, S!Handed
  <2> QED BY <2>1 DEF S!Init, S!Shared!Init
<1>2. SearchInv /\ SearchInv' /\ [S!Next]_S!vars => [S!Shared!Next]_S!Shared!vars
  <2> SUFFICES ASSUME SearchInv, SearchInv', [S!Next]_S!vars
               PROVE  [S!Shared!Next]_S!Shared!vars
    OBVIOUS
  <2>1. ASSUME NEW b \in Browsers, S!NextPrefix(b) PROVE S!Shared!Next
    BY <2>1, NextPrefixHandsOut DEF S!Shared!Next
  <2>2. ASSUME NEW b \in Browsers, S!TestWord(b) PROVE S!Shared!Next
    BY <2>2, TestWordTries DEF S!Shared!Next
  <2>3. ASSUME NEW b \in Browsers, S!EndChunk(b) PROVE S!Shared!Next
    BY <2>3, EndChunkReturns DEF S!Shared!Next
  <2>4. CASE UNCHANGED S!vars
    <3>1. UNCHANGED S!Handed
      BY <2>4 DEF S!vars, S!serverVars, S!Handed, S!Words, S!Letters, S!FIRST, S!Before
    <3> QED BY <2>4, <3>1 DEF S!vars, S!serverVars, S!Shared!vars
  <2> QED BY <2>1, <2>2, <2>3, <2>4 DEF S!Next
<1> QED BY <1>1, <1>2, SearchRuns, SearchInvariance, PTL
        DEF SharesTheWords, S!SharesTheWords, S!Shared!Spec

(* For every alphabet, length of the chunks, number of browsers and word:  *)
(* it is found when it is tried, and the prefixes do not go past it with   *)
(* nobody left who tries it (md5cracker.map, WordIterator.next).           *)
THEOREM SecretStaysAhead == ScriptSpec => []SecretIsNotPassed
<1> DEFINE FoundInv == secret \in S!Seq(S!Letters) \ {<< >>} /\ found = tested \cap {secret}
<1>1. S!Init => FoundInv
  <2> SUFFICES ASSUME S!Init PROVE FoundInv
    OBVIOUS
  <2>1. secret \in Secrets /\ tested = {} /\ found = {}
    BY DEF S!Init
  <2>2. PICK n \in 1..MaxPrefix + ChunkLength : secret \in [1..n -> 0..LAST]
    BY <2>1, SearchAssumption DEF S!WordSearchAssumption
  <2>3. n \in Nat \ {0}
    BY <2>2, LettersAre, SearchAssumption DEF S!WordSearchAssumption
  <2>4. secret \in Seq(S!Letters) /\ Len(secret) = n
    BY <2>2, <2>3, LettersAre
  <2> QED BY <2>1, <2>3, <2>4, EmptySeq
<1>2. FoundInv /\ [S!Next]_S!vars => FoundInv'
  <2> SUFFICES ASSUME FoundInv, [S!Next]_S!vars PROVE FoundInv'
    OBVIOUS
  <2>1. UNCHANGED <<secret, tested, found>> => FoundInv'
    BY DEF S!Letters, S!FIRST
  <2>2. ASSUME NEW b \in Browsers, S!TestWord(b) PROVE FoundInv'
    <3>1. PICK w : /\ tested' = tested \cup {w} /\ UNCHANGED secret
                   /\ IF w = secret THEN found' = {w} ELSE UNCHANGED found
      BY <2>2 DEF S!TestWord
    <3> QED BY <3>1 DEF S!Letters, S!FIRST
  <2> QED BY <2>1, <2>2 DEF S!Next, S!NextPrefix, S!EndChunk, S!vars
<1>3. SearchInv /\ FoundInv => SecretIsNotPassed
  <2> SUFFICES ASSUME SearchInv, FoundInv, emptyString, found = {},
                      S!Before(S!PrefixOf(secret), charlist)
               PROVE  \E b \in Browsers : prefix[b] = S!PrefixOf(secret)
    BY DEF SecretIsNotPassed, S!SecretIsNotPassed
  <2>1. secret \in AnyWord \ {<< >>} /\ secret \notin tested
    BY DEF AnyWord
  <2>2. S!PrefixOf(secret) \in UpTo(charlist)
    BY <2>1, PrefixAndRest DEF UpTo
  <2> QED BY <2>1, <2>2 DEF SearchInv, AllTried
<1> HIDE DEF FoundInv
<1> QED BY <1>1, <1>2, <1>3, SearchRuns, SearchInvariance, PTL

(* For all files and all texts, and in whatever order the answers come:    *)
(* there is a group for each word read so far, and in it the names of the  *)
(* files that have the word, once for each place it stands at              *)
(* (normalizeText, map, addValues).                                        *)
THEOREM GroupsAreExact == ScriptSpec => []GroupsAreOfTheTexts
<1>1. IndexInv => GroupsAreOfTheTexts
  <2> SUFFICES ASSUME IndexInv PROVE I!GroupsAreOfTheTexts
    BY DEF GroupsAreOfTheTexts
  <2>1. /\ DOMAIN groupBy = UNION {I!WordsOf(problem[f].value) : f \in Read}
        /\ \A word :
             /\ I!ToSet(ValuesOf(groupBy, word)) = I!NamesOf(I!Having(word, Read))
             /\ word # << >> =>
                  Len(ValuesOf(groupBy, word)) = Cardinality(StandsAt(Read, word))
    BY DEF IndexInv, GroupsSoFar
  <2>2. ASSUME NEW word \in DOMAIN groupBy
        PROVE  /\ I!ToSet(groupBy[word]) = I!NamesOf(I!Having(word, Read))
               /\ word # << >> =>
                    Len(groupBy[word]) = I!Cardinality(StandsAt(Read, word))
    BY <2>1, SameCardinality DEF ValuesOf
  <2> QED BY <2>1, <2>2 DEF I!GroupsAreOfTheTexts, Read, StandsAt, RunsOf
<1> QED BY <1>1, IndexInvariance, PTL

(* For all files and all texts, the entry of a word lists the files that   *)
(* have it, each of them once, but for one named Proto, and in the end     *)
(* every word has its entry (reduce, addValues).                           *)
THEOREM IndexIsCorrect == ScriptSpec => []IndexIsExact
<1>1. IndexInv => IndexIsExact
  <2> SUFFICES ASSUME IndexInv PROVE I!IndexIsExact
    BY DEF IndexIsExact
  <2>1. /\ DOMAIN groupBy = UNION {I!WordsOf(problem[f].value) : f \in Read}
        /\ \A word : I!ToSet(ValuesOf(groupBy, word)) = I!NamesOf(I!Having(word, Read))
    BY DEF IndexInv, GroupsSoFar
  <2>2. unread = {} => Read = DOMAIN problem
    BY DEF Read
  <2>3. ASSUME NEW r \in results
        PROVE  /\ I!ToSet(r.value) = I!NamesOf(I!Having(r.key, DOMAIN problem)) \ {Proto}
               /\ I!Cardinality(I!ToSet(r.value)) = Len(r.value)
    <3>1. /\ unread = {}
          /\ r.key \in DOMAIN groupBy
          /\ I!ToSet(r.value) = I!ToSet(groupBy[r.key]) \ {Proto}
          /\ Cardinality(I!ToSet(r.value)) = Len(r.value)
      BY DEF IndexInv, ResultsSoFar
    <3>2. I!ToSet(groupBy[r.key]) = I!NamesOf(I!Having(r.key, DOMAIN problem))
      BY <2>1, <2>2, <3>1 DEF ValuesOf
    <3> QED BY <3>1, <3>2, SameCardinality
  <2>4. ASSUME I!Over
        PROVE  {r.key : r \in results} =
                 UNION {I!WordsOf(problem[f].value) : f \in DOMAIN problem}
    <3>1. {r.key : r \in results} = DOMAIN groupBy
      BY <2>4 DEF I!Over, IndexInv, ResultsSoFar
    <3> QED BY <2>1, <2>2, <2>4, <3>1 DEF I!Over
  <2> QED BY <2>3, <2>4 DEF I!IndexIsExact
<1> QED BY <1>1, IndexInvariance, PTL
=============================================================================
