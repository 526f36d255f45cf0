-------------------------------- MODULE Md5 --------------------------------
(***************************************************************************)
(* The md5 of the volunteer's page (md5cracker.js): how the text is cut    *)
(* into blocks and padded (md51), the 64 lines that mix a block into the   *)
(* state (md5cycle), and the digest.                                       *)
(*                                                                         *)
(* A 32-bit word is the set of its bits that are 1.  A text is a sequence  *)
(* of bytes: the code calls charCodeAt and says that nothing above 255     *)
(* will do.  Each line of md5cycle is a step.                              *)
(***************************************************************************)
EXTENDS Integers, Sequences

CONSTANT Texts   \* the texts whose md5 is made

ASSUME TextsAssumption == Texts \subseteq Seq(0..255)

VARIABLES
  s,      \* the text
  i,      \* the end of the next block of 64 bytes in it
  state,  \* state of md51, the four words of the digest
  reg,    \* a, b, c and d of md5cycle
  k,      \* the block it mixes in
  line,   \* the lines of md5cycle that are done
  pc,     \* where md51 goes on when md5cycle returns
  fed     \* history: the blocks md5cycle was called with

vars == <<s, i, state, reg, k, line, pc, fed>>

-----------------------------------------------------------------------------
(* Words.                                                                  *)

Positions == 0..31

(* A number between -2^31 and 2^31 - 1 in two's complement                 *)
Bits(n) ==
  {p \in 0..30 : (n \div 2^p) % 2 = 1} \cup (IF n < 0 THEN {31} ELSE {})

Not(x)         == Positions \ x
Xor(x, y)      == (x \cup y) \ (x \cap y)
ShiftLeft(x, n)  == {p \in Positions : p - n \in x}
ShiftRight(x, n) == {p \in Positions : p + n \in x}

(* add32: there is a carry into a bit when both words have some bit below  *)
(* it and one of them every bit in between.                                *)
Add(x, y) ==
  LET carry == {p \in Positions : \E q \in x \cap y :
                  q < p /\ \A between \in q + 1..p - 1 : between \in x \cup y}
  IN  Xor(Xor(x, y), carry)

(* Mutant: >> in the place of >>>.                                         *)
RotateSigned(x, n) ==
  ShiftLeft(x, n) \cup ShiftRight(x, 32 - n) \cup (IF 31 \in x THEN n..31 ELSE {})

(* (a << s) | (a >>> (32 - s))                                             *)
Rotate(x, n) == ShiftLeft(x, n) \cup ShiftRight(x, 32 - n)

(* The code has two functions add32; which of them is in force where a     *)
(* function is declared in the branch of an if depends on the browser.     *)
(* They add numbers of two halves with h values each.                      *)
Wrap(h, n) == ((n + ((h * h) \div 2)) % (h * h)) - ((h * h) \div 2)

AddWhole(h, x, y) == Wrap(h, x + y)

AddHalves(h, x, y) ==
  LET lsw == (x % h) + (y % h)
      msw == (x \div h) + (y \div h) + (lsw \div h)
  IN  Wrap(h, msw * h) + (lsw % h)

(* ff, gg, hh and ii, for the lines of each quarter of md5cycle            *)
Quarter(n, b, c, d) ==
  CASE n < 16 -> (b \cap c) \cup (Not(b) \cap d)
    [] n \in 16..31 -> (b \cap d) \cup (c \cap Not(d))
    [] n \in 32..47 -> Xor(Xor(b, c), d)
    [] n > 47 -> Xor(c, b \cup Not(d))

(* For each line of md5cycle the word of the block, the bits to rotate by  *)
(* and the number that is added                                            *)
Lines == <<
  << 0,  7,  -680876936>>, << 1, 12,  -389564586>>,
  << 2, 17,   606105819>>, << 3, 22, -1044525330>>,
  << 4,  7,  -176418897>>, << 5, 12,  1200080426>>,
  << 6, 17, -1473231341>>, << 7, 22,   -45705983>>,
  << 8,  7,  1770035416>>, << 9, 12, -1958414417>>,
  <<10, 17,      -42063>>, <<11, 22, -1990404162>>,
  <<12,  7,  1804603682>>, <<13, 12,   -40341101>>,
  <<14, 17, -1502002290>>, <<15, 22,  1236535329>>,
  << 1,  5,  -165796510>>, << 6,  9, -1069501632>>,
  <<11, 14,   643717713>>, << 0, 20,  -373897302>>,
  << 5,  5,  -701558691>>, <<10,  9,    38016083>>,
  <<15, 14,  -660478335>>, << 4, 20,  -405537848>>,
  << 9,  5,   568446438>>, <<14,  9, -1019803690>>,
  << 3, 14,  -187363961>>, << 8, 20,  1163531501>>,
  <<13,  5, -1444681467>>, << 2,  9,   -51403784>>,
  << 7, 14,  1735328473>>, <<12, 20, -1926607734>>,
  << 5,  4,     -378558>>, << 8, 11, -2022574463>>,
  <<11, 16,  1839030562>>, <<14, 23,   -35309556>>,
  << 1,  4, -1530992060>>, << 4, 11,  1272893353>>,
  << 7, 16,  -155497632>>, <<10, 23, -1094730640>>,
  <<13,  4,   681279174>>, << 0, 11,  -358537222>>,
  << 3, 16,  -722521979>>, << 6, 23,    76029189>>,
  << 9,  4,  -640364487>>, <<12, 11,  -421815835>>,
  <<15, 16,   530742520>>, << 2, 23,  -995338651>>,
  << 0,  6,  -198630844>>, << 7, 10,  1126891415>>,
  <<14, 15, -1416354905>>, << 5, 21,   -57434055>>,
  <<12,  6,  1700485571>>, << 3, 10, -1894986606>>,
  <<10, 15,    -1051523>>, << 1, 21, -2054922799>>,
  << 8,  6,  1873313359>>, <<15, 10,   -30611744>>,
  << 6, 15, -1560198380>>, <<13, 21,  1309151649>>,
  << 4,  6,  -145523070>>, <<11, 10, -1120210379>>,
  << 2, 15,   718787259>>, << 9, 21,  -343485551>> >>

(* cmn of a line: a is the register that is changed.                       *)
Cmn(n, a, b, c, d, block) ==
  LET row == Lines[n + 1]
      sum == Add(Add(a, Quarter(n, b, c, d)), Add(block[row[1]], Bits(row[3])))
  IN  Add(Rotate(sum, row[2]), b)

(* Four bytes in a word, the first one lowest                              *)
Pack(b0, b1, b2, b3) ==
  Bits(b0) \cup ShiftLeft(Bits(b1), 8) \cup ShiftLeft(Bits(b2), 16)
           \cup ShiftLeft(Bits(b3), 24)

(* md5blk, of the 64 bytes that end before position i                      *)
Blk(text, end) ==
  [w \in 0..15 |-> LET p == end - 64 + 4 * w
                   IN  Pack(text[p + 1], text[p + 2], text[p + 3], text[p + 4])]

(* tail: what is left of the text and a byte with its first bit set        *)
TailByte(rest, p) ==
  IF p < Len(rest) THEN rest[p + 1] ELSE IF p = Len(rest) THEN 128 ELSE 0
TailBlk(rest) ==
  [w \in 0..15 |-> Pack(TailByte(rest, 4 * w), TailByte(rest, 4 * w + 1),
                        TailByte(rest, 4 * w + 2), TailByte(rest, 4 * w + 3))]

ZeroBlk == [w \in 0..15 |-> Pack(0, 0, 0, 0)]

(* rhex and hex, a byte of two digits at a time                            *)
ByteOf(x, j) ==
  LET bit(p) == IF 8 * j + p \in x THEN 2^p ELSE 0
  IN  bit(0) + bit(1) + bit(2) + bit(3) + bit(4) + bit(5) + bit(6) + bit(7)
Hex(words) == [n \in 1..16 |-> ByteOf(words[((n - 1) \div 4) + 1], (n - 1) % 4)]

-----------------------------------------------------------------------------
Init ==
  /\ s \in Texts
  /\ i = 64
  /\ state = <<Bits(1732584193), Bits(-271733879),
               Bits(-1732584194), Bits(271733878)>>
  /\ reg = state
  /\ k = ZeroBlk
  /\ line = 64
  /\ pc = "blocks"
  /\ fed = << >>

(* md5cycle is called.                                                     *)
Cycle(block) ==
  /\ k' = block
  /\ reg' = state
  /\ line' = 0
  /\ fed' = Append(fed, block)
  /\ UNCHANGED <<s, state>>

(* One line of md5cycle: the registers take turns, a, d, c and b.          *)
MixLine ==
  /\ line < 64
  /\ LET at    == (4 - (line % 4)) % 4
         R(j)  == reg[((at + j) % 4) + 1]
         mixed == [reg EXCEPT ![at + 1] = Cmn(line, R(0), R(1), R(2), R(3), k)]
     IN  IF line = 63
         THEN /\ state' = [j \in 1..4 |-> Add(mixed[j], state[j])]
              /\ reg' = state'
         ELSE /\ reg' = mixed
              /\ UNCHANGED state
  /\ line' = line + 1
  /\ UNCHANGED <<s, i, k, pc, fed>>

(* The loop over the whole blocks                                          *)
NextBlock ==
  /\ line = 64 /\ pc = "blocks" /\ i <= Len(s)
  /\ Cycle(Blk(s, i))
  /\ i' = i + 64
  /\ UNCHANGED pc

(* Mutant: the length is put into a block that has no room for it.         *)
TailBlockLate ==
  /\ line = 64 /\ pc = "blocks" /\ i > Len(s)
  /\ LET rest == SubSeq(s, i - 63, Len(s))
     IN  IF Len(rest) > 56
         THEN Cycle(TailBlk(rest)) /\ pc' = "length"
         ELSE /\ Cycle([TailBlk(rest) EXCEPT ![14] = Bits(8 * Len(s))])
              /\ pc' = "done"
  /\ UNCHANGED i

(* What is left, with the length when there is room for it                 *)
TailBlock ==
  /\ line = 64 /\ pc = "blocks" /\ i > Len(s)
  /\ LET rest == SubSeq(s, i - 63, Len(s))
     IN  IF Len(rest) > 55
         THEN Cycle(TailBlk(rest)) /\ pc' = "length"
         ELSE /\ Cycle([TailBlk(rest) EXCEPT ![14] = Bits(8 * Len(s))])
              /\ pc' = "done"
  /\ UNCHANGED i

(* Otherwise the length has a block of its own.                            *)
LengthBlock ==
  /\ line = 64 /\ pc = "length"
  /\ Cycle([ZeroBlk EXCEPT ![14] = Bits(8 * Len(s))])
  /\ pc' = "done"
  /\ UNCHANGED i

Next == MixLine \/ NextBlock \/ TailBlock \/ LengthBlock

Spec == Init /\ [][Next]_vars

-----------------------------------------------------------------------------
(* Properties.                                                             *)

TypeOK ==
  /\ s \in Texts
  /\ i \in Nat
  /\ pc \in {"blocks", "length", "done"}
  /\ line \in 0..64
  /\ k \in [0..15 -> SUBSET Positions]
  /\ state \in [1..4 -> SUBSET Positions]
  /\ reg \in [1..4 -> SUBSET Positions]

(* The message of RFC 1321 (3.1 and 3.2): a byte with its first bit set,   *)
(* zeros up to eight bytes before a multiple of 64, and the length in bits *)
(* as a word and a word of zero.                                           *)
Blocks(text) == ((Len(text) + 8) \div 64) + 1
PadByte(text, p) ==
  IF p < Len(text) THEN text[p + 1] ELSE IF p = Len(text) THEN 128 ELSE 0
PadWord(text, w) ==
  IF w = 16 * Blocks(text) - 2 THEN Bits(8 * Len(text))
  ELSE Pack(PadByte(text, 4 * w), PadByte(text, 4 * w + 1),
            PadByte(text, 4 * w + 2), PadByte(text, 4 * w + 3))

(* md5cycle gets the blocks of the padded text, in order, and all of them, *)
(* whatever the length of the text (the loop of md51, its tail of more     *)
(* than 55 bytes and the block that holds only the length).                *)
Padded ==
  /\ \A n \in 1..Len(fed) : \A w \in 0..15 :
       fed[n][w] = PadWord(s, 16 * (n - 1) + w)
  /\ Len(fed) <= Blocks(s)
  /\ pc = "done" => Len(fed) = Blocks(s)
=============================================================================
