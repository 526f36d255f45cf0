----------------------------- MODULE MCScripts -----------------------------
(***************************************************************************)
(* An instance of Scripts for TLC.                                         *)
(*                                                                         *)
(* The texts of md5 are the test suite of RFC 1321 (A.5), the word of the  *)
(* code's own test, and texts whose lengths are at the limits of the       *)
(* padding.                                                                *)
(***************************************************************************)
EXTENDS Scripts, SequencesExt

CONSTANTS f, g  \* names of files

-----------------------------------------------------------------------------
Alphabet == [n \in 1..26 |-> 96 + n]
Digits   == [n \in 1..80 |-> 48 + (n % 10)]
Everything ==
  [n \in 1..26 |-> 64 + n] \o Alphabet \o [n \in 1..10 |-> 47 + n]
Hello == <<104, 101, 108, 108, 111>>
Zs(n) == [m \in 1..n |-> 122]

(* Each text with its digest                                               *)
Known == <<
  <<<< >>,
    <<212,29,140,217,143,0,178,4,233,128,9,152,236,248,66,126>> >>,
  <<<<97>>,
    <<12, 193, 117, 185, 192, 241, 182, 168, 49, 195, 153, 226, 105, 119, 38,
      97>> >>,
  <<<<97, 98, 99>>,
    <<144, 1, 80, 152, 60, 210, 79, 176, 214, 150, 63, 125, 40, 225, 127,
      114>> >>,
  <<<<109, 101, 115, 115, 97, 103, 101, 32, 100, 105, 103, 101, 115, 116>>,
    <<249, 107, 105, 125, 124, 183, 147, 141, 82, 90, 47, 49, 170, 241, 97,
      208>> >>,
  <<Alphabet,
    <<195, 252, 211, 215, 97, 146, 228, 0, 125, 251, 73, 108, 202, 103, 225,
      59>> >>,
  <<Everything,
    <<209, 116, 171, 152, 210, 119, 217, 245, 165, 97, 28, 44, 159, 65, 157,
      159>> >>,
  <<Digits,
    <<87,237,244,162,43,227,201,85,172,73,218,46,33,7,182,122>> >>,
  <<Hello,
    <<93,65,64,42,188,75,42,118,185,113,157,145,16,23,197,146>> >>,
  <<Zs(55),
    <<182, 135, 121, 31, 55, 63, 154, 9, 182, 241, 138, 29, 132, 90, 236,
      191>> >>,
  <<Zs(56),
    <<250, 44, 174, 52, 2, 66, 178, 155, 215, 222, 210, 28, 123, 193, 29,
      161>> >>,
  <<Zs(63),
    <<202, 201, 55, 103, 101, 21, 118, 120, 201, 108, 37, 10, 238, 143, 251,
      135>> >>,
  <<Zs(64),
    <<62, 204, 73, 249, 217, 214, 194, 99, 180, 240, 222, 127, 195, 243, 138,
      237>> >>,
  <<Zs(119),
    <<202, 244, 62, 230, 201, 222, 250, 236, 207, 193, 215, 194, 70, 71, 100,
      110>> >>,
  <<Zs(120),
    <<62, 245, 50, 21, 151, 22, 236, 251, 145, 23, 245, 111, 78, 173, 79,
      182>> >>,
  <<Zs(128),
    <<139, 176, 25, 197, 6, 69, 130, 58, 225, 203, 186, 198, 112, 204, 137,
      79>> >> >>

(* Both functions add32 on words of four and of six bits, and Add on       *)
(* numbers whose sum is a number                                           *)
ASSUME Add32Agrees ==
  /\ \A x, y \in -8..7 : AddHalves(4, x, y) = AddWhole(4, x, y)
  /\ \A x, y \in -32..31 : AddHalves(8, x, y) = AddWhole(8, x, y)
  /\ \A x, y \in {-1073741824, -65537, -2, -1, 0, 1, 255, 65535, 1073741823} :
       Add(Bits(x), Bits(y)) = Bits(x + y)

KnownTexts == {Known[n][1] : n \in 1..Len(Known)}

(* Two files with two names, with one name, or with the name Proto.  Their *)
(* texts are those of two characters that are a capital, a small letter or *)
(* a dot, and for the first file those of three characters and one with    *)
(* two dots between letters.                                               *)
Short == BoundedSeq({65, 97, 46}, 2)
Long  == [1..3 -> {65, 97, 46}] \cup {<<65, 46, 46, 97>>}
Names == {<<f, g>>, <<f, f>>, <<Proto, g>>}

TwoFiles ==
  {<<[key |-> n[1], value |-> t], [key |-> n[2], value |-> u]>> :
     n \in Names, t \in Short \cup Long, u \in Short}

(* Words found in the chunk of the empty prefix, at a carry and at the     *)
(* very end of an alphabet of three letters                                *)
Sought == {<<0>>, <<2, 2>>, <<1, 0, 2>>, <<0, 2, 2, 2>>, <<2, 2, 2, 2>>}

-----------------------------------------------------------------------------
(* The digests are those of md5, "hello" included, whose digest the code   *)
(* compares with 5d41402abc4b2a76b9719d911017c592 to decide whether to     *)
(* define add32 again.                                                     *)
DigestIsKnown ==
  pc = "done" /\ line = 64 =>
    \A n \in 1..Len(Known) : Known[n][1] = s => Hex(state) = Known[n][2]
=============================================================================
