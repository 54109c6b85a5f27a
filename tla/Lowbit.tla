-------------------------------- MODULE Lowbit ---------------------------------
(***************************************************************************)
(* The low-bit codes of a weight matrix: how src/quantization.cpp packs a  *)
(* row and tiles it for gfx1200, and how src/kernels/lowbit_gemv.hip takes *)
(* the codes out again.  Bytes and words are sets of the positions of      *)
(* their 1 bits: bit k of byte b is at 8 * b + k, | is \cup, & is \cap.    *)
(***************************************************************************)
EXTENDS Integers, FiniteSets

CONSTANTS
  KTiles,    \* fragments of a group: 4
  TileRows   \* rows of a tile: 16

ASSUME TileAssumption == KTiles \in Nat \ {0} /\ TileRows \in Nat \ {0}

FragmentCodes == 32
kGroupSize == KTiles * FragmentCodes

Formats == {"w2", "w3", "w4"}
bits == [w2 |-> 2, w3 |-> 3, w4 |-> 4]
fragment_bytes(format) == (FragmentCodes * bits[format]) \div 8
packed_row_bytes(format, columns) == (columns * bits[format] + 7) \div 8

(* A number of up to 4 bits as a word, and back.                           *)
Number(n) == {k \in 0..3 : (n \div 2^k) % 2 = 1}
Value(word) == LET bit(k) == IF k \in word THEN 2^k ELSE 0
               IN bit(0) + bit(1) + bit(2) + bit(3)

(* The level a code stands for.                                            *)
decode_value(code, format) ==
  CASE format = "w2" -> 2 * code - 3
    [] format = "w3" -> code - 4
    [] format = "w4" -> IF code >= 8 THEN code - 16 ELSE code

(* Where bit p of the code of a column is in its row; w3 has three bit     *)
(* planes per group.                                                       *)
CodeBit(format, column, p) ==
  CASE format = "w2" -> 8 * (column \div 4) + 2 * (column % 4) + p
    [] format = "w3" -> 8 * ((column \div kGroupSize) * ((3 * kGroupSize) \div 8)
                             + p * (kGroupSize \div 8)
                             + (column % kGroupSize) \div 8) + (column % 8)
    [] format = "w4" -> 8 * (column \div 2) + 4 * (column % 2) + p

(* The row that holds codes[c] in column c, and the code of a column.      *)
store_codes(codes, format) ==
  UNION {{CodeBit(format, c, p) : p \in Number(codes[c])} : c \in DOMAIN codes}
load_code(row, column, format) ==
  {p \in 0..bits[format] - 1 : CodeBit(format, column, p) \in row}

------------------------------------------------------------------------------
(* 32-bit words.                                                           *)

Bits == 0..31
Shl(word, n) == {p + n : p \in word} \cap Bits
Shr(word, n) == {p - n : p \in {q \in word : q >= n}}
Not(word) == Bits \ word
(* The mask of the bits from low to high - 1 of every run of period bits.  *)
Mask(period, low, high) == {p \in Bits : p % period >= low /\ p % period < high}
Load(bytes, offset, count) ==
  {p - 8 * offset : p \in {q \in bytes : q >= 8 * offset /\ q < 8 * (offset + count)}}

(* Fault: the part shifted out of the byte is lost.                        *)
resequence_in_byte(code, item) ==
  {8 * ((3 * item) \div 8) + ((3 * item) % 8) + p : p \in {q \in code : ((3 * item) % 8) + q < 8}}

(* Item i of a w3 fragment: the code takes bits from 3 * i on, the part    *)
(* shifted out of its first byte goes to the next one.                     *)
resequence(code, item) ==
  LET byte == (3 * item) \div 8
      shift == (3 * item) % 8
  IN {8 * byte + shift + p : p \in {q \in code : shift + q < 8}}
     \cup IF shift > 5
          THEN {8 * (byte + 1) + p - (8 - shift) : p \in {q \in code : q >= 8 - shift}}
          ELSE {}

(* tile_group128_for_gfx12: fragment k_tile of a group of a packed row.    *)
fragment(row, group, k_tile, format) ==
  IF format = "w3"
  THEN UNION {resequence(load_code(row, group * kGroupSize + k_tile * 32 + item, format),
                         item) : item \in 0..FragmentCodes - 1}
  ELSE Load(row, group * fragment_bytes(format) * KTiles
                 + k_tile * fragment_bytes(format), fragment_bytes(format))

------------------------------------------------------------------------------
(* The kernels expand 8 codes into 8 signed nibbles.                       *)

expand_w2_half(word) ==
  LET a == word \cap (0..15)
      b == (a \cup Shl(a, 8)) \cap Mask(16, 0, 8)
      c == (b \cup Shl(b, 4)) \cap Mask(8, 0, 4)
      d == (c \cup Shl(c, 2)) \cap Mask(4, 0, 2)
      inverted_high == Not(d) \cap Mask(4, 1, 2)
  IN Mask(4, 0, 1) \cup Shl(d \cap Mask(4, 0, 1), 1)
       \cup Shl(inverted_high, 1) \cup Shl(inverted_high, 2)

expand_w3_sequential_half(word) ==
  LET a == (word \cap (0..11)) \cup Shl(word \cap (12..23), 4)
      b == (a \cap Mask(16, 0, 6)) \cup Shl(a \cap Mask(16, 6, 12), 2)
      c == (b \cap Mask(8, 0, 3)) \cup Shl(b \cap Mask(8, 3, 6), 1)
      inverted == Not(c) \cap Mask(4, 2, 3)
  IN (c \cap Mask(4, 0, 2)) \cup inverted \cup Shl(inverted, 1)

dilate8(word) ==
  LET a == word \cap (0..7)
      b == (a \cup Shl(a, 12)) \cap Mask(16, 0, 4)
      c == (b \cup Shl(b, 6)) \cap Mask(8, 0, 2)
  IN (c \cup Shl(c, 3)) \cap Mask(4, 0, 1)

(* Half h of what a lane takes from the bytes at source, in the legacy     *)
(* recipes as bit planes.                                                  *)
expand_w3_bitplane(low, high, h) ==
  LET inverted == Not(dilate8(Shr(high, 8 * h))) \cap Mask(4, 0, 1)
  IN dilate8(Shr(low, 8 * h)) \cup Shl(dilate8(Shr(low, 8 * (h + 2))), 1)
       \cup Shl(inverted, 2) \cup Shl(inverted, 3)

expand(bytes, source, h, format, sequential_w3) ==
  LET low == Load(bytes, source, 4)
      high == Load(bytes, source + 4, 2)
  IN CASE format = "w2" -> expand_w2_half(IF h = 0 THEN low ELSE Shr(low, 16))
       [] format = "w3" /\ sequential_w3 ->
            expand_w3_sequential_half(IF h = 0 THEN low ELSE Shr(low, 24) \cup Shl(high, 8))
       [] format = "w3" /\ ~sequential_w3 -> expand_w3_bitplane(low, high, h)
       [] format = "w4" -> Load(bytes, source + 4 * h, 4)

(* gfx12_i4_gemm: the weights a fragment has in the product, by column.    *)
i4_weights(bytes, format, sequential_w3) ==
  LET lane_bytes == fragment_bytes(format) \div 2
      words == <<expand(bytes, 0, 0, format, sequential_w3),
                 expand(bytes, 0, 1, format, sequential_w3),
                 expand(bytes, lane_bytes, 0, format, sequential_w3),
                 expand(bytes, lane_bytes, 1, format, sequential_w3)>>
      nibble(c) == Value(Shr(words[c \div 8 + 1], 4 * (c % 8)) \cap (0..3))
  IN [c \in 0..FragmentCodes - 1 |-> IF nibble(c) >= 8 THEN nibble(c) - 16 ELSE nibble(c)]

(* lowbit_tiled_row_gather, of formats w2 and w4.                          *)
gather_weight(bytes, local_column, format) ==
  LET per_byte == 8 \div bits[format]
      packed == Load(bytes, local_column \div per_byte, 1)
      code == Value(Shr(packed, (local_column % per_byte) * bits[format])
                    \cap (0..bits[format] - 1))
  IN decode_value(code, format)
=============================================================================
