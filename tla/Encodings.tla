----------------------------- MODULE Encodings -----------------------------
(***************************************************************************)
(* Bytes as text and as numbers: base64, base58, recovery keys, the byte   *)
(* order of integers, and the codes that two people compare.               *)
(*                                                                         *)
(* A byte is 0 .. 255.  A character of base64 or base58 is the number it   *)
(* stands for, or one of the others below.                                 *)
(***************************************************************************)
EXTENDS Integers, Sequences, SequencesExt

Space   == 100
Pad     == 101
Foreign == 102
Invalid == 255

\* invert_alphabet of an alphabet with so many characters.
to_int(size, c) == IF c < size THEN c ELSE 255

\* The number of x at the start of a sequence.
Leading(s, x) == CHOOSE n \in 0 .. Len(s) :
                   /\ \A i \in 1 .. n : s[i] = x
                   /\ n < Len(s) => s[n + 1] # x
Times(n, x) == [i \in 1 .. n |-> x]
-----------------------------------------------------------------------------
(* base58: a number, of which the digits are kept little end first.         *)
digits_of[base \in Nat, carry \in Nat] ==
  IF carry = 0 THEN <<>> ELSE <<carry % base>> \o digits_of[base, carry \div base]

\* The inner loops of both directions: digits * factor + carry.
multiply_add(digits, factor, base, carry) ==
  LET step(acc, d) == LET c == acc.carry + d * factor
                      IN  [digits |-> Append(acc.digits, c % base), carry |-> c \div base]
      all == FoldLeft(step, [digits |-> <<>>, carry |-> carry], digits)
  IN  all.digits \o digits_of[base, all.carry]

\* The number of zero is already one digit when the zero bytes are put in front.
encode_base58(input) ==
  IF input = <<>> THEN <<>>
  ELSE Times(Leading(input, 0), 0)
       \o Reverse(FoldLeft(LAMBDA ds, b : multiply_add(ds, 256, 58, b), <<0>>, input))

\* Only the byte 0xff is refused: another foreign character is a digit of 255.
decode_base58(input) ==
  LET step(bytes, c) == IF c = Space THEN bytes ELSE multiply_add(bytes, 58, 256, to_int(58, c))
  IN  IF Contains(input, Invalid) THEN <<>>
      ELSE Reverse(FoldLeft(step, <<>>, input) \o Times(Leading(input, 0), 0))
-----------------------------------------------------------------------------
(* base64.                                                                  *)
encode_base64(pad, input) ==
  LET missing == (3 - (Len(input) % 3)) % 3
      byte(i) == IF i <= Len(input) THEN input[i] ELSE 0
      group(i) == LET bytes == byte(i) * 2^16 + byte(i + 1) * 2^8 + byte(i + 2)
                  IN  <<bytes \div 2^18, (bytes \div 2^12) % 64, (bytes \div 2^6) % 64, bytes % 64>>
      encoded == FlattenSeq([g \in 1 .. (Len(input) + missing) \div 3 |-> group(3 * g - 2)])
      kept == SubSeq(encoded, 1, Len(encoded) - missing)
  IN  IF pad THEN kept \o Times(missing, Pad) ELSE kept

\* One character; bit_index counts them in a group of four.
decode_step(s, c) ==
  LET d == to_int(64, c)
      back(x) == [s.decoded EXCEPT ![Len(s.decoded)] = (@ + x) % 256]
  IN  IF s.done \/ c = Pad THEN [s EXCEPT !.done = TRUE]
      ELSE IF d > 64 THEN [s EXCEPT !.done = TRUE, !.d = d]
      ELSE [done |-> FALSE, d |-> d, bit_index |-> (s.bit_index + 1) % 4,
            decoded |-> CASE s.bit_index = 0 -> Append(s.decoded, (d * 4) % 256)
                          [] s.bit_index = 1 -> Append(back(d \div 16), (d * 16) % 256)
                          [] s.bit_index = 2 -> Append(back(d \div 4), (d * 64) % 256)
                          [] s.bit_index = 3 -> back(d)]
decoded_groups(input) ==
  FoldLeft(decode_step, [done |-> FALSE, d |-> 0, bit_index |-> 0, decoded |-> <<>>], input)

\* Mutant: the byte that was only begun is kept.
decode_base64_begun(input) == decoded_groups(input).decoded
\* The byte that the last character only began is dropped if it is zero.
decode_base64(input) ==
  LET s == decoded_groups(input)
  IN  IF \/ s.bit_index = 2 /\ (s.d * 16) % 256 = 0
         \/ s.bit_index = 3 /\ (s.d * 64) % 256 = 0
      THEN Front(s.decoded) ELSE s.decoded
-----------------------------------------------------------------------------
(* Recovery keys, integers and codes.                                       *)
Width == 16     \* of the integers that are put together bit by bit
Bit(x, i) == (x \div 2^i) % 2
BitByBit(x, y, op(_, _)) ==
  MapThenSumSet(LAMBDA i : 2^i * op(Bit(x, i), Bit(y, i)), 0 .. Width - 1)
x | y  == BitByBit(x, y, LAMBDA a, b : IF a + b = 0 THEN 0 ELSE 1)
x & y  == BitByBit(x, y, LAMBDA a, b : a * b)
x ^^ y == BitByBit(x, y, LAMBDA a, b : (a + b) % 2)

XorOf(s) == FoldLeft(LAMBDA a, b : a ^^ b, 0, s)
\* 0x8b 0x01
Prefix == <<139, 1>>
key_to_recoverykey(key) ==
  LET buf == Prefix \o key IN encode_base58(Append(buf, XorOf(buf)))

\* The first half of key_from_recoverykey: the key in a text, a set of at most one.
key_in(text) ==
  LET temp == decode_base58(text)
  IN  {key \in {SubSeq(temp, 3, Len(temp) - 1)} :
         Len(temp) >= 3 /\ SubSeq(temp, 1, 2) = Prefix /\ XorOf(Front(temp)) = Last(temp)}

uint8_to_uint32(b) == ((b[1] * 256 + b[2]) * 256 + b[3]) * 256 + b[4]
uint32_to_uint8(u) == <<(u \div 2^24) % 256, (u \div 2^16) % 256, (u \div 2^8) % 256, u % 256>>

\* The numbers made of the bytes of olm_sas_generate_bytes.
generate_bytes_decimal(b) ==
  <<((b[1] * 32) | (b[2] \div 8)) + 1000,
    (((b[2] & 7) * 1024) | (b[3] * 4) | (b[4] \div 64)) + 1000,
    (((b[4] & 63) * 128) | (b[5] \div 2)) + 1000>>
generate_bytes_emoji(b) ==
  <<b[1] \div 4, ((b[1] * 16) & 63) | (b[2] \div 16), ((b[2] * 4) & 63) | (b[3] \div 64), b[3] & 63,
    b[4] \div 4, ((b[4] * 16) & 63) | (b[5] \div 16), ((b[5] * 4) & 63) | (b[6] \div 64)>>
-----------------------------------------------------------------------------
(* What these stand for: the bits of the bytes, cut into numbers.           *)
ValueOf(base, s) == FoldLeft(LAMBDA a, d : a * base + d, 0, s)
BitsOf(bytes) == [i \in 1 .. 8 * Len(bytes) |->
                    (bytes[(i + 7) \div 8] \div 2^(7 - ((i - 1) % 8))) % 2]
Cut(bits, width, count) ==
  LET bit(i) == IF i <= Len(bits) THEN bits[i] ELSE 0
  IN  [n \in 1 .. count |-> ValueOf(2, [i \in 1 .. width |-> bit((n - 1) * width + i)])]

Base64Of(bytes) == Cut(BitsOf(bytes), 6, (8 * Len(bytes) + 5) \div 6)
\* The same number, behind as many zeros.
IsBase58Of(text, bytes) ==
  /\ ValueOf(58, text) = ValueOf(256, bytes)
  /\ Leading(text, 0) = Leading(bytes, 0)
DecimalOf(b) == [n \in 1 .. 3 |-> 1000 + Cut(BitsOf(b), 13, 3)[n]]
EmojiOf(b) == Cut(BitsOf(b), 6, 7)
=============================================================================
