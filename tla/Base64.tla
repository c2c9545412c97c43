------------------------------- MODULE Base64 -------------------------------
(***************************************************************************)
(* Binary blobs as text: the coder of savestate/b64.c and the two          *)
(* functions of the savestate that call it block by block. A character is  *)
(* its place in cb64, or Padding for '='.                                  *)
(*                                                                         *)
(* Arrays are functions from 0. What an array is followed by in memory is  *)
(* the argument beyond: the last block of an encoding reads it.            *)
(***************************************************************************)
EXTENDS Integers, Sequences

Padding == 64

encodeblock(a, b, c, len) ==
  << a \div 4,
     16 * (a % 4) + (b \div 16),
     IF len > 1 THEN 4 * (b % 16) + (c \div 64) ELSE Padding,
     IF len > 2 THEN c % 64 ELSE Padding >>

\* cd64 gives a character that is none of cb64 the value 0.
Decoded64(c) == IF c = Padding THEN 0 ELSE c

decodeblock(block) ==
  LET p(i) == Decoded64(block[i])
  IN << (4 * p(1) + (p(2) \div 16)) % 256,
        (16 * p(2) + (p(3) \div 4)) % 256,
        (64 * (p(3) % 4)) + p(4) >>

\* Blocks of three bytes, then what is left of the array.
encode_blob(bytes, size, beyond) ==
  LET byte(i)   == IF i < size THEN bytes[i] ELSE beyond
      block(i)  == encodeblock(byte(3 * i), byte(3 * i + 1), byte(3 * i + 2), size - 3 * i)
      text[n \in 0..((size + 2) \div 3)] ==
        IF n = 0 THEN <<>> ELSE text[n - 1] \o block(n - 1)
  IN text[(size + 2) \div 3]

\* The bytes of the last block that are written, by its padding.
BytesIn(block) == IF block[3] = Padding THEN 1 ELSE IF block[4] = Padding THEN 2 ELSE 3

\* Overwrites the start of the array out.
decode_blob(text, out) ==
  LET blocks   == Len(text) \div 4
      block(b) == SubSeq(text, 4 * b + 1, 4 * b + 4)
      given(i) == i \div 3 < blocks /\ (i \div 3 < blocks - 1 \/ i % 3 < BytesIn(block(i \div 3)))
  IN [i \in DOMAIN out |-> IF given(i) THEN decodeblock(block(i \div 3))[(i % 3) + 1] ELSE out[i]]
=============================================================================
