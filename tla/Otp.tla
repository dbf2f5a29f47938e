-------------------------------- MODULE Otp --------------------------------
(***************************************************************************)
(* The arithmetic of the one time pad (src/src/otp.cc).  A text is a       *)
(* sequence of the values of its characters; char is signed, so that a key *)
(* byte from 128 on is negative.  Where the bytes of the key file come     *)
(* from, and which of them are used, is in module Session.                 *)
(***************************************************************************)
EXTENDS Integers, Sequences

Ascii == 1..127         \* the characters of a command or an answer
LowByte == 0..127       \* key bytes that are not negative as a char
HighByte == -128..-1    \* the other ones
Byte == 0..255

l_add(i, j) == (i + j) % 256
l_sub(i, j) == IF i - j < 0 THEN i - j + 256 ELSE i - j

(* m[i][j], for a negative j too: the rows of m follow one another, so     *)
(* that it is the element at 256 * i + j.                                  *)
E(i, j) == LET at == 256 * i + j IN l_add(at \div 256, at % 256)
D(i, j) == LET at == 256 * i + j IN l_sub(at \div 256, at % 256)

(* bin_e_int(): four bits a character, 64 added to make it printable.      *)
BinE(i) == <<((i \div 16) % 16) + 64, (i % 16) + 64>>
BinD(c1, c2) == 16 * (c1 - 64) + (c2 - 64)

ToChar(i) == IF i > 127 THEN i - 256 ELSE i

(* otp_e_char() and otp_d_char(), for one character and for a text.        *)
CharE(c, k) == BinE(E(c, k))
CharD(c1, c2, k) == ToChar(D(BinD(c1, c2), k))
otp_e_char(pt, otp) ==
    [n \in 1..(2 * Len(pt)) |->
        CharE(pt[(n + 1) \div 2], otp[(n + 1) \div 2])[IF n % 2 = 1 THEN 1 ELSE 2]]
otp_d_char(ct, otp) ==
    [i \in 1..(Len(ct) \div 2) |-> CharD(ct[2 * i - 1], ct[2 * i], otp[i])]
=============================================================================
