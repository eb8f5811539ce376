------------------------------- MODULE Base64 -------------------------------
(***************************************************************************)
(* Bytes as text: the base64 and hexadecimal functions of                  *)
(* platform/src/uti_string.c.  What their loops write is given position by *)
(* position.                                                               *)
(***************************************************************************)
EXTENDS Integers, Sequences

Byte == 0..255

(* The result of a function that may fail.                                 *)
Failed  == [ok |-> FALSE, out |-> <<>>]
Gives(t) == [ok |-> TRUE, out |-> t]

Pad == 61   \* =

Invalid == 77

(* basis64 of the encoder: A..Z a..z 0..9 + /                              *)
Basis64(v) ==
  CASE v \in 0..25  -> v + 65
    [] v \in 26..51 -> v + 71
    [] v \in 52..61 -> v - 4
    [] v = 62       -> 43
    [] OTHER        -> 47

(* basis64 of the decoders, which differ in the last two characters.       *)
Value(c, url) ==
  CASE c \in 65..90                     -> c - 65
    [] c \in 97..122                    -> c - 71
    [] c \in 48..57                     -> c + 4
    [] c = (IF url THEN 45 ELSE 43)     -> 62
    [] c = (IF url THEN 95 ELSE 47)     -> 63
    [] OTHER                            -> Invalid

-----------------------------------------------------------------------------
(* The six bits of digit i: of three bytes a, b and c come a's upper six,  *)
(* a's lower two with b's upper four, b's lower four with c's upper two,   *)
(* and c's lower six.  Behind the end are bits that are 0.                 *)
MutSextet(t, i) ==
  LET g == 3 * ((i - 1) \div 4)
      r == (i - 1) % 4
      at(k) == IF g + k \in DOMAIN t THEN t[g + k] ELSE 0
  IN  CASE r = 0 -> at(1) \div 4
        [] r = 1 -> (at(1) % 4) * 16 + at(2) \div 16
        [] r = 2 -> (at(2) % 16) * 4 + at(3) \div 128
        [] r = 3 -> at(3) % 64

Sextet(t, i) ==
  LET g == 3 * ((i - 1) \div 4)
      r == (i - 1) % 4
      at(k) == IF g + k \in DOMAIN t THEN t[g + k] ELSE 0
  IN  CASE r = 0 -> at(1) \div 4
        [] r = 1 -> (at(1) % 4) * 16 + at(2) \div 16
        [] r = 2 -> (at(2) % 16) * 4 + at(3) \div 64
        [] r = 3 -> at(3) % 64

(* A group that is not full has a digit more than it has bytes.            *)
Digits(len) == (4 * len + 2) \div 3

(* Each group of up to three bytes gives four characters.                  *)
ngx_encode_base64(t) ==
  [i \in 1..4 * ((Len(t) + 2) \div 3) |->
     IF i <= Digits(Len(t)) THEN Basis64(Sextet(t, i)) ELSE Pad]

(* How many characters there are before the first =.                       *)
Unpadded(t) ==
  CHOOSE k \in 0..Len(t) :
    /\ \A i \in 1..k : t[i] # Pad
    /\ k = Len(t) \/ t[k + 1] = Pad

(* Byte j of what is decoded from the digits of t.                         *)
Octet(t, url, j) ==
  LET g == 4 * ((j - 1) \div 3)
      r == (j - 1) % 3
      v(i) == Value(t[i], url)
  IN  CASE r = 0 -> v(g + 1) * 4 + v(g + 2) \div 16
        [] r = 1 -> (v(g + 2) % 16) * 16 + v(g + 3) \div 4
        [] r = 2 -> (v(g + 3) % 4) * 64 + v(g + 4)

(* ngx_decode_base64_internal, with either table.                          *)
ngx_decode_base64(t, url) ==
  LET k == Unpadded(t) IN
  IF (\E i \in 1..k : Value(t[i], url) = Invalid) \/ k % 4 = 1 THEN Failed
  ELSE Gives([j \in 1..(3 * k) \div 4 |-> Octet(t, url, j)])

-----------------------------------------------------------------------------
HexDigit(v) == IF v < 10 THEN v + 48 ELSE v + 87

ngx_hex_dump(t) ==
  [i \in 1..2 * Len(t) |->
     HexDigit(IF i % 2 = 1 THEN t[(i + 1) \div 2] \div 16 ELSE t[i \div 2] % 16)]

(* The -1 of the error is 255 as a u_char.                                 *)
hex2ch(c) ==
  CASE c \in 97..102 -> c - 87
    [] c \in 65..70  -> c - 55
    [] c \in 48..57  -> c - 48
    [] OTHER         -> 255

(* The first digit of a pair is compared with -1, as a char, which is      *)
(* signed on the platforms the makefile is for; the second is not looked   *)
(* at.  An empty text is an error.                                         *)
str2buf(t) ==
  IF Len(t) = 0 \/ Len(t) % 2 # 0 \/ \E j \in 1..Len(t) \div 2 : hex2ch(t[2 * j - 1]) = 255
    THEN Failed
    ELSE Gives([j \in 1..Len(t) \div 2 |->
                  (hex2ch(t[2 * j - 1]) * 16 + hex2ch(t[2 * j])) % 256])

=============================================================================
