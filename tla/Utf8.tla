-------------------------------- MODULE Utf8 ---------------------------------
(***************************************************************************)
(* The UTF-8 functions of platform/src/uti_string.c.                       *)
(*                                                                         *)
(* mem is the memory from the start of a text on, which does not end where *)
(* the text does; a position in it is a pointer.                           *)
(***************************************************************************)
EXTENDS Integers, Sequences, FiniteSetsExt

(* The two results above every character and every invalid sequence.       *)
Incomplete == 2^30
Error      == 2^30 + 1

MaxCode == 1114111   \* 0x10ffff

(* For a first byte u: how many bytes follow, its bits of the character,   *)
(* and the greatest value that a shorter sequence has.                     *)
Leads(u) == u >= 194
Follow(u) == IF u >= 240 THEN 3 ELSE IF u >= 224 THEN 2 ELSE 1
Bits(u)   == IF u >= 240 THEN u % 8 ELSE IF u >= 224 THEN u % 16 ELSE u % 32

MutShorter(u) == IF u >= 240 THEN 2047 ELSE 127

Shorter(u) == IF u >= 240 THEN 65535 ELSE IF u >= 224 THEN 2047 ELSE 127

(* ngx_utf8_decode at position p with n bytes left: the result and *p.  A  *)
(* following byte is only tested for being 128 or more, and those after    *)
(* one that is not are not read.                                           *)
ngx_utf8_decode(mem, p, n) ==
  LET u == mem[p]
      low(i) == mem[p + i] % 64
      code == CASE Follow(u) = 1 -> Bits(u) * 64 + low(1)
                [] Follow(u) = 2 -> Bits(u) * 4096 + low(1) * 64 + low(2)
                [] Follow(u) = 3 -> Bits(u) * 262144 + low(1) * 4096 + low(2) * 64 + low(3)
      broken == {i \in 1..Follow(u) : mem[p + i] < 128}
  IN  IF ~Leads(u) THEN [code |-> Error, next |-> p + 1]
      ELSE IF n - 1 < Follow(u) THEN [code |-> Incomplete, next |-> p]
      ELSE IF broken # {} THEN [code |-> Error, next |-> p + Min(broken) + 1]
      ELSE [code |-> IF code > Shorter(u) THEN code ELSE Error,
            next |-> p + Follow(u) + 1]

(* The length in characters of the first n bytes; n if they are invalid.   *)
(* Each call of decode is told that n bytes are left.                      *)
ngx_utf8_length(mem, n) ==
  LET count[p \in 1..n + 4] == [len \in Nat |->
        IF p > n THEN len
        ELSE IF mem[p] < 128 THEN count[p + 1][len + 1]
        ELSE LET r == ngx_utf8_decode(mem, p, n) IN
             IF r.code > MaxCode THEN n ELSE count[r.next][len + 1]]
  IN  count[1][0]

(* What ngx_utf8_cpystrn copies of a text of len bytes with a 0 after it,  *)
(* before it writes its own: at most n - 1 characters, whole ones.  It     *)
(* writes nothing if n is 0.                                               *)
ngx_utf8_cpystrn(mem, n, len) ==
  LET copy[p \in 1..len + 1] == [k \in 0..n - 1 |->
        IF k = 0 \/ mem[p] = 0 THEN <<>>
        ELSE IF mem[p] < 128 THEN <<mem[p]>> \o copy[p + 1][k - 1]
        ELSE LET r == ngx_utf8_decode(mem, p, len - p + 1) IN
             IF r.code > MaxCode THEN <<>>
             ELSE SubSeq(mem, p, r.next - 1) \o copy[r.next][k - 1]]
  IN  copy[1][n - 1]

-----------------------------------------------------------------------------
(* What UTF-8 is: the bytes of a character.                                *)
Width(c) == IF c < 128 THEN 1 ELSE IF c < 2048 THEN 2 ELSE IF c < 65536 THEN 3 ELSE 4

Encoded(c) ==
  LET six(d) == 128 + ((c \div d) % 64) IN
  CASE Width(c) = 1 -> <<c>>
    [] Width(c) = 2 -> <<192 + c \div 64, six(1)>>
    [] Width(c) = 3 -> <<224 + c \div 4096, six(64), six(1)>>
    [] Width(c) = 4 -> <<240 + c \div 262144, six(4096), six(64), six(1)>>

=============================================================================
