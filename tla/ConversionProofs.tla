-------------------------- MODULE ConversionProofs ---------------------------
(***************************************************************************)
(* Proofs about Conversions: bytes of any length and value are what they   *)
(* were when they come back from base64 or hexadecimal text, the forms of  *)
(* the time agree but for what zones and summer time make, and a text in   *)
(* UTF-8 of any length is measured, copied and decoded by its characters.  *)
(***************************************************************************)
EXTENDS Conversions, Recursion, FiniteSetTheorems, SequenceTheorems, TLAPS

-----------------------------------------------------------------------------
(* Hexadecimal text.                                                       *)

LEMMA HexDigitRead ==
  ASSUME NEW v \in 0..15
  PROVE  hex2ch(HexDigit(v)) = v
BY DEF hex2ch, HexDigit

LEMMA ByteHalves ==
  ASSUME NEW b \in Byte
  PROVE  /\ b \div 16 \in 0..15
         /\ b % 16 \in 0..15
         /\ ((b \div 16) * 16 + (b % 16)) % 256 = b
<1>1. b \in 0..255
  BY DEF Byte
<1>2. (b \div 16) * 16 + (b % 16) = b
  BY <1>1
<1>3. b \div 16 \in 0..15 /\ b % 16 \in 0..15
  BY <1>1
<1>4. b % 256 = b
  BY <1>1
<1> QED BY <1>2, <1>3, <1>4

LEMMA HexInverse ==
  ASSUME NEW t \in Seq(Byte), str2buf(ngx_hex_dump(t)).ok
  PROVE  str2buf(ngx_hex_dump(t)).out = t
<1> DEFINE h == ngx_hex_dump(t)
           nibble(i) == IF i % 2 = 1 THEN t[(i + 1) \div 2] \div 16
                                     ELSE t[i \div 2] % 16
<1>1. Len(t) \in Nat /\ \A j \in 1..Len(t) : t[j] \in Byte
  OBVIOUS
<1>2. h = [i \in 1..2 * Len(t) |-> HexDigit(nibble(i))]
  BY DEF ngx_hex_dump
<1>3. Len(h) = 2 * Len(t)
  BY <1>1, <1>2
<1>4. Len(h) \div 2 = Len(t)
  BY <1>1, <1>3
<1> HIDE DEF h, nibble
<1>5. str2buf(h).out = [j \in 1..Len(t) |-> (hex2ch(h[2 * j - 1]) * 16 + hex2ch(h[2 * j])) % 256]
  BY <1>4 DEF str2buf, Failed, Gives, h
<1>6. ASSUME NEW j \in 1..Len(t)
      PROVE  (hex2ch(h[2 * j - 1]) * 16 + hex2ch(h[2 * j])) % 256 = t[j]
  <2>1. 2 * j - 1 \in 1..2 * Len(t) /\ 2 * j \in 1..2 * Len(t)
    BY <1>1
  <2>2. /\ (2 * j - 1) % 2 = 1 /\ ((2 * j - 1) + 1) \div 2 = j
        /\ (2 * j) % 2 = 0 /\ (2 * j) \div 2 = j
    BY <1>1
  <2>3. nibble(2 * j - 1) = t[j] \div 16 /\ nibble(2 * j) = t[j] % 16
    BY <2>2 DEF nibble
  <2>4. t[j] \in Byte
    BY <1>1
  <2>5. /\ t[j] \div 16 \in 0..15 /\ t[j] % 16 \in 0..15
        /\ ((t[j] \div 16) * 16 + (t[j] % 16)) % 256 = t[j]
    BY <2>4, ByteHalves
  <2>6. hex2ch(h[2 * j - 1]) = t[j] \div 16 /\ hex2ch(h[2 * j]) = t[j] % 16
    BY <1>2, <2>1, <2>3, <2>5, HexDigitRead
  <2> QED BY <2>5, <2>6
<1>7. t = [j \in 1..Len(t) |-> t[j]]
  OBVIOUS
<1> QED BY <1>5, <1>6, <1>7 DEF h

-----------------------------------------------------------------------------
(* Base64.                                                                 *)

LEMMA BasisRead ==
  ASSUME NEW v \in 0..63, NEW url \in BOOLEAN
  PROVE  /\ v # Invalid
         /\ Basis64(v) # Pad
         /\ Value(Basis64(v), FALSE) = v
         /\ Value(Basis64(v), url) \in {v, Invalid}
<1>1. CASE v \in 0..25
  BY <1>1 DEF Basis64, Value, Pad, Invalid
<1>2. CASE v \in 26..51
  BY <1>2 DEF Basis64, Value, Pad, Invalid
<1>3. CASE v \in 52..61
  BY <1>3 DEF Basis64, Value, Pad, Invalid
<1>4. CASE v = 62
  BY <1>4 DEF Basis64, Value, Pad, Invalid
<1>5. CASE v = 63
  BY <1>5 DEF Basis64, Value, Pad, Invalid
<1>6. v \in 0..25 \/ v \in 26..51 \/ v \in 52..61 \/ v = 62 \/ v = 63
  OBVIOUS
<1> QED BY <1>1, <1>2, <1>3, <1>4, <1>5, <1>6

(* Byte k of group m, with 0 behind the end.                               *)
GroupByte(t, m, k) == IF 3 * m + k \in DOMAIN t THEN t[3 * m + k] ELSE 0

LEMMA GroupByteType ==
  ASSUME NEW t \in Seq(Byte), NEW m \in Nat, NEW k \in 1..3
  PROVE  GroupByte(t, m, k) \in 0..255
<1>1. CASE 3 * m + k \in DOMAIN t
  <2>1. t[3 * m + k] \in Byte
    BY <1>1
  <2> QED BY <1>1, <2>1 DEF GroupByte, Byte
<1>2. CASE 3 * m + k \notin DOMAIN t
  BY <1>2 DEF GroupByte
<1> QED BY <1>1, <1>2

LEMMA SextetOfGroup ==
  ASSUME NEW t, NEW m, NEW i, (i - 1) \div 4 = m
  PROVE  /\ (i - 1) % 4 = 0 => Sextet(t, i) = GroupByte(t, m, 1) \div 4
         /\ (i - 1) % 4 = 1 =>
              Sextet(t, i) = (GroupByte(t, m, 1) % 4) * 16 + GroupByte(t, m, 2) \div 16
         /\ (i - 1) % 4 = 2 =>
              Sextet(t, i) = (GroupByte(t, m, 2) % 16) * 4 + GroupByte(t, m, 3) \div 64
         /\ (i - 1) % 4 = 3 => Sextet(t, i) = GroupByte(t, m, 3) % 64
<1>1. CASE (i - 1) % 4 = 0
  BY <1>1 DEF Sextet, GroupByte
<1>2. CASE (i - 1) % 4 = 1
  BY <1>2 DEF Sextet, GroupByte
<1>3. CASE (i - 1) % 4 = 2
  BY <1>3 DEF Sextet, GroupByte
<1>4. CASE (i - 1) % 4 = 3
  BY <1>4 DEF Sextet, GroupByte
<1> QED BY <1>1, <1>2, <1>3, <1>4

LEMMA SextetsOfGroup ==
  ASSUME NEW t \in Seq(Byte), NEW m \in Nat
  PROVE  /\ Sextet(t, 4 * m + 1) = GroupByte(t, m, 1) \div 4
         /\ Sextet(t, 4 * m + 2) = (GroupByte(t, m, 1) % 4) * 16 + GroupByte(t, m, 2) \div 16
         /\ Sextet(t, 4 * m + 3) = (GroupByte(t, m, 2) % 16) * 4 + GroupByte(t, m, 3) \div 64
         /\ Sextet(t, 4 * m + 4) = GroupByte(t, m, 3) % 64
<1>1. /\ ((4 * m + 1) - 1) \div 4 = m /\ ((4 * m + 1) - 1) % 4 = 0
      /\ ((4 * m + 2) - 1) \div 4 = m /\ ((4 * m + 2) - 1) % 4 = 1
      /\ ((4 * m + 3) - 1) \div 4 = m /\ ((4 * m + 3) - 1) % 4 = 2
      /\ ((4 * m + 4) - 1) \div 4 = m /\ ((4 * m + 4) - 1) % 4 = 3
  OBVIOUS
<1> QED BY <1>1, SextetOfGroup, Zenon

LEMMA SextetType ==
  ASSUME NEW t \in Seq(Byte), NEW i \in Nat \ {0}
  PROVE  Sextet(t, i) \in 0..63
<1> DEFINE m == (i - 1) \div 4
           a == GroupByte(t, m, 1)
           b == GroupByte(t, m, 2)
           c == GroupByte(t, m, 3)
<1>1. /\ m \in Nat
      /\ i = 4 * m + 1 \/ i = 4 * m + 2 \/ i = 4 * m + 3 \/ i = 4 * m + 4
  OBVIOUS
<1> HIDE DEF m
<1>2. a \in 0..255 /\ b \in 0..255 /\ c \in 0..255
  BY <1>1, GroupByteType
<1>3. /\ Sextet(t, 4 * m + 1) = a \div 4
      /\ Sextet(t, 4 * m + 2) = (a % 4) * 16 + b \div 16
      /\ Sextet(t, 4 * m + 3) = (b % 16) * 4 + c \div 64
      /\ Sextet(t, 4 * m + 4) = c % 64
  BY <1>1, SextetsOfGroup
<1> HIDE DEF a, b, c
<1>4. /\ a \div 4 \in 0..63
      /\ (a % 4) * 16 + b \div 16 \in 0..63
      /\ (b % 16) * 4 + c \div 64 \in 0..63
      /\ c % 64 \in 0..63
  BY ONLY <1>2
<1> QED BY <1>1, <1>3, <1>4

(* The number of digits determines the number of bytes.                    *)
LEMMA DigitCounts ==
  ASSUME NEW len \in Nat
  PROVE  /\ Digits(len) \in Nat
         /\ Digits(len) <= 4 * ((len + 2) \div 3)
         /\ (3 * Digits(len)) \div 4 = len
         /\ Digits(len) % 4 # 1
         /\ 4 * ((len + 2) \div 3) \in Nat
BY DEF Digits

(* What an encoded text is made of, and where its digits end.              *)
LEMMA EncodedText ==
  ASSUME NEW t \in Seq(Byte)
  PROVE  LET e == ngx_encode_base64(t) IN
         /\ Unpadded(e) = Digits(Len(t))
         /\ \A i \in 1..Digits(Len(t)) : e[i] = Basis64(Sextet(t, i))
<1> DEFINE n == Len(t)
           e == ngx_encode_base64(t)
           size == 4 * ((n + 2) \div 3)
           D == Digits(n)
<1>1. n \in Nat
  OBVIOUS
<1>2. D \in Nat /\ size \in Nat /\ D <= size
  BY <1>1, DigitCounts
<1>3. e = [i \in 1..size |-> IF i <= D THEN Basis64(Sextet(t, i)) ELSE Pad]
  BY DEF ngx_encode_base64
<1> HIDE DEF n, e, size, D
<1>4. Len(e) = size
  BY <1>2, <1>3
<1>5. \A i \in 1..D : e[i] = Basis64(Sextet(t, i)) /\ e[i] # Pad
  <2> TAKE i \in 1..D
  <2>1. i \in 1..size /\ i <= D /\ i \in Nat \ {0}
    BY <1>2
  <2>2. Sextet(t, i) \in 0..63
    BY <2>1, SextetType
  <2>3. Basis64(Sextet(t, i)) # Pad
    BY <2>2, BasisRead
  <2> QED BY <1>3, <2>1, <2>3
<1>6. D < size => e[D + 1] = Pad
  BY <1>2, <1>3
<1>7. Unpadded(e) = D
  <2> DEFINE End(k) == /\ \A i \in 1..k : e[i] # Pad
                       /\ k = Len(e) \/ e[k + 1] = Pad
  <2>1. D \in 0..Len(e) /\ End(D)
    BY <1>2, <1>4, <1>5, <1>6
  <2>2. ASSUME NEW k \in 0..Len(e), End(k)
        PROVE  k = D
    <3>1. CASE k < D
      <4>1. k + 1 \in 1..D /\ k # Len(e)
        BY <1>2, <1>4, <3>1
      <4> QED BY <1>5, <2>2, <4>1
    <3>2. CASE k > D
      <4>1. D + 1 \in 1..k /\ D < size
        BY <1>2, <1>4, <3>2
      <4> QED BY <1>6, <2>2, <4>1
    <3> QED BY <1>2, <1>4, <3>1, <3>2
  <2>3. Unpadded(e) = CHOOSE k \in 0..Len(e) : End(k)
    BY DEF Unpadded
  <2> HIDE DEF End
  <2> QED BY <2>1, <2>2, <2>3
<1> QED BY <1>5, <1>7 DEF n, e, D

LEMMA Base64Inverse ==
  ASSUME NEW t \in Seq(Byte), NEW url \in BOOLEAN,
         ngx_decode_base64(ngx_encode_base64(t), url).ok
  PROVE  ngx_decode_base64(ngx_encode_base64(t), url).out = t
<1> DEFINE n == Len(t)
           e == ngx_encode_base64(t)
           D == Digits(n)
           v(i) == Value(e[i], url)
<1>1. n \in Nat
  OBVIOUS
<1>2. /\ Unpadded(e) = D
      /\ \A i \in 1..D : e[i] = Basis64(Sextet(t, i))
  BY EncodedText
<1>3. D \in Nat /\ (3 * D) \div 4 = n
  BY <1>1, DigitCounts
<1>4. /\ ngx_decode_base64(e, url).out = [j \in 1..n |-> Octet(e, url, j)]
      /\ \A i \in 1..D : v(i) # Invalid
  BY <1>2, <1>3 DEF ngx_decode_base64, Failed, Gives
<1>5. \A i \in 1..D : v(i) = Sextet(t, i)
  <2> TAKE i \in 1..D
  <2>1. i \in Nat \ {0}
    BY <1>3
  <2>2. Sextet(t, i) \in 0..63
    BY <2>1, SextetType
  <2>3. Value(Basis64(Sextet(t, i)), url) \in {Sextet(t, i), Invalid}
    BY <2>2, BasisRead
  <2> QED BY <1>2, <1>4, <2>3
<1> HIDE DEF v, e
<1>6. ASSUME NEW j \in 1..n
      PROVE  Octet(e, url, j) = t[j]
  <2> DEFINE m == (j - 1) \div 3
             a == GroupByte(t, m, 1)
             b == GroupByte(t, m, 2)
             c == GroupByte(t, m, 3)
  <2>1. m \in Nat /\ j \in {3 * m + 1, 3 * m + 2, 3 * m + 3}
    BY <1>1
  <2>2. (j - 1) \div 3 = m
    OBVIOUS
  <2> HIDE DEF m
  <2>3. a \in 0..255 /\ b \in 0..255 /\ c \in 0..255
    BY <2>1, GroupByteType
  <2>4. /\ Sextet(t, 4 * m + 1) = a \div 4
        /\ Sextet(t, 4 * m + 2) = (a % 4) * 16 + b \div 16
        /\ Sextet(t, 4 * m + 3) = (b % 16) * 4 + c \div 64
        /\ Sextet(t, 4 * m + 4) = c % 64
    BY <2>1, SextetsOfGroup
  <2>5. D = (4 * n + 2) \div 3
    BY DEF Digits
  <2>6. DOMAIN t = 1..n
    OBVIOUS
  <2> HIDE DEF a, b, c
  <2>7. (a \div 4) * 4 + ((a % 4) * 16 + b \div 16) \div 16 = a
    BY ONLY <2>3
  <2>8. (((a % 4) * 16 + b \div 16) % 16) * 16 + ((b % 16) * 4 + c \div 64) \div 4 = b
    BY ONLY <2>3
  <2>9. (((b % 16) * 4 + c \div 64) % 4) * 64 + (c % 64) = c
    BY ONLY <2>3
  <2> USE DEF a, b, c
  <2>10. CASE j = 3 * m + 1
    <3>1. (j - 1) % 3 = 0 /\ 4 * m + 1 \in 1..D /\ 4 * m + 2 \in 1..D
      BY <1>1, <2>1, <2>5, <2>10
    <3>2. a = t[j]
      BY <2>6, <2>10 DEF GroupByte
    <3>3. Octet(e, url, j) = v(4 * m + 1) * 4 + v(4 * m + 2) \div 16
      BY <2>2, <3>1 DEF Octet, v
    <3>4. v(4 * m + 1) = a \div 4 /\ v(4 * m + 2) = (a % 4) * 16 + b \div 16
      BY <1>5, <2>4, <3>1
    <3> QED BY <2>7, <3>2, <3>3, <3>4
  <2>11. CASE j = 3 * m + 2
    <3>1. (j - 1) % 3 = 1 /\ 4 * m + 2 \in 1..D /\ 4 * m + 3 \in 1..D
      BY <1>1, <2>1, <2>5, <2>11
    <3>2. b = t[j]
      BY <2>6, <2>11 DEF GroupByte
    <3>3. Octet(e, url, j) = (v(4 * m + 2) % 16) * 16 + v(4 * m + 3) \div 4
      BY <2>2, <3>1 DEF Octet, v
    <3>4. /\ v(4 * m + 2) = (a % 4) * 16 + b \div 16
          /\ v(4 * m + 3) = (b % 16) * 4 + c \div 64
      BY <1>5, <2>4, <3>1
    <3> QED BY <2>8, <3>2, <3>3, <3>4
  <2>12. CASE j = 3 * m + 3
    <3>1. (j - 1) % 3 = 2 /\ 4 * m + 3 \in 1..D /\ 4 * m + 4 \in 1..D
      BY <1>1, <2>1, <2>5, <2>12
    <3>2. c = t[j]
      BY <2>6, <2>12 DEF GroupByte
    <3>3. Octet(e, url, j) = (v(4 * m + 3) % 4) * 64 + v(4 * m + 4)
      BY <2>2, <3>1 DEF Octet, v
    <3>4. v(4 * m + 3) = (b % 16) * 4 + c \div 64 /\ v(4 * m + 4) = c % 64
      BY <1>5, <2>4, <3>1
    <3> QED BY <2>9, <3>2, <3>3, <3>4
  <2> QED BY <2>1, <2>10, <2>11, <2>12
<1>7. t = [j \in 1..n |-> t[j]]
  OBVIOUS
<1> QED BY <1>4, <1>6, <1>7 DEF e

(* No digit of an encoded text is invalid for the decoder of the same      *)
(* table, and its last group never has just one.                           *)
LEMMA Base64Legal ==
  ASSUME NEW t \in Seq(Byte)
  PROVE  ngx_decode_base64(ngx_encode_base64(t), FALSE).ok
<1> DEFINE e == ngx_encode_base64(t)
           D == Digits(Len(t))
           v(i) == Value(e[i], FALSE)
<1>1. Len(t) \in Nat
  OBVIOUS
<1>2. Unpadded(e) = D /\ D % 4 # 1 /\ D \in Nat
  BY <1>1, EncodedText, DigitCounts
<1>3. \A i \in 1..D : v(i) # Invalid
  <2> TAKE i \in 1..D
  <2>1. i \in Nat \ {0}
    BY <1>2
  <2>2. Sextet(t, i) \in 0..63
    BY <2>1, SextetType
  <2>3. e[i] = Basis64(Sextet(t, i))
    BY EncodedText
  <2>4. v(i) = Sextet(t, i)
    BY <2>2, <2>3, BasisRead
  <2>5. Sextet(t, i) # Invalid
    BY <2>2, BasisRead
  <2> QED BY <2>4, <2>5, Zenon
<1> QED BY <1>2, <1>3 DEF ngx_decode_base64, Gives

(* The decoder gives every byte string that was encoded back              *)
(* (uti_string.c:121-159, :217-259).                                       *)
THEOREM Base64Decodes ==
  ASSUME NEW t \in Seq(Byte)
  PROVE  ngx_decode_base64(ngx_encode_base64(t), FALSE) = Gives(t)
<1> DEFINE r == ngx_decode_base64(ngx_encode_base64(t), FALSE)
<1>1. r.ok /\ r.out = t
  BY Base64Legal, Base64Inverse
<1>2. r = Failed \/ \E o : r = Gives(o)
  BY DEF ngx_decode_base64
<1> HIDE DEF r
<1>3. r = Gives(t)
  BY <1>1, <1>2 DEF Failed, Gives
<1> QED BY <1>3 DEF r

LEMMA HexLegal ==
  ASSUME NEW t \in Seq(Byte), t # <<>>
  PROVE  str2buf(ngx_hex_dump(t)).ok
<1> DEFINE h == ngx_hex_dump(t)
<1>1. Len(t) \in Nat \ {0}
  OBVIOUS
<1>2. Len(h) = 2 * Len(t) /\ Len(h) # 0 /\ Len(h) % 2 = 0 /\ Len(h) \div 2 = Len(t)
  BY <1>1 DEF ngx_hex_dump
<1>3. ASSUME NEW j \in 1..Len(t)
      PROVE  hex2ch(h[2 * j - 1]) # 255
  <2>1. 2 * j - 1 \in 1..2 * Len(t) /\ (2 * j - 1) % 2 = 1 /\ ((2 * j - 1) + 1) \div 2 = j
    BY <1>1
  <2>2. h[2 * j - 1] = HexDigit(t[j] \div 16)
    BY <2>1 DEF ngx_hex_dump
  <2>3. t[j] \div 16 \in 0..15
    BY ByteHalves
  <2> QED BY <2>2, <2>3, HexDigitRead
<1> QED BY <1>2, <1>3 DEF str2buf, Gives

(* The same for hexadecimal text, unless there was nothing to encode       *)
(* (uti_string.c:66-115).                                                  *)
THEOREM HexReads ==
  ASSUME NEW t \in Seq(Byte), t # <<>>
  PROVE  str2buf(ngx_hex_dump(t)) = Gives(t)
<1> DEFINE r == str2buf(ngx_hex_dump(t))
<1>1. r.ok /\ r.out = t
  BY HexLegal, HexInverse
<1>2. r = Failed \/ \E o : r = Gives(o)
  BY DEF str2buf
<1> HIDE DEF r
<1>3. r = Gives(t)
  BY <1>1, <1>2 DEF Failed, Gives
<1> QED BY <1>3 DEF r

-----------------------------------------------------------------------------
(* The program's bytes: until a text is damaged, each form is the one the  *)
(* functions give of the first.                                            *)
BytesInv ==
  form \in {"bytes", "base64", "hex"} /\ Intact =>
    /\ origin \in Seq(Byte)
    /\ form = "bytes" => data = origin
    /\ form = "base64" => data = ngx_encode_base64(origin)
    /\ form = "hex" => data = ngx_hex_dump(origin)

(* Initially.                                                              *)
LEMMA BytesInvInit == Init => BytesInv
BY DataAssumption DEF Init, BytesInv

(* And after each step.                                                    *)
LEMMA BytesInvNext == BytesInv /\ [Next]_vars => BytesInv'
<1> SUFFICES ASSUME BytesInv, [Next]_vars
             PROVE  BytesInv'
  OBVIOUS
<1>1. CASE EncodeBase64
  BY <1>1 DEF BytesInv, EncodeBase64, Convert, Intact
<1>2. ASSUME NEW url \in BOOLEAN, DecodeBase64(url)
      PROVE  BytesInv'
  <2>1. /\ form = "base64" /\ form' = "bytes" /\ origin' = origin /\ used' = used
        /\ ngx_decode_base64(data, url).ok
        /\ data' = ngx_decode_base64(data, url).out
    BY <1>2 DEF DecodeBase64, Convert
  <2>2. Intact => origin \in Seq(Byte) /\ data = ngx_encode_base64(origin)
    BY <2>1 DEF BytesInv
  <2> QED BY <2>1, <2>2, Base64Inverse DEF BytesInv, Intact
<1>3. CASE HexDump
  BY <1>3 DEF BytesInv, HexDump, Convert, Intact
<1>4. CASE ReadHex
  <2>1. /\ form = "hex" /\ form' = "bytes" /\ origin' = origin /\ used' = used
        /\ str2buf(data).ok
        /\ data' = str2buf(data).out
    BY <1>4 DEF ReadHex, Convert
  <2>2. Intact => origin \in Seq(Byte) /\ data = ngx_hex_dump(origin)
    BY <2>1 DEF BytesInv
  <2> QED BY <2>1, <2>2, HexInverse DEF BytesInv, Intact
<1>5. CASE GetTimeS
  BY <1>5 DEF BytesInv, GetTimeS, Convert
<1>6. CASE GetTimeT
  BY <1>6 DEF BytesInv, GetTimeT, Convert
<1>7. CASE ConvertTimeS
  BY <1>7 DEF BytesInv, ConvertTimeS, Convert
<1>8. CASE ConvertTimeT
  BY <1>8 DEF BytesInv, ConvertTimeT, Convert
<1>9. CASE Damage
  BY <1>9 DEF BytesInv, Damage, Intact
<1>10. CASE UNCHANGED vars
  BY <1>10 DEF BytesInv, Intact, vars
<1> QED BY <1>1, <1>2, <1>3, <1>4, <1>5, <1>6, <1>7, <1>8, <1>9, <1>10 DEF Next

(* Bytes come back from base64 and from hexadecimal text as they were,     *)
(* whatever their number and values, and always come back.                 *)
THEOREM BytesAreKept == Spec => []BytesKept
<1>1. BytesInv => BytesKept
  BY Base64Decodes, HexReads DEF BytesInv, BytesKept
<1> QED BY <1>1, BytesInvInit, BytesInvNext, PTL DEF Spec

-----------------------------------------------------------------------------
(* The program's times.  The data of each form has the fields of that form *)
(* and agrees with the clock.                                              *)
TimeInv ==
  form \in {"now", "time_s", "time_t"} =>
    /\ origin \in Int \X (0..Second - 1)
    /\ zone \in [offset : Int, west : Int, saving : SUBSET Int]
    /\ form = "now" => data = origin /\ ~Converted
    /\ form = "time_s" => data[1] \in Int
    /\ form = "time_t" => data[1] \in Int /\ data[2] \in Int
    /\ TimesAgree

LEMMA TimeInvInit == Init => TimeInv
BY DataAssumption DEF Init, TimeInv, TimesAgree, Converted

(* What remains of a time after C's division is less than a second, and    *)
(* has the sign of the time.                                               *)
LEMMA Rounded ==
  ASSUME NEW v \in Int
  PROVE  /\ Quotient(v) \in Int
         /\ \/ v - Quotient(v) * Second \in 0..Second - 1
            \/ Quotient(v) <= 0 /\ v - Quotient(v) * Second \in 1 - Second..-1
<1>1. ASSUME NEW n \in Nat
      PROVE  n \div Second \in Nat /\ n - (n \div Second) * Second \in 0..Second - 1
  BY SecondAssumption
<1>2. CASE v >= 0
  <2>1. v \in Nat /\ Quotient(v) = v \div Second
    BY <1>2 DEF Quotient
  <2> QED BY <1>1, <2>1
<1>3. CASE ~(v >= 0)
  <2> DEFINE q == (-v) \div Second
             m == q * Second
  <2>1. -v \in Nat /\ Quotient(v) = -q
    BY <1>3 DEF Quotient
  <2>2. q \in Nat /\ -v - m \in 0..Second - 1
    BY <1>1, <2>1
  <2>3. m \in Int /\ (-q) * Second = -m
    BY <2>2, SecondAssumption
  <2> HIDE DEF q, m
  <2>4. v - (-m) \in 1 - Second..0
    BY <2>2, <2>3, SecondAssumption
  <2>5. v - Quotient(v) * Second \in 1 - Second..0 /\ Quotient(v) \in Int /\ Quotient(v) <= 0
    BY <2>1, <2>2, <2>3, <2>4
  <2>6. v - Quotient(v) * Second = 0 => v - Quotient(v) * Second \in 0..Second - 1
    BY SecondAssumption
  <2> QED BY <2>5, <2>6, SecondAssumption
<1> QED BY <1>2, <1>3

(* uti_convert_time_s takes the C library's zone and what it takes for     *)
(* summer time off, and tz_minuteswest on, whatever was there before.      *)
LEMMA ConvertTimeSAgrees == TimeInv /\ ConvertTimeS => TimesAgree' /\ data'[1] \in Int
<1> SUFFICES ASSUME TimeInv, ConvertTimeS
             PROVE  TimesAgree' /\ data'[1] \in Int
  OBVIOUS
<1> DEFINE o == origin[1]
           u == origin[2]
           z == zone.offset
           w == 60 * zone.west
           x == data[1]
           f == data[2]
           shift == IF Converted THEN -w - z ELSE 0
<1>1. PICK c \in zone.saving :
        /\ form = "time_t" /\ form' = "time_s" /\ origin' = origin /\ zone' = zone
        /\ used' = used /\ data' = <<uti_convert_time_s(zone, c, data)>>
  BY DEF ConvertTimeS, Convert
<1>2. /\ o \in Int /\ u \in Int /\ x \in Int /\ f \in Int
      /\ zone.west \in Int /\ z \in Int /\ zone.saving \subseteq Int /\ c \in Int
  BY <1>1 DEF TimeInv
<1>3. w \in Int /\ zone.west * 60 = w /\ -60 * zone.west = -w /\ shift \in Int
  BY <1>2
<1>4. PICK error \in SummerErrors : x * Second + f = (o + ((z + shift) + error)) * Second + u
  <2>1. PICK error \in SummerErrors :
          data[1] * Second + data[2]
            = ((origin[1]
                  + (zone.offset + (IF Converted THEN -60 * zone.west - zone.offset ELSE 0)))
                 + error) * Second + origin[2]
    BY <1>1 DEF TimeInv, TimesAgree
  <2>2. error \in Int
    BY <1>1, <1>2 DEF SummerErrors
  <2>3. (o + (z + shift)) + error = o + ((z + shift) + error)
    BY <1>2, <1>3, <2>2
  <2> QED BY <1>3, <2>1, <2>3
<1>5. error \in Int
  BY <1>1, <1>2 DEF SummerErrors
<1>6. error - c \in SummerErrors' /\ Converted' = Converted
  <2>1. CASE Converted
    <3>1. PICK a \in zone.saving \cup {0}, b \in zone.saving \cup {0} : error = a - b
      BY <1>1, <1>4, <2>1 DEF SummerErrors
    <3>2. SummerErrors' = {aa - bb - cc : aa, bb, cc \in zone.saving \cup {0}}
      BY <1>1, <2>1 DEF SummerErrors, Converted
    <3> QED BY <1>1, <3>1, <3>2 DEF Converted
  <2>2. CASE ~Converted
    <3>1. error \in zone.saving \cup {0}
      BY <1>1, <1>4, <2>2 DEF SummerErrors
    <3>2. SummerErrors' = {aa - bb : aa, bb \in zone.saving \cup {0}}
      BY <1>1, <2>2 DEF SummerErrors, Converted
    <3> QED BY <1>1, <3>1, <3>2 DEF Converted
  <2> QED BY <2>1, <2>2
<1>7. data'[1] = (x - z - c - w) * Second + f
  BY <1>1, <1>3 DEF uti_convert_time_s, West
<1> HIDE DEF o, u, z, w, x, f, shift
<1>8. (x - z - c - w) * Second + f = ((o + (-w + shift)) + (error - c)) * Second + u
  <2> DEFINE y == o + ((z + shift) + error)
             k == 0 - z - c - w
  <2>1. y \in Int /\ k \in Int
    BY <1>2, <1>3, <1>5
  <2>2. x + k = x - z - c - w /\ y + k = (o + (-w + shift)) + (error - c)
    BY <1>2, <1>3, <1>5
  <2>3. x * Second + f = y * Second + u
    BY <1>4
  <2> HIDE DEF y, k
  <2>4. (x + k) * Second + f = (y + k) * Second + u
    <3> DEFINE X == x * Second
               Y == y * Second
               K == k * Second
    <3>1. X \in Int /\ Y \in Int /\ K \in Int
      BY <1>2, <2>1, SecondAssumption
    <3>2. (x + k) * Second = X + K /\ (y + k) * Second = Y + K
      BY <1>2, <2>1, SecondAssumption
    <3>3. X + f = Y + u
      BY <2>3
    <3> HIDE DEF X, Y, K
    <3> QED BY <1>2, <3>1, <3>2, <3>3
  <2> QED BY <2>2, <2>4
<1>9. data'[1] \in Int
  BY <1>2, <1>3, <1>7, SecondAssumption
<1> USE DEF o, u, z, w, shift
<1>10. data'[1] = ((origin[1]
                      + (-60 * zone.west
                           + (IF Converted THEN -60 * zone.west - zone.offset ELSE 0)))
                     + (error - c)) * Second + origin[2]
  <2>1. shift = IF Converted THEN -60 * zone.west - zone.offset ELSE 0
    BY <1>3
  <2> QED BY <1>3, <1>7, <1>8, <2>1
<1> QED BY <1>1, <1>6, <1>9, <1>10 DEF TimesAgree

(* uti_convert_time_t gives a time that reads as tz_minuteswest has it.    *)
LEMMA ConvertTimeTAgrees ==
  TimeInv /\ ConvertTimeT => TimesAgree' /\ data'[1] \in Int /\ data'[2] \in Int
<1> SUFFICES ASSUME TimeInv, ConvertTimeT
             PROVE  TimesAgree' /\ data'[1] \in Int /\ data'[2] \in Int
  OBVIOUS
<1> DEFINE v == data[1]
           q == Quotient(v)
<1>1. /\ form = "time_s" /\ form' = "time_t" /\ origin' = origin /\ zone' = zone
      /\ ~Converted /\ Converted'
      /\ data' = <<q, v - q * Second>>
  BY DEF ConvertTimeT, Convert, Converted, uti_convert_time_t
<1>2. /\ origin[1] \in Int /\ origin[2] \in Int /\ v \in Int
      /\ zone.west \in Int /\ zone.offset \in Int /\ zone.saving \subseteq Int
  BY <1>1 DEF TimeInv
<1>3. /\ q \in Int
      /\ \/ v - q * Second \in 0..Second - 1
         \/ q <= 0 /\ v - q * Second \in 1 - Second..-1
  BY <1>2, Rounded
<1>4. PICK error \in SummerErrors :
        v = ((origin[1] + (-60 * zone.west + 0)) + error) * Second + origin[2]
  BY <1>1 DEF TimeInv, TimesAgree
<1>5. error \in SummerErrors'
  BY <1>1, <1>4 DEF SummerErrors
<1>6. -60 * zone.west + 0 = zone.offset + (-60 * zone.west - zone.offset)
  BY <1>2
<1> HIDE DEF v, q
<1>7. data'[1] = q /\ data'[2] = v - q * Second
  BY <1>1
<1>8. data'[1] * Second + data'[2] = v /\ data'[2] \in Int
  <2> DEFINE m == q * Second
  <2>1. m \in Int
    BY <1>3, SecondAssumption
  <2>2. data'[1] * Second = m /\ data'[2] = v - m
    BY <1>7
  <2> HIDE DEF m
  <2> QED BY <1>2, <2>1, <2>2 DEF v
<1>9. data'[1] * Second + data'[2]
        = ((origin[1] + (zone.offset + (-60 * zone.west - zone.offset))) + error) * Second
            + origin[2]
  BY <1>4, <1>6, <1>8
<1> QED BY <1>1, <1>3, <1>5, <1>7, <1>8, <1>9 DEF TimesAgree

LEMMA TimeInvNext == TimeInv /\ [Next]_vars => TimeInv'
<1> SUFFICES ASSUME TimeInv, [Next]_vars
             PROVE  TimeInv'
  OBVIOUS
<1>0. Second \in Int
  BY SecondAssumption
<1>1. CASE EncodeBase64
  BY <1>1 DEF TimeInv, EncodeBase64, Convert
<1>2. ASSUME NEW url \in BOOLEAN, DecodeBase64(url)
      PROVE  TimeInv'
  BY <1>2 DEF TimeInv, DecodeBase64, Convert
<1>3. CASE HexDump
  BY <1>3 DEF TimeInv, HexDump, Convert
<1>4. CASE ReadHex
  BY <1>4 DEF TimeInv, ReadHex, Convert
<1>5. CASE GetTimeS
  <2>1. /\ form = "now" /\ form' = "time_s" /\ origin' = origin /\ zone' = zone
        /\ ~Converted' /\ data' = <<uti_get_time_s(zone, data)>>
    BY <1>5 DEF GetTimeS, Convert, Converted, TimeInv
  <2>2. /\ origin[1] \in Int /\ origin[2] \in Int /\ data = origin
        /\ zone.west \in Int /\ zone.offset \in Int /\ zone.saving \subseteq Int
    BY <2>1 DEF TimeInv
  <2>3. data'[1] = (origin[1] - zone.west * 60) * Second + origin[2]
    BY <2>1, <2>2 DEF uti_get_time_s, West
  <2>4. origin[1] - zone.west * 60 = (origin[1] + (-60 * zone.west + 0)) + 0
    BY <2>2
  <2>5. 0 \in SummerErrors'
    <3>1. SummerErrors' = {a - b : a, b \in zone.saving \cup {0}}
      BY <2>1 DEF SummerErrors
    <3>2. 0 \in zone.saving \cup {0} /\ 0 - 0 = 0
      OBVIOUS
    <3>3. 0 - 0 \in SummerErrors'
      BY <3>1, <3>2
    <3> QED BY <3>2, <3>3
  <2>6. TimesAgree'
    BY <2>1, <2>3, <2>4, <2>5 DEF TimesAgree
  <2>7. data'[1] \in Int
    BY <1>0, <2>2, <2>3
  <2> QED BY <2>1, <2>6, <2>7 DEF TimeInv
<1>6. CASE GetTimeT
  <2>1. PICK saving \in zone.saving :
          /\ form = "now" /\ form' = "time_t" /\ origin' = origin /\ zone' = zone
          /\ ~Converted' /\ data' = uti_get_time_t(zone, saving, data)
    BY <1>6 DEF GetTimeT, Convert, Converted, TimeInv
  <2>2. /\ origin[1] \in Int /\ origin[2] \in 0..Second - 1 /\ data = origin
        /\ zone.west \in Int /\ zone.offset \in Int /\ saving \in Int
    BY <2>1 DEF TimeInv
  <2>3. data'[1] = (origin[1] + (zone.offset + 0)) + saving /\ data'[2] = origin[2]
    BY <2>1, <2>2 DEF uti_get_time_t
  <2>4. saving \in SummerErrors'
    BY <2>1 DEF SummerErrors
  <2>5. TimesAgree'
    BY <2>1, <2>2, <2>3, <2>4 DEF TimesAgree
  <2>6. data'[1] \in Int /\ data'[2] \in Int
    BY <1>0, <2>2, <2>3
  <2> QED BY <2>1, <2>5, <2>6 DEF TimeInv
<1>7. CASE ConvertTimeS
  <2>1. form = "time_t" /\ form' = "time_s" /\ origin' = origin /\ zone' = zone
    BY <1>7 DEF ConvertTimeS, Convert
  <2> QED BY <1>7, <2>1, ConvertTimeSAgrees DEF TimeInv
<1>8. CASE ConvertTimeT
  <2>1. form = "time_s" /\ form' = "time_t" /\ origin' = origin /\ zone' = zone
    BY <1>8 DEF ConvertTimeT, Convert
  <2> QED BY <1>8, <2>1, ConvertTimeTAgrees DEF TimeInv
<1>9. CASE Damage
  BY <1>9 DEF TimeInv, Damage
<1>10. CASE UNCHANGED vars
  BY <1>10 DEF TimeInv, TimesAgree, SummerErrors, Converted, vars
<1> QED BY <1>1, <1>2, <1>3, <1>4, <1>5, <1>6, <1>7, <1>8, <1>9, <1>10 DEF Next

(* For every time, zone and unit of the clock, also before the epoch, with *)
(* summer time and where the two zones differ: the two forms of the time   *)
(* are apart by what the zones and summer time make, and by nothing else   *)
(* (uti_time.c:60, :82-85, :111, :133-137).                                *)
THEOREM TimesAlwaysAgree == Spec => []TimesAgree
<1>1. TimeInv => TimesAgree
  BY DEF TimeInv, TimesAgree
<1> QED BY <1>1, TimeInvInit, TimeInvNext, PTL DEF Spec

-----------------------------------------------------------------------------
(* The memory from p on has the bytes of c.                                *)
HasBytes(mem, p, c) == \A i \in 1..Width(c) : mem[p + i - 1] = Encoded(c)[i]

(* Every character of two to four bytes, in whatever memory its bytes are  *)
(* and whatever follows them, is decoded to its code, and the pointer is   *)
(* moved to the byte behind it (uti_string.c:271-325).                     *)
THEOREM DecodesCharacter ==
  ASSUME NEW mem, NEW p \in Nat, NEW n \in Nat, NEW c \in Nat,
         128 <= c, c <= MaxCode, Width(c) <= n,
         HasBytes(mem, p, c)
  PROVE  /\ ngx_utf8_decode(mem, p, n).code = c
         /\ ngx_utf8_decode(mem, p, n).next = p + Width(c)
<1>0. c \in Int /\ 128 <= c /\ c <= 1114111
  BY SMT DEF MaxCode
<1> DEFINE six(d) == 128 + ((c \div d) % 64)
<1>1. CASE c < 2048
  <2>1. Width(c) = 2
    BY <1>0, <1>1, SMT DEF Width
  <2>2. mem[p] = 192 + c \div 64 /\ mem[p + 1] = six(1)
    BY <2>1, SMT DEF HasBytes, Encoded
  <2>3. mem[p] \in 194..223
    BY <1>0, <1>1, <2>2, SMT
  <2>4. Leads(mem[p]) /\ Follow(mem[p]) = 1 /\ Shorter(mem[p]) = 127
        /\ Bits(mem[p]) = c \div 64
    BY <1>0, <1>1, <2>2, <2>3, SMT DEF Leads, Follow, Shorter, Bits
  <2>5. mem[p + 1] \in Int /\ mem[p + 1] >= 128 /\ mem[p + 1] % 64 = c % 64
    BY <1>0, <2>2, SMT
  <2>6. (c \div 64) * 64 + (c % 64) = c
    BY <1>0, SMT
  <2>7. ~(n - 1 < Follow(mem[p])) /\ \A i \in 1..Follow(mem[p]) : ~(mem[p + i] < 128)
    BY <2>1, <2>4, <2>5, SMT
  <2> QED BY <1>0, <2>1, <2>4, <2>5, <2>6, <2>7, SMT DEF ngx_utf8_decode
<1>2. CASE 2048 <= c /\ c < 65536
  <2>1. Width(c) = 3
    BY <1>0, <1>2, SMT DEF Width
  <2>2. mem[p] = 224 + c \div 4096 /\ mem[p + 1] = six(64) /\ mem[p + 2] = six(1)
    BY <2>1, SMT DEF HasBytes, Encoded
  <2>3. mem[p] \in 224..239
    BY <1>0, <1>2, <2>2, SMT
  <2>4. Leads(mem[p]) /\ Follow(mem[p]) = 2 /\ Shorter(mem[p]) = 2047
        /\ Bits(mem[p]) = c \div 4096
    BY <1>0, <1>2, <2>2, <2>3, SMT DEF Leads, Follow, Shorter, Bits
  <2>5. /\ mem[p + 1] \in Int /\ mem[p + 1] >= 128 /\ mem[p + 1] % 64 = (c \div 64) % 64
        /\ mem[p + 2] \in Int /\ mem[p + 2] >= 128 /\ mem[p + 2] % 64 = c % 64
    BY <1>0, <2>2, SMT
  <2>6. (c \div 4096) * 4096 + ((c \div 64) % 64) * 64 + (c % 64) = c
    BY <1>0, SMT
  <2>7. ~(n - 1 < Follow(mem[p])) /\ \A i \in 1..Follow(mem[p]) : ~(mem[p + i] < 128)
    BY <2>1, <2>4, <2>5, SMT
  <2> QED BY <1>0, <1>2, <2>1, <2>4, <2>5, <2>6, <2>7, SMT DEF ngx_utf8_decode
<1>3. CASE 65536 <= c
  <2>1. Width(c) = 4
    BY <1>0, <1>3, SMT DEF Width
  <2>2. /\ mem[p] = 240 + c \div 262144 /\ mem[p + 1] = six(4096)
        /\ mem[p + 2] = six(64) /\ mem[p + 3] = six(1)
    BY <2>1, SMT DEF HasBytes, Encoded
  <2>3. mem[p] \in 240..244
    BY <1>0, <1>3, <2>2, SMT
  <2>4. Leads(mem[p]) /\ Follow(mem[p]) = 3 /\ Shorter(mem[p]) = 65535
        /\ Bits(mem[p]) = c \div 262144
    BY <1>0, <1>3, <2>2, <2>3, SMT DEF Leads, Follow, Shorter, Bits
  <2>5. /\ mem[p + 1] \in Int /\ mem[p + 1] >= 128 /\ mem[p + 1] % 64 = (c \div 4096) % 64
        /\ mem[p + 2] \in Int /\ mem[p + 2] >= 128 /\ mem[p + 2] % 64 = (c \div 64) % 64
        /\ mem[p + 3] \in Int /\ mem[p + 3] >= 128 /\ mem[p + 3] % 64 = c % 64
    BY <1>0, <2>2, SMT
  <2>6. (c \div 262144) * 262144 + ((c \div 4096) % 64) * 4096 + ((c \div 64) % 64) * 64
          + (c % 64) = c
    BY <1>0, SMT
  <2>7. ~(n - 1 < Follow(mem[p])) /\ \A i \in 1..Follow(mem[p]) : ~(mem[p + i] < 128)
    BY <2>1, <2>4, <2>5, SMT
  <2> QED BY <1>0, <1>3, <2>1, <2>4, <2>5, <2>6, <2>7, SMT DEF ngx_utf8_decode
<1> QED BY <1>0, <1>1, <1>2, <1>3, SMT

-----------------------------------------------------------------------------
(* Bytes that are decoded, whatever they are.                              *)

Broken(mem, p) == {i \in 1..Follow(mem[p]) : mem[p + i] < 128}

LEMMA FollowType == \A u : Follow(u) \in {1, 2, 3}
BY DEF Follow

LEMMA TwoByteCode ==
  ASSUME NEW u \in 194..255, Follow(u) = 1, NEW a \in 0..63,
         NEW code, code = Bits(u) * 64 + a, code > Shorter(u)
  PROVE  code >= 128 /\ Width(code) = 2
<1>1. u < 224
  BY DEF Follow
<1>2. Shorter(u) = 127 /\ Bits(u) = u % 32
  BY <1>1 DEF Shorter, Bits
<1>3. u % 32 \in 0..31
  BY ONLY u \in 194..255
<1>4. code > 127 /\ code < 2048 /\ code \in Nat
  BY <1>2, <1>3
<1> QED BY <1>4 DEF Width

ThreeBytes(u, a, b) == Bits(u) * 4096 + a * 64 + b

LEMMA ThreeByteCode ==
  ASSUME NEW u \in 194..255, Follow(u) = 2, NEW a \in 0..63, NEW b \in 0..63,
         ThreeBytes(u, a, b) > Shorter(u)
  PROVE  ThreeBytes(u, a, b) >= 128 /\ Width(ThreeBytes(u, a, b)) = 3
<1>1. u >= 224 /\ u < 240
  BY DEF Follow
<1>2. Shorter(u) = 2047 /\ Bits(u) = u % 16
  BY <1>1 DEF Shorter, Bits
<1>3. u % 16 \in 0..15
  BY ONLY u \in 194..255
<1>4. PICK code : code = ThreeBytes(u, a, b)
  OBVIOUS
<1>5. code > 2047 /\ code < 65536 /\ code \in Nat
  BY <1>2, <1>3, <1>4 DEF ThreeBytes
<1> QED BY <1>4, <1>5 DEF Width

LEMMA FourByteCode ==
  ASSUME NEW u \in 194..255, Follow(u) = 3, NEW code \in Nat, code > Shorter(u)
  PROVE  code >= 128 /\ Width(code) = 4
<1>1. u >= 240
  BY DEF Follow
<1>2. Shorter(u) = 65535
  BY <1>1 DEF Shorter
<1> QED BY <1>2 DEF Width

LEMMA DecodedNext ==
  ASSUME NEW mem, NEW p, NEW n, ~(ngx_utf8_decode(mem, p, n).code > MaxCode)
  PROVE  /\ ngx_utf8_decode(mem, p, n).next = p + Follow(mem[p]) + 1
         /\ ~(n - 1 < Follow(mem[p]))
<1> DEFINE r == ngx_utf8_decode(mem, p, n)
<1>1. Error > MaxCode /\ Incomplete > MaxCode
  BY DEF Error, Incomplete, MaxCode
<1>2. r.code # Error /\ r.code # Incomplete
  BY <1>1
<1>3. Leads(mem[p])
  BY <1>2 DEF ngx_utf8_decode
<1>4. ~(n - 1 < Follow(mem[p]))
  BY <1>2, <1>3 DEF ngx_utf8_decode
<1>5. Broken(mem, p) = {}
  BY <1>2, <1>3, <1>4 DEF ngx_utf8_decode, Broken
<1>6. r.next = p + Follow(mem[p]) + 1
  BY <1>3, <1>4, <1>5 DEF ngx_utf8_decode, Broken
<1> QED BY <1>4, <1>6

HasCode(mem, p, code) ==
  /\ Follow(mem[p]) = 1 => code = Bits(mem[p]) * 64 + (mem[p + 1] % 64)
  /\ Follow(mem[p]) = 2 => code = Bits(mem[p]) * 4096 + (mem[p + 1] % 64) * 64 + (mem[p + 2] % 64)
  /\ Follow(mem[p]) = 3 => code = Bits(mem[p]) * 262144 + (mem[p + 1] % 64) * 4096
                                    + (mem[p + 2] % 64) * 64 + (mem[p + 3] % 64)

WholeDecoded(mem, p, n) ==
  \E code : /\ ngx_utf8_decode(mem, p, n).code = IF code > Shorter(mem[p]) THEN code ELSE Error
            /\ ngx_utf8_decode(mem, p, n).next = p + Follow(mem[p]) + 1
            /\ HasCode(mem, p, code)

LEMMA DecodesWhole ==
  ASSUME NEW mem, NEW p, NEW n,
         Leads(mem[p]), ~(n - 1 < Follow(mem[p])), Broken(mem, p) = {}
  PROVE  WholeDecoded(mem, p, n)
<1>1. \A i \in 1..Follow(mem[p]) : ~(mem[p + i] < 128)
  BY DEF Broken
<1>2. ngx_utf8_decode(mem, p, n).next = p + Follow(mem[p]) + 1
  BY DEF ngx_utf8_decode, Broken
<1>3. CASE Follow(mem[p]) = 1
  <2>1. PICK code : code = Bits(mem[p]) * 64 + (mem[p + 1] % 64)
    OBVIOUS
  <2>2. HasCode(mem, p, code)
    BY <1>3, <2>1 DEF HasCode
  <2>3. ngx_utf8_decode(mem, p, n).code = IF code > Shorter(mem[p]) THEN code ELSE Error
    BY <1>1, <1>3, <2>1, SMT DEF ngx_utf8_decode
  <2> QED BY <1>2, <2>2, <2>3 DEF WholeDecoded
<1>4. CASE Follow(mem[p]) = 2
  <2>1. PICK code : code = Bits(mem[p]) * 4096 + (mem[p + 1] % 64) * 64 + (mem[p + 2] % 64)
    OBVIOUS
  <2>2. HasCode(mem, p, code)
    BY <1>4, <2>1 DEF HasCode
  <2>3. ngx_utf8_decode(mem, p, n).code = IF code > Shorter(mem[p]) THEN code ELSE Error
    BY <1>1, <1>4, <2>1, SMT DEF ngx_utf8_decode
  <2> QED BY <1>2, <2>2, <2>3 DEF WholeDecoded
<1>5. CASE Follow(mem[p]) = 3
  <2>1. PICK code : code = Bits(mem[p]) * 262144 + (mem[p + 1] % 64) * 4096
                           + (mem[p + 2] % 64) * 64 + (mem[p + 3] % 64)
    OBVIOUS
  <2>2. HasCode(mem, p, code)
    BY <1>5, <2>1 DEF HasCode
  <2>3. ngx_utf8_decode(mem, p, n).code = IF code > Shorter(mem[p]) THEN code ELSE Error
    BY <1>1, <1>5, <2>1, SMT DEF ngx_utf8_decode
  <2> QED BY <1>2, <2>2, <2>3 DEF WholeDecoded
<1> QED BY <1>3, <1>4, <1>5, FollowType

LEMMA DecodeBounds ==
  ASSUME NEW mem, NEW p \in Nat \ {0}, NEW n \in Nat \ {0},
         \A i \in 0..n - 1 : mem[p + i] \in Byte, mem[p] >= 128
  PROVE  LET r == ngx_utf8_decode(mem, p, n) IN
         /\ r.next \in p..p + n
         /\ r.code <= MaxCode => r.code >= 128 /\ r.next = p + Width(r.code)
<1> DEFINE r == ngx_utf8_decode(mem, p, n)
           u == mem[p]
           k == Follow(u)
<1>1. Error > MaxCode /\ Incomplete > MaxCode /\ Error \in Nat /\ Incomplete \in Nat /\ MaxCode \in Nat
  BY DEF Error, Incomplete, MaxCode
<1>2. u \in Byte /\ k \in {1, 2, 3}
  <2>1. 0 \in 0..n - 1 /\ p + 0 = p
    OBVIOUS
  <2> QED BY <2>1, FollowType
<1>3. CASE ~Leads(u)
  <2>1. r = [code |-> Error, next |-> p + 1]
    BY <1>3 DEF ngx_utf8_decode
  <2> QED BY <1>1, <2>1
<1>4. CASE Leads(u) /\ n - 1 < k
  <2>1. r = [code |-> Incomplete, next |-> p]
    BY <1>4 DEF ngx_utf8_decode
  <2> QED BY <1>1, <2>1
<1>5. CASE Leads(u) /\ ~(n - 1 < k) /\ Broken(mem, p) # {}
  <2>1. r = [code |-> Error, next |-> p + Min(Broken(mem, p)) + 1]
    BY <1>5 DEF ngx_utf8_decode, Broken
  <2>2. Min(Broken(mem, p)) \in 1..k
    <3>1. Broken(mem, p) \in SUBSET Nat /\ Broken(mem, p) \subseteq 1..k
      BY DEF Broken
    <3>2. \E x \in Broken(mem, p) : \A y \in Broken(mem, p) : x <= y
      BY <1>5, <3>1, LeastIs
    <3>3. Min(Broken(mem, p)) \in Broken(mem, p)
      BY <3>2 DEF Min
    <3> QED BY <3>1, <3>3
  <2>3. p + Min(Broken(mem, p)) + 1 \in p..p + n
    <3> HIDE DEF k
    <3> QED BY <1>2, <1>5, <2>2
  <2> QED BY <1>1, <2>1, <2>3
<1>6. CASE Leads(u) /\ ~(n - 1 < k) /\ Broken(mem, p) = {}
  <2>1. PICK code : /\ r.code = IF code > Shorter(u) THEN code ELSE Error
                    /\ r.next = p + k + 1
                    /\ HasCode(mem, p, code)
    BY <1>6, DecodesWhole DEF WholeDecoded
  <2>2. p + k + 1 \in p..p + n
    <3> HIDE DEF k
    <3> QED BY <1>2, <1>6
  <2>3. u \in 194..255 /\ Bits(u) \in Nat
    <3>1. u \in 194..255
      BY <1>2, <1>6 DEF Leads, Byte
    <3> QED BY <3>1 DEF Bits
  <2>4. \A i \in 1..k : mem[p + i] % 64 \in 0..63
    <3> TAKE i \in 1..k
    <3>1. i \in 0..n - 1
      <4> HIDE DEF k
      <4> QED BY <1>2, <1>6
    <3>2. mem[p + i] \in 0..255
      BY <3>1 DEF Byte
    <3> QED BY <3>2
  <2> DEFINE l1 == mem[p + 1] % 64
             l2 == mem[p + 2] % 64
             l3 == mem[p + 3] % 64
  <2>5. ASSUME code > Shorter(u)
        PROVE  code >= 128 /\ Width(code) = k + 1
    <3>1. CASE k = 1
      <4>1. code = Bits(u) * 64 + l1 /\ l1 \in 0..63 /\ Follow(u) = 1
        BY <2>1, <2>4, <3>1 DEF HasCode
      <4> HIDE DEF k, u, l1
      <4>2. code >= 128 /\ Width(code) = 2
        BY ONLY <2>3, <2>5, <4>1, TwoByteCode
      <4> QED BY <3>1, <4>2
    <3>2. CASE k = 2
      <4>1. code = ThreeBytes(u, l1, l2) /\ l1 \in 0..63 /\ l2 \in 0..63 /\ Follow(u) = 2
        BY <2>1, <2>4, <3>2 DEF HasCode, ThreeBytes
      <4> HIDE DEF k, u, l1, l2
      <4>2. code >= 128 /\ Width(code) = 3
        BY <2>3, <2>5, <4>1, ThreeByteCode
      <4> QED BY <3>2, <4>2
    <3>3. CASE k = 3
      <4>1. /\ code = Bits(u) * 262144 + l1 * 4096 + l2 * 64 + l3
            /\ l1 \in 0..63 /\ l2 \in 0..63 /\ l3 \in 0..63 /\ Follow(u) = 3
        BY <2>1, <2>4, <3>3 DEF HasCode
      <4> HIDE DEF l1, l2, l3
      <4>2. code \in Nat
        BY <2>3, <4>1
      <4> HIDE DEF k, u
      <4>3. code >= 128 /\ Width(code) = 4
        BY ONLY <2>3, <2>5, <4>1, <4>2, FourByteCode
      <4> QED BY <3>3, <4>3
    <3> QED BY <1>2, <3>1, <3>2, <3>3
  <2> HIDE DEF k
  <2>6. CASE code > Shorter(u)
    <3>1. r.code = code /\ r.next = p + k + 1 /\ p + (k + 1) = p + k + 1
      BY <1>2, <2>1, <2>6
    <3> QED BY <2>2, <2>5, <2>6, <3>1
  <2>7. CASE ~(code > Shorter(u))
    <3>1. r.code = Error /\ r.next = p + k + 1
      BY <2>1, <2>7
    <3> QED BY <1>1, <2>2, <3>1
  <2> QED BY <2>6, <2>7
<1> QED BY <1>3, <1>4, <1>5, <1>6

-----------------------------------------------------------------------------
(* The bytes of a text.                                                    *)

LEMMA GreatestCode == MaxCode \in Nat /\ MaxCode <= 1114111
BY DEF MaxCode

LEMMA EncodedType ==
  ASSUME NEW c \in 1..MaxCode
  PROVE  /\ Width(c) \in 1..4
         /\ Encoded(c) \in Seq(Byte)
         /\ Len(Encoded(c)) = Width(c)
         /\ Encoded(c)[1] # 0
         /\ c < 128 => Width(c) = 1 /\ Encoded(c)[1] = c
         /\ c >= 128 => ~(Encoded(c)[1] < 128)
<1>0. c \in Int /\ 1 <= c /\ c <= 1114111
  BY GreatestCode
<1> DEFINE six(d) == 128 + ((c \div d) % 64)
<1>1. six(1) \in Byte /\ six(64) \in Byte /\ six(4096) \in Byte
  BY <1>0 DEF Byte
<1>2. CASE c < 128
  <2>1. Width(c) = 1 /\ c \in Byte
    BY <1>0, <1>2 DEF Width, Byte
  <2>2. Encoded(c) = <<c>>
    BY <2>1 DEF Encoded
  <2> QED BY <1>0, <1>2, <2>1, <2>2
<1>3. CASE c >= 128 /\ c < 2048
  <2>1. Width(c) = 2 /\ 192 + c \div 64 \in Byte /\ 192 + c \div 64 >= 128
    BY <1>0, <1>3 DEF Width, Byte
  <2>2. Encoded(c) = <<192 + c \div 64, six(1)>>
    BY <2>1 DEF Encoded
  <2> HIDE DEF six
  <2> QED BY <1>1, <1>3, <2>1, <2>2
<1>4. CASE c >= 2048 /\ c < 65536
  <2>1. Width(c) = 3 /\ 224 + c \div 4096 \in Byte /\ 224 + c \div 4096 >= 128
    BY <1>0, <1>4 DEF Width, Byte
  <2>2. Encoded(c) = <<224 + c \div 4096, six(64), six(1)>>
    BY <2>1 DEF Encoded
  <2> HIDE DEF six
  <2> QED BY <1>1, <1>4, <2>1, <2>2
<1>5. CASE c >= 65536
  <2>1. Width(c) = 4 /\ 240 + c \div 262144 \in Byte /\ 240 + c \div 262144 >= 128
    BY <1>0, <1>5 DEF Width, Byte
  <2>2. Encoded(c) = <<240 + c \div 262144, six(4096), six(64), six(1)>>
    BY <2>1 DEF Encoded
  <2> HIDE DEF six
  <2> QED BY <1>1, <1>5, <2>1, <2>2
<1> QED BY <1>0, <1>2, <1>3, <1>4, <1>5

Chars(codes) == [i \in DOMAIN codes |-> Encoded(codes[i])]

(* Where character m + 1 begins.                                           *)
Start(codes, m) == Len(Joined(Chars(codes), m)) + 1

LEMMA CharsType ==
  ASSUME NEW codes \in Seq(1..MaxCode)
  PROVE  /\ Chars(codes) \in Seq(Seq(Byte))
         /\ Len(Chars(codes)) = Len(codes) /\ Len(codes) \in Nat
         /\ \A i \in 1..Len(codes) : Chars(codes)[i] = Encoded(codes[i]) /\ codes[i] \in 1..MaxCode
         /\ Utf8Text(codes) = FlattenSeq(Chars(codes))
         /\ Utf8Text(codes) \in Seq(Byte)
<1>1. DOMAIN codes = 1..Len(codes) /\ Len(codes) \in Nat
  OBVIOUS
<1>2. \A i \in 1..Len(codes) : codes[i] \in 1..MaxCode
  BY ElementOfSeq
<1>3. \A i \in 1..Len(codes) : Encoded(codes[i]) \in Seq(Byte)
  BY <1>2, EncodedType
<1>4. /\ Chars(codes) \in Seq(Seq(Byte)) /\ Len(Chars(codes)) = Len(codes)
      /\ \A i \in 1..Len(codes) : Chars(codes)[i] = Encoded(codes[i])
  BY <1>1, <1>3 DEF Chars
<1>5. Utf8Text(codes) = FlattenSeq(Chars(codes))
  BY DEF Utf8Text, Chars
<1>6. FlattenSeq(Chars(codes)) \in Seq(Byte)
  <2>1. <<>> \in Seq(Byte)
    OBVIOUS
  <2> QED BY <1>4, <2>1, FlattenAppend
<1> QED BY <1>2, <1>4, <1>5, <1>6

(* What a memory that holds a text has at a character.                     *)
Holds(mem, codes) ==
  \A i \in 1..Len(Utf8Text(codes)) : mem[i] = Utf8Text(codes)[i]

LEMMA CharacterRead ==
  ASSUME NEW codes \in Seq(1..MaxCode), NEW m \in Nat, m < Len(codes),
         NEW mem, Holds(mem, codes), NEW n \in Nat, Width(codes[m + 1]) <= n,
         NEW p, p = Start(codes, m), NEW c, c = codes[m + 1]
  PROVE  /\ p \in Nat \ {0}
         /\ c \in 1..MaxCode
         /\ Width(c) \in 1..4
         /\ Start(codes, m + 1) = p + Width(c)
         /\ p + Width(c) <= Len(Utf8Text(codes)) + 1
         /\ HasBytes(mem, p, c)
         /\ mem[p] # 0
         /\ mem[p] < 128 => Width(c) = 1
         /\ ~(mem[p] < 128) => /\ ngx_utf8_decode(mem, p, n).code = c
                               /\ ngx_utf8_decode(mem, p, n).next = p + Width(c)
<1> DEFINE t == Utf8Text(codes)
           e == Encoded(c)
           q == Len(Joined(Chars(codes), m))
<1>1. m + 1 \in 1..Len(codes)
  OBVIOUS
<1>2. c \in 1..MaxCode /\ Chars(codes)[m + 1] = e
  BY <1>1, CharsType
<1>3. /\ Width(c) \in 1..4 /\ e \in Seq(Byte) /\ Len(e) = Width(c) /\ e[1] # 0
      /\ c < 128 => Width(c) = 1 /\ e[1] = c
      /\ c >= 128 => ~(e[1] < 128)
  BY <1>2, EncodedType
<1> HIDE DEF e
<1>4. /\ q \in Nat
      /\ Len(Joined(Chars(codes), m + 1)) = q + Len(e)
      /\ Len(Joined(Chars(codes), m + 1)) <= Len(FlattenSeq(Chars(codes)))
      /\ \A j \in 1..Len(e) : FlattenSeq(Chars(codes))[q + j] = e[j]
  <2>1. Chars(codes) \in Seq(Seq(Byte)) /\ m < Len(Chars(codes)) /\ e = Chars(codes)[m + 1]
    BY <1>2, CharsType
  <2>2. /\ Len(Joined(Chars(codes), m)) \in Nat
        /\ Len(Joined(Chars(codes), m + 1)) = Len(Joined(Chars(codes), m)) + Len(e)
        /\ Len(Joined(Chars(codes), m + 1)) <= Len(FlattenSeq(Chars(codes)))
        /\ \A j \in 1..Len(e) :
             FlattenSeq(Chars(codes))[Len(Joined(Chars(codes), m)) + j] = e[j]
    BY ONLY <2>1, m \in Nat, JoinedAt
  <2> QED BY <2>2, Zenon
<1>5. t = FlattenSeq(Chars(codes)) /\ Len(t) \in Nat
  BY CharsType
<1> HIDE DEF q, t
<1>6. p = q + 1 /\ Start(codes, m + 1) = q + Len(e) + 1
  BY <1>4 DEF Start, q
<1>7. \A j \in 1..Width(c) : mem[p + j - 1] = e[j]
  <2> TAKE j \in 1..Width(c)
  <2>1. p + j - 1 = q + j /\ q + j \in 1..Len(t)
    BY <1>3, <1>4, <1>5, <1>6
  <2>2. mem[q + j] = t[q + j]
    BY <2>1 DEF Holds, t
  <2> QED BY <1>3, <1>4, <1>5, <2>1, <2>2
<1>8. HasBytes(mem, p, c)
  BY <1>7 DEF HasBytes, e
<1>9. mem[p] = e[1]
  <2>1. 1 \in 1..Width(c) /\ p + 1 - 1 = p
    BY <1>3, <1>4, <1>6
  <2> QED BY <1>7, <2>1
<1>10. CASE c < 128
  <2>1. mem[p] = c /\ c < 128 /\ Width(c) = 1
    BY <1>3, <1>9, <1>10
  <2> QED BY <1>2, <1>3, <1>4, <1>5, <1>6, <1>8, <2>1 DEF e, t
<1>11. CASE c >= 128
  <2>1. ~(mem[p] < 128)
    BY <1>3, <1>9, <1>11
  <2>2. c \in Nat /\ 128 <= c /\ c <= MaxCode /\ p \in Nat
    BY <1>2, <1>4, <1>6, <1>11, GreatestCode
  <2>3. /\ ngx_utf8_decode(mem, p, n).code = c
        /\ ngx_utf8_decode(mem, p, n).next = p + Width(c)
    BY <1>8, <2>2, Width(c) <= n, DecodesCharacter
  <2> QED BY <1>2, <1>3, <1>4, <1>5, <1>6, <1>8, <1>9, <2>1, <2>3 DEF e, t
<1> QED BY <1>2, <1>10, <1>11, GreatestCode

LEMMA Starts ==
  ASSUME NEW codes \in Seq(1..MaxCode)
  PROVE  /\ Start(codes, 0) = 1
         /\ Start(codes, Len(codes)) = Len(Utf8Text(codes)) + 1
         /\ \A m \in 0..Len(codes) : Joined(Chars(codes), m) \in Seq(Byte)
<1>1. Chars(codes) \in Seq(Seq(Byte)) /\ Len(Chars(codes)) = Len(codes)
  BY CharsType
<1>2. Joined(Chars(codes), 0) = <<>>
  BY <1>1, JoinedNone
<1>3. Joined(Chars(codes), Len(codes)) = Utf8Text(codes)
  BY <1>1, CharsType, JoinedAll
<1>4. \A m \in 0..Len(codes) : Joined(Chars(codes), m) \in Seq(Byte)
  BY <1>1, JoinedType
<1> QED BY <1>2, <1>3, <1>4 DEF Start

-----------------------------------------------------------------------------
(* Counting.                                                               *)

(* The place in mem that the loop of ngx_utf8_length ends at, and the next *)
(* one after another place.                                                *)
CountEnds(mem, n, p) ==
  p > n \/ (~(mem[p] < 128) /\ ngx_utf8_decode(mem, p, n).code > MaxCode)

CountNext(mem, n, p) ==
  IF mem[p] < 128 THEN p + 1 ELSE ngx_utf8_decode(mem, p, n).next

CountAt(f, mem, n, p) == [len \in Nat |->
  IF p > n THEN len
  ELSE IF mem[p] < 128 THEN f[p + 1][len + 1]
  ELSE IF ngx_utf8_decode(mem, p, n).code > MaxCode THEN n
       ELSE f[ngx_utf8_decode(mem, p, n).next][len + 1]]

Counts(f, mem, n) ==
  \A p \in 1..n + 4 : f[p] = CountAt(f, mem, n, p)

LEMMA CountNextType ==
  ASSUME NEW mem, NEW n \in Nat, NEW p \in 1..n + 4, ~CountEnds(mem, n, p)
  PROVE  CountNext(mem, n, p) \in 1..n + 4 /\ CountNext(mem, n, p) > p
<1>1. p \in Nat /\ p >= 1 /\ p <= n
  BY DEF CountEnds
<1>2. CASE mem[p] < 128
  BY <1>1, <1>2 DEF CountNext
<1>3. CASE ~(mem[p] < 128)
  <2>1. ngx_utf8_decode(mem, p, n).next = p + Follow(mem[p]) + 1
    BY <1>3, DecodedNext DEF CountEnds
  <2>2. CountNext(mem, n, p) = p + Follow(mem[p]) + 1
    BY <1>3, <2>1 DEF CountNext
  <2>3. Follow(mem[p]) \in {1, 2, 3}
    BY FollowType
  <2> QED BY <1>1, <2>2, <2>3
<1> QED BY <1>2, <1>3

LEMMA CountExists ==
  ASSUME NEW mem, NEW n \in Nat
  PROVE  \E f : f = [p \in 1..n + 4 |-> CountAt(f, mem, n, p)]
<1> DEFINE k == n + 4
           X == 1..k
           Y == [Nat -> Nat]
           stop == {p \in X : CountEnds(mem, n, p)}
           val == [p \in X |-> [len \in Nat |-> IF p > n THEN len ELSE n]]
           nx == [p \in X |-> IF CountEnds(mem, n, p) THEN p ELSE CountNext(mem, n, p)]
           op == [p \in X |-> [y \in Y |-> [len \in Nat |-> y[len + 1]]]]
<1>1. k \in Nat
  OBVIOUS
<1>2. \A p \in X : ~CountEnds(mem, n, p) =>
                     CountNext(mem, n, p) \in X /\ CountNext(mem, n, p) > p
  BY CountNextType
<1>3. stop \in SUBSET X /\ nx \in [X -> X]
  <2> HIDE DEF X
  <2> QED BY <1>2
<1>4. val \in [X -> Y]
  <2> HIDE DEF X
  <2> QED OBVIOUS
<1>5. op \in [X -> [Y -> Y]]
  <2>1. \A y \in Y : [len \in Nat |-> y[len + 1]] \in Y
    OBVIOUS
  <2> HIDE DEF X, Y
  <2> QED BY <2>1
<1>6. WalksEnd(X, stop, nx)
  <2>1. \A p \in X : p \notin stop => nx[p] > p
    <3> HIDE DEF X
    <3> QED BY <1>2
  <2> HIDE DEF k, stop, nx
  <2> QED BY <1>1, <1>3, <2>1, UpEnds
<1>7. PICK f \in [X -> Y] : IsFold(f, X, stop, val, nx, op)
  <2> HIDE DEF X, Y, stop, val, nx, op
  <2> QED BY <1>3, <1>4, <1>5, <1>6, FoldExists
<1>8. f = [p \in X |-> IF p \in stop THEN val[p] ELSE op[p][f[nx[p]]]]
  <2> HIDE DEF X, Y, stop, val, nx, op
  <2> QED BY <1>7 DEF IsFold
<1>9. ASSUME NEW p \in X PROVE f[p] = CountAt(f, mem, n, p)
  <2>1. f[p] = IF p \in stop THEN val[p] ELSE op[p][f[nx[p]]]
    <3> HIDE DEF X, Y, stop, val, nx, op
    <3> QED BY <1>8
  <2>2. CASE CountEnds(mem, n, p)
    <3>1. f[p] = [len \in Nat |-> IF p > n THEN len ELSE n]
      <4> HIDE DEF X, Y
      <4> QED BY <2>1, <2>2
    <3> QED BY <2>2, <3>1 DEF CountAt, CountEnds
  <2>3. CASE ~CountEnds(mem, n, p)
    <3> DEFINE q == CountNext(mem, n, p)
    <3>1. q \in X /\ f[q] \in Y
      <4> HIDE DEF X, Y
      <4> QED BY <1>2, <1>7, <2>3
    <3>2. f[p] = [len \in Nat |-> f[q][len + 1]]
      <4> HIDE DEF X, Y
      <4> QED BY <2>1, <2>3, <3>1
    <3> QED BY <2>3, <3>2 DEF CountAt, CountEnds, CountNext
  <2> QED BY <2>2, <2>3
<1>10. f = [p \in X |-> CountAt(f, mem, n, p)]
  <2> HIDE DEF X, Y
  <2> QED BY <1>7, <1>9
<1> QED BY <1>10

LEMMA LengthIs ==
  ASSUME NEW mem, NEW n \in Nat
  PROVE  \E f : Counts(f, mem, n) /\ ngx_utf8_length(mem, n) = f[1][0]
<1> DEFINE X == 1..n + 4
           count[p \in X] == [len \in Nat |->
             IF p > n THEN len
             ELSE IF mem[p] < 128 THEN count[p + 1][len + 1]
             ELSE IF ngx_utf8_decode(mem, p, n).code > MaxCode THEN n
                  ELSE count[ngx_utf8_decode(mem, p, n).next][len + 1]]
<1>1. ngx_utf8_length(mem, n) = count[1][0]
  BY DEF ngx_utf8_length
<1>2. \E g : g = [p \in X |-> CountAt(g, mem, n, p)]
  BY CountExists
<1>3. count = [p \in X |-> CountAt(count, mem, n, p)]
  <2> HIDE DEF X
  <2> QED BY <1>2, Zenon DEF CountAt
<1> HIDE DEF count
<1>4. \A p \in X : count[p] = CountAt(count, mem, n, p)
  <2> HIDE DEF X
  <2> QED BY <1>3
<1> QED BY <1>1, <1>4 DEF Counts

(* A character counts one, whatever there is behind it.                    *)
LEMMA CharacterCounts ==
  ASSUME NEW codes \in Seq(1..MaxCode), NEW m \in Nat, m < Len(codes),
         NEW mem, Holds(mem, codes), NEW n, n = Len(Utf8Text(codes)),
         NEW f, Counts(f, mem, n)
  PROVE  f[Start(codes, m)][m] = f[Start(codes, m + 1)][m + 1]
<1> DEFINE p == Start(codes, m)
           c == codes[m + 1]
<1>0. n \in Nat
  BY CharsType
<1>1. /\ p \in Nat \ {0} /\ Width(c) \in 1..4 /\ p + Width(c) <= n + 1
  <2>1. \E w \in Nat : Width(c) <= w
    <3>1. c \in 1..MaxCode
      <4>1. m + 1 \in 1..Len(codes)
        BY CharsType
      <4> QED BY <4>1, CharsType
    <3>2. Width(c) \in Nat
      BY <3>1, EncodedType
    <3> QED BY <3>2
  <2>2. PICK w \in Nat : Width(c) <= w
    BY <2>1
  <2> HIDE DEF p, c
  <2> QED BY <2>2, CharacterRead DEF p, c
<1>2. Width(c) <= n
  <2> HIDE DEF p, c
  <2> QED BY <1>0, <1>1
<1>3. /\ Start(codes, m + 1) = p + Width(c)
      /\ mem[p] < 128 => Width(c) = 1
      /\ ~(mem[p] < 128) => /\ ngx_utf8_decode(mem, p, n).code = c
                            /\ ngx_utf8_decode(mem, p, n).next = p + Width(c)
      /\ c \in 1..MaxCode
  <2> HIDE DEF p, c
  <2> QED BY <1>0, <1>2, CharacterRead DEF p, c
<1> HIDE DEF p, c
<1>4. f[p] = CountAt(f, mem, n, p) /\ ~(p > n)
  BY <1>0, <1>1 DEF Counts
<1>5. CASE mem[p] < 128
  <2>1. CountAt(f, mem, n, p)[m] = f[p + 1][m + 1]
    BY <1>4, <1>5 DEF CountAt
  <2> QED BY <1>3, <1>4, <1>5, <2>1 DEF p
<1>6. CASE ~(mem[p] < 128)
  <2>1. ~(ngx_utf8_decode(mem, p, n).code > MaxCode)
    BY <1>3, <1>6, GreatestCode
  <2>2. CountAt(f, mem, n, p)[m] = f[p + Width(c)][m + 1]
    BY <1>3, <1>4, <1>6, <2>1 DEF CountAt
  <2> QED BY <1>3, <1>4, <2>2 DEF p
<1> QED BY <1>5, <1>6

LEMMA TextLength ==
  ASSUME NEW codes \in Seq(1..MaxCode), NEW mem, Holds(mem, codes)
  PROVE  ngx_utf8_length(mem, Len(Utf8Text(codes))) = Len(codes)
<1> DEFINE n == Len(Utf8Text(codes))
<1>1. n \in Nat /\ Len(codes) \in Nat
  BY CharsType
<1>2. PICK f : Counts(f, mem, n) /\ ngx_utf8_length(mem, n) = f[1][0]
  BY <1>1, LengthIs
<1> DEFINE A == {m \in Nat : m <= Len(codes) => f[Start(codes, m)][m] = f[1][0]}
<1>3. 0 \in A
  BY Starts
<1>4. ASSUME NEW m \in Nat, m \in A PROVE m + 1 \in A
  <2>1. ASSUME m + 1 <= Len(codes) PROVE f[Start(codes, m + 1)][m + 1] = f[1][0]
    <3>1. m < Len(codes) /\ m <= Len(codes)
      BY <1>1, <2>1
    <3>2. f[Start(codes, m)][m] = f[Start(codes, m + 1)][m + 1]
      BY <1>2, <3>1, CharacterCounts
    <3> QED BY <1>4, <3>1, <3>2
  <2>2. m + 1 \in Nat
    OBVIOUS
  <2> QED BY <2>1, <2>2, Zenon
<1>5. Nat \subseteq A
  <2> HIDE DEF A
  <2> QED BY <1>3, <1>4, NatInduct
<1>6. f[n + 1][Len(codes)] = f[1][0]
  <2>1. Len(codes) \in A /\ Len(codes) <= Len(codes)
    <3> HIDE DEF A
    <3> QED BY <1>1, <1>5
  <2> QED BY <2>1, Starts, Zenon
<1>7. f[n + 1][Len(codes)] = Len(codes)
  <2>1. n + 1 \in 1..n + 4 /\ n + 1 > n
    BY <1>1
  <2>2. f[n + 1] = CountAt(f, mem, n, n + 1)
    BY <1>2, <2>1 DEF Counts
  <2> HIDE DEF n
  <2> QED BY <1>1, <2>1, <2>2 DEF CountAt
<1> QED BY <1>2, <1>6, <1>7

-----------------------------------------------------------------------------
(* Copying.                                                                *)

(* A text is given with a 0 behind it; what the loop of ngx_utf8_cpystrn   *)
(* does at position p of t: it ends, or takes a piece and goes on.         *)
Left(t, p) == ngx_utf8_decode(Append(t, 0), p, Len(t) - p + 1)

CopyEnds(t, p) ==
  LET mem == Append(t, 0) IN mem[p] = 0 \/ (~(mem[p] < 128) /\ Left(t, p).code > MaxCode)

CopyNext(t, p) == IF Append(t, 0)[p] < 128 THEN p + 1 ELSE Left(t, p).next

Piece(t, p) ==
  LET mem == Append(t, 0) IN
  IF mem[p] < 128 THEN <<mem[p]>> ELSE SubSeq(mem, p, Left(t, p).next - 1)

CopyAt(f, t, K, p) ==
  [k \in 0..K |->
     IF k = 0 \/ CopyEnds(t, p) THEN <<>> ELSE Piece(t, p) \o f[CopyNext(t, p)][k - 1]]

Copies(f, t, K) ==
  /\ f \in [1..Len(t) + 1 -> [0..K -> Seq(Byte)]]
  /\ \A p \in 1..Len(t) + 1 : f[p] = CopyAt(f, t, K, p)

LEMMA WithZero ==
  ASSUME NEW t \in Seq(Byte)
  PROVE  /\ Append(t, 0) \in Seq(Byte)
         /\ Len(t) \in Nat /\ Len(Append(t, 0)) = Len(t) + 1
         /\ \A p \in 1..Len(t) : Append(t, 0)[p] = t[p]
         /\ \A p \in 1..Len(t) + 1 : Append(t, 0)[p] \in Byte
         /\ Append(t, 0)[Len(t) + 1] = 0
<1>1. 0 \in Byte
  BY DEF Byte
<1>2. /\ Append(t, 0) \in Seq(Byte) /\ Len(t) \in Nat /\ Len(Append(t, 0)) = Len(t) + 1
      /\ \A p \in 1..Len(t) : Append(t, 0)[p] = t[p]
      /\ Append(t, 0)[Len(t) + 1] = 0
  BY <1>1, AppendProperties
<1>3. \A p \in 1..Len(t) + 1 : Append(t, 0)[p] \in Byte
  BY <1>2, ElementOfSeq
<1> QED BY <1>2, <1>3

LEMMA CopyNextType ==
  ASSUME NEW t \in Seq(Byte), NEW p \in 1..Len(t) + 1, ~CopyEnds(t, p)
  PROVE  /\ CopyNext(t, p) \in 1..Len(t) + 1 /\ CopyNext(t, p) > p
         /\ Piece(t, p) \in Seq(Byte)
<1> DEFINE mem == Append(t, 0)
           L == Len(t)
<1>1. L \in Nat /\ p \in Nat /\ p >= 1 /\ p <= L
  <2>1. L \in Nat /\ p # L + 1
    BY WithZero DEF CopyEnds
  <2> QED BY <2>1
<1>2. mem \in Seq(Byte) /\ Len(mem) = L + 1 /\ mem[p] \in Byte
  BY WithZero
<1> HIDE DEF mem, L
<1>3. CASE mem[p] < 128
  <2>1. CopyNext(t, p) = p + 1 /\ Piece(t, p) = <<mem[p]>>
    BY <1>3 DEF CopyNext, Piece, mem
  <2> QED BY <1>1, <1>2, <2>1 DEF L
<1>4. CASE ~(mem[p] < 128)
  <2> DEFINE q == Left(t, p).next
  <2>1. /\ q = p + Follow(mem[p]) + 1
        /\ ~((L - p + 1) - 1 < Follow(mem[p]))
    <3>1. ~(Left(t, p).code > MaxCode)
      BY <1>4 DEF CopyEnds, mem
    <3> QED BY <3>1, DecodedNext DEF Left, mem, L
  <2>2. Follow(mem[p]) \in {1, 2, 3}
    BY FollowType
  <2>3. CopyNext(t, p) = q /\ Piece(t, p) = SubSeq(mem, p, q - 1)
    BY <1>4 DEF CopyNext, Piece, mem
  <2> HIDE DEF q
  <2>4. q \in 1..L + 1 /\ q > p
    BY <1>1, <2>1, <2>2
  <2>5. SubSeq(mem, p, q - 1) \in Seq(Byte)
    <3>1. p \in 1..Len(mem) + 1 /\ q - 1 \in p - 1..Len(mem)
      BY <1>1, <1>2, <2>4
    <3>2. p..q - 1 \subseteq 1..Len(mem)
      BY <1>1, <1>2, <2>4
    <3> QED BY <1>2, <3>1, <3>2, SubSeqProperties
  <2> QED BY <2>3, <2>4, <2>5 DEF L
<1> QED BY <1>3, <1>4

LEMMA CopyExists ==
  ASSUME NEW t \in Seq(Byte), NEW K \in Nat
  PROVE  \E f : Copies(f, t, K)
<1> DEFINE k == Len(t) + 1
           X == 1..k
           Y == [0..K -> Seq(Byte)]
           stop == {p \in X : CopyEnds(t, p)}
           val == [p \in X |-> [i \in 0..K |-> <<>>]]
           nx == [p \in X |-> IF CopyEnds(t, p) THEN p ELSE CopyNext(t, p)]
           more(p, y) == [i \in 0..K |-> IF i = 0 THEN <<>> ELSE Piece(t, p) \o y[i - 1]]
           op == [p \in X |-> [y \in Y |-> IF CopyEnds(t, p) THEN y ELSE more(p, y)]]
<1>1. k \in Nat
  OBVIOUS
<1>2. \A p \in X : ~CopyEnds(t, p) => /\ CopyNext(t, p) \in X /\ CopyNext(t, p) > p
                                      /\ Piece(t, p) \in Seq(Byte)
  BY CopyNextType
<1>3. stop \in SUBSET X /\ nx \in [X -> X]
  <2> HIDE DEF X
  <2> QED BY <1>2
<1>4. val \in [X -> Y]
  <2>1. <<>> \in Seq(Byte)
    BY EmptySeq
  <2> HIDE DEF X
  <2> QED BY <2>1
<1>5. op \in [X -> [Y -> Y]]
  <2>1. ASSUME NEW p \in X, ~CopyEnds(t, p), NEW y \in Y PROVE more(p, y) \in Y
    <3>1. ASSUME NEW i \in 0..K
          PROVE  (IF i = 0 THEN <<>> ELSE Piece(t, p) \o y[i - 1]) \in Seq(Byte)
      <4>1. CASE i = 0
        BY <4>1, EmptySeq
      <4>2. CASE i # 0
        <5>1. y[i - 1] \in Seq(Byte)
          <6>1. i - 1 \in 0..K
            BY <4>2
          <6> QED BY <6>1
        <5>2. Piece(t, p) \in Seq(Byte)
          BY <1>2, <2>1
        <5> QED BY <4>2, <5>1, <5>2, ConcatProperties
      <4> QED BY <4>1, <4>2
    <3> QED BY <3>1
  <2> HIDE DEF X, Y, more
  <2> QED BY <2>1
<1>6. WalksEnd(X, stop, nx)
  <2>1. \A p \in X : p \notin stop => nx[p] > p
    <3> HIDE DEF X
    <3> QED BY <1>2
  <2> HIDE DEF k, stop, nx
  <2> QED BY <1>1, <1>3, <2>1, UpEnds
<1>7. PICK f \in [X -> Y] : IsFold(f, X, stop, val, nx, op)
  <2> HIDE DEF X, Y, stop, val, nx, op
  <2> QED BY <1>3, <1>4, <1>5, <1>6, FoldExists
<1>8. f = [p \in X |-> IF p \in stop THEN val[p] ELSE op[p][f[nx[p]]]]
  <2> HIDE DEF X, Y, stop, val, nx, op
  <2> QED BY <1>7 DEF IsFold
<1>9. ASSUME NEW p \in X PROVE f[p] = CopyAt(f, t, K, p)
  <2>1. f[p] = IF p \in stop THEN val[p] ELSE op[p][f[nx[p]]]
    <3> HIDE DEF X, Y, stop, val, nx, op
    <3> QED BY <1>8
  <2>2. CASE CopyEnds(t, p)
    <3>1. f[p] = [i \in 0..K |-> <<>>]
      <4> HIDE DEF X, Y
      <4> QED BY <2>1, <2>2
    <3> QED BY <2>2, <3>1 DEF CopyAt
  <2>3. CASE ~CopyEnds(t, p)
    <3> DEFINE q == CopyNext(t, p)
    <3>1. q \in X /\ f[q] \in Y
      <4> HIDE DEF X, Y
      <4> QED BY <1>2, <1>7, <2>3
    <3>2. f[p] = more(p, f[q])
      <4> HIDE DEF X, Y, more
      <4> QED BY <2>1, <2>3, <3>1
    <3> QED BY <2>3, <3>2 DEF CopyAt
  <2> QED BY <2>2, <2>3
<1> QED BY <1>7, <1>9 DEF Copies

(* What ngx_utf8_cpystrn copies is such a function's value: its pieces are *)
(* sequences from the last place on backwards.                             *)
LEMMA CopyIs ==
  ASSUME NEW t \in Seq(Byte), NEW K \in Nat
  PROVE  \E f : Copies(f, t, K) /\ ngx_utf8_cpystrn(Append(t, 0), K + 1, Len(t)) = f[1][K]
<1> DEFINE X == 1..Len(t) + 1
           mem == Append(t, 0)
           copy[p \in X] == [k \in 0..(K + 1) - 1 |->
             IF k = 0 \/ mem[p] = 0 THEN <<>>
             ELSE IF mem[p] < 128 THEN <<mem[p]>> \o copy[p + 1][k - 1]
             ELSE IF ngx_utf8_decode(mem, p, Len(t) - p + 1).code > MaxCode THEN <<>>
                  ELSE SubSeq(mem, p, ngx_utf8_decode(mem, p, Len(t) - p + 1).next - 1)
                         \o copy[ngx_utf8_decode(mem, p, Len(t) - p + 1).next][k - 1]]
           At(f, p) == [k \in 0..(K + 1) - 1 |->
             IF k = 0 \/ mem[p] = 0 THEN <<>>
             ELSE IF mem[p] < 128 THEN <<mem[p]>> \o f[p + 1][k - 1]
             ELSE IF ngx_utf8_decode(mem, p, Len(t) - p + 1).code > MaxCode THEN <<>>
                  ELSE SubSeq(mem, p, ngx_utf8_decode(mem, p, Len(t) - p + 1).next - 1)
                         \o f[ngx_utf8_decode(mem, p, Len(t) - p + 1).next][k - 1]]
<1>1. ngx_utf8_cpystrn(mem, K + 1, Len(t)) = copy[1][(K + 1) - 1]
  BY DEF ngx_utf8_cpystrn
<1>2. (K + 1) - 1 = K
  OBVIOUS
<1>3. ASSUME NEW f, NEW p \in X PROVE At(f, p) = CopyAt(f, t, K, p)
  <2>1. CASE mem[p] = 0
    BY <1>2, <2>1 DEF CopyAt, CopyEnds
  <2>2. CASE mem[p] # 0 /\ mem[p] < 128
    BY <1>2, <2>2 DEF CopyAt, CopyEnds, CopyNext, Piece
  <2>3. CASE mem[p] # 0 /\ ~(mem[p] < 128)
    BY <1>2, <2>3 DEF CopyAt, CopyEnds, CopyNext, Piece, Left
  <2> QED BY <2>1, <2>2, <2>3
<1>4. PICK g : Copies(g, t, K)
  BY CopyExists
<1>5. \E f : f = [p \in X |-> At(f, p)]
  <2>1. g = [p \in X |-> CopyAt(g, t, K, p)]
    <3> HIDE DEF X
    <3> QED BY <1>4 DEF Copies, X
  <2>2. \A p \in X : At(g, p) = CopyAt(g, t, K, p)
    BY <1>3
  <2> HIDE DEF X, At
  <2>3. g = [p \in X |-> At(g, p)]
    BY <2>1, <2>2
  <2> QED BY <2>3
<1>6. copy = [p \in X |-> At(copy, p)]
  <2> HIDE DEF X, mem
  <2> QED BY <1>5, Zenon
<1> HIDE DEF copy
<1>7. \A p \in X : copy[p] = CopyAt(copy, t, K, p)
  <2>1. \A p \in X : copy[p] = At(copy, p)
    <3> HIDE DEF X, At
    <3> QED BY <1>6
  <2> HIDE DEF X, At
  <2> QED BY <1>3, <2>1
<1> DEFINE A == {j \in Nat : \A p \in X : p + j > Len(t) + 1 => copy[p] \in [0..K -> Seq(Byte)]}
<1>8. 0 \in A
  OBVIOUS
<1>9. ASSUME NEW j \in Nat, j \in A PROVE j + 1 \in A
  <2>1. ASSUME NEW p \in X, p + (j + 1) > Len(t) + 1
        PROVE  copy[p] \in [0..K -> Seq(Byte)]
    <3>1. ASSUME NEW k \in 0..K, k # 0, ~CopyEnds(t, p)
          PROVE  Piece(t, p) \o copy[CopyNext(t, p)][k - 1] \in Seq(Byte)
      <4> DEFINE q == CopyNext(t, p)
      <4>1. q \in X /\ q > p /\ Piece(t, p) \in Seq(Byte)
        BY <3>1, CopyNextType
      <4>2. q + j > Len(t) + 1
        BY <2>1, <4>1
      <4>3. copy[q] \in [0..K -> Seq(Byte)]
        <5> HIDE DEF X, q
        <5> QED BY <1>9, <4>1, <4>2
      <4>4. copy[q][k - 1] \in Seq(Byte)
        <5>1. k - 1 \in 0..K
          BY <3>1
        <5> HIDE DEF q
        <5> QED BY <4>3, <5>1
      <4> QED BY <4>1, <4>4, ConcatProperties
    <3>2. \A k \in 0..K : (IF k = 0 \/ CopyEnds(t, p) THEN <<>>
                           ELSE Piece(t, p) \o copy[CopyNext(t, p)][k - 1]) \in Seq(Byte)
      BY <3>1, EmptySeq
    <3>3. CopyAt(copy, t, K, p) \in [0..K -> Seq(Byte)]
      BY <3>2 DEF CopyAt
    <3> QED BY <1>7, <3>3
  <2>2. j + 1 \in Nat
    OBVIOUS
  <2> QED BY <2>1, <2>2, Zenon
<1>10. Nat \subseteq A
  <2> HIDE DEF A
  <2> QED BY <1>8, <1>9, NatInduct
<1>11. \A p \in X : copy[p] \in [0..K -> Seq(Byte)]
  <2> TAKE p \in X
  <2>1. Len(t) + 1 \in Nat /\ p + (Len(t) + 1) > Len(t) + 1
    OBVIOUS
  <2>2. Len(t) + 1 \in A
    <3> HIDE DEF A
    <3> QED BY <1>10, <2>1
  <2> QED BY <2>1, <2>2
<1>12. copy \in [X -> [0..K -> Seq(Byte)]]
  <2> HIDE DEF X, At
  <2> QED BY <1>6, <1>11
<1> QED BY <1>1, <1>2, <1>7, <1>12 DEF Copies

(* A character is one piece.                                               *)
LEMMA CharacterCopied ==
  ASSUME NEW codes \in Seq(1..MaxCode), NEW m \in Nat, m < Len(codes),
         NEW t, t = Utf8Text(codes), NEW p, p = Start(codes, m)
  PROVE  /\ p \in 1..Len(t) /\ Start(codes, m + 1) \in 1..Len(t) + 1
         /\ ~CopyEnds(t, p)
         /\ CopyNext(t, p) = Start(codes, m + 1)
         /\ Piece(t, p) = Encoded(codes[m + 1])
<1> DEFINE mem == Append(t, 0)
           c == codes[m + 1]
           n == Len(t) - p + 1
<1>1. t \in Seq(Byte) /\ Len(t) \in Nat
  BY CharsType
<1>2. /\ mem \in Seq(Byte) /\ Len(mem) = Len(t) + 1
      /\ \A i \in 1..Len(t) : mem[i] = t[i]
  BY <1>1, WithZero
<1>3. Holds(mem, codes)
  BY <1>2 DEF Holds
<1>4. c \in 1..MaxCode /\ Width(c) \in 1..4 /\ Encoded(c) \in Seq(Byte) /\ Len(Encoded(c)) = Width(c)
  <2>1. m + 1 \in 1..Len(codes)
    BY CharsType
  <2>2. c \in 1..MaxCode
    BY <2>1, CharsType
  <2> QED BY <2>2, EncodedType
<1> HIDE DEF mem, c
<1>5. p \in Nat \ {0} /\ p + Width(c) <= Len(t) + 1
  <2>1. 4 \in Nat /\ Width(c) <= 4
    BY <1>4
  <2> QED BY <1>3, <2>1, CharacterRead DEF c
<1>6. n \in Nat /\ Width(c) <= n
  BY <1>1, <1>4, <1>5
<1>7. /\ Start(codes, m + 1) = p + Width(c)
      /\ HasBytes(mem, p, c)
      /\ mem[p] # 0
      /\ mem[p] < 128 => Width(c) = 1
      /\ ~(mem[p] < 128) => /\ ngx_utf8_decode(mem, p, n).code = c
                            /\ ngx_utf8_decode(mem, p, n).next = p + Width(c)
  <2> HIDE DEF n
  <2> QED BY <1>3, <1>6, CharacterRead DEF c
<1>8. Left(t, p) = ngx_utf8_decode(mem, p, n)
  BY DEF Left, mem
<1> HIDE DEF n
<1>9. ~CopyEnds(t, p) /\ CopyNext(t, p) = p + Width(c)
  <2>1. ~(mem[p] < 128) => ~(Left(t, p).code > MaxCode)
    BY <1>4, <1>7, <1>8, GreatestCode
  <2> QED BY <1>7, <1>8, <2>1 DEF CopyEnds, CopyNext, mem
<1>10. \A j \in 1..Width(c) : mem[p + j - 1] = Encoded(c)[j]
  BY <1>7 DEF HasBytes
<1>11. Piece(t, p) = Encoded(c)
  <2>1. CASE mem[p] < 128
    <3>1. Piece(t, p) = <<mem[p]>> /\ Width(c) = 1
      BY <1>7, <2>1 DEF Piece, mem
    <3>2. mem[p] = Encoded(c)[1] /\ mem[p] \in Byte
      <4>1. p + 1 - 1 = p /\ 1 \in 1..Width(c) /\ p \in 1..Len(mem)
        BY <1>1, <1>2, <1>4, <1>5
      <4> QED BY <1>2, <1>10, <4>1
    <3> DEFINE e == Encoded(c)
               o == <<mem[p]>>
    <3>3. e \in Seq(Byte) /\ Len(e) = 1 /\ o \in Seq(Byte) /\ Len(o) = 1 /\ o[1] = e[1]
      BY <1>4, <3>1, <3>2
    <3> HIDE DEF e, o
    <3>4. o = e
      BY <3>3, SeqEqual
    <3> QED BY <3>1, <3>4 DEF e, o
  <2>2. CASE ~(mem[p] < 128)
    <3> DEFINE w == Width(c)
               s == SubSeq(mem, p, p + w - 1)
               e == Encoded(c)
    <3>1. Piece(t, p) = s
      <4>1. Left(t, p).next = p + w
        BY <1>7, <1>8, <2>2, Zenon
      <4>2. Piece(t, p) = SubSeq(mem, p, Left(t, p).next - 1)
        BY <2>2 DEF Piece, mem
      <4>3. (p + w) - 1 = p + (w - 1)
        <5>1. w \in Int /\ p \in Int
          BY <1>4, <1>5
        <5> HIDE DEF w
        <5> QED BY <5>1
      <4> HIDE DEF w
      <4> QED BY <4>1, <4>2, <4>3, Zenon
    <3>2. p \in 1..Len(mem) + 1 /\ p + w - 1 \in p - 1..Len(mem) /\ w \in Nat
      BY <1>1, <1>2, <1>4, <1>5
    <3> HIDE DEF w
    <3>3. /\ s \in Seq(Byte) /\ Len(s) = w
          /\ \A j \in 1..w : s[j] = mem[p + j - 1]
      <4> DEFINE q == p + w - 1
      <4>1. \A j \in p..q : mem[j] \in Byte
        <5>1. \A j \in p..q : j \in 1..Len(mem)
          BY <1>1, <1>2, <1>5, <3>2
        <5> QED BY <1>2, <5>1
      <4>2. p \in Int /\ q \in Int /\ q - p + 1 = w /\ (~(p <= q) => w = 0)
        BY <1>5, <3>2
      <4> HIDE DEF q
      <4>3. /\ SubSeq(mem, p, q) \in Seq(Byte)
            /\ Len(SubSeq(mem, p, q)) = IF p <= q THEN q - p + 1 ELSE 0
            /\ \A j \in 1..q - p + 1 : SubSeq(mem, p, q)[j] = mem[p + j - 1]
        BY ONLY <4>1, <4>2, SubSeqProperties
      <4> QED BY <4>2, <4>3 DEF q
    <3> HIDE DEF s, e
    <3>4. e \in Seq(Byte) /\ Len(e) = w /\ \A j \in 1..w : s[j] = e[j]
      BY <1>4, <1>10, <3>3 DEF w, e
    <3>5. s = e
      BY <3>3, <3>4, SeqEqual
    <3> QED BY <3>1, <3>5 DEF e
  <2> QED BY <2>1, <2>2
<1>12. p \in 1..Len(t) /\ p + Width(c) \in 1..Len(t) + 1
  BY <1>1, <1>4, <1>5
<1> QED BY <1>7, <1>9, <1>11, <1>12 DEF c

LEMMA FirstChars ==
  ASSUME NEW codes \in Seq(1..MaxCode), NEW m \in 0..Len(codes)
  PROVE  Utf8Text(SubSeq(codes, 1, m)) = Joined(Chars(codes), m)
<1> DEFINE first == SubSeq(codes, 1, m)
           a == Chars(first)
           b == SubSeq(Chars(codes), 1, m)
<1>1. first \in Seq(1..MaxCode) /\ Len(first) = m /\ \A i \in 1..m : first[i] = codes[i]
  BY FirstOf
<1>2. /\ Chars(codes) \in Seq(Seq(Byte)) /\ Len(Chars(codes)) = Len(codes)
      /\ \A i \in 1..Len(codes) : Chars(codes)[i] = Encoded(codes[i])
      /\ Len(codes) \in Nat
  BY CharsType
<1>3. b \in Seq(Seq(Byte)) /\ Len(b) = m /\ \A i \in 1..m : b[i] = Chars(codes)[i]
  <2>1. m \in 0..Len(Chars(codes))
    BY <1>2
  <2> QED BY <1>2, <2>1, FirstOf
<1> HIDE DEF first
<1>4. /\ a \in Seq(Seq(Byte)) /\ Len(a) = m /\ \A i \in 1..m : a[i] = Encoded(first[i])
      /\ Utf8Text(first) = FlattenSeq(a)
  BY <1>1, CharsType
<1> HIDE DEF a, b
<1>5. \A i \in 1..m : a[i] = b[i]
  <2>1. \A i \in 1..m : i \in 1..Len(codes)
    BY <1>2
  <2> QED BY <1>1, <1>2, <1>3, <1>4, <2>1
<1>6. a = b
  BY <1>3, <1>4, <1>5, SeqEqual
<1> QED BY <1>4, <1>6 DEF Joined, first, b

LEMMA CopyGoesOn ==
  ASSUME NEW codes \in Seq(1..MaxCode), NEW t, t = Utf8Text(codes), NEW K \in Nat,
         NEW f, Copies(f, t, K), NEW j \in Nat, j < K, j < Len(codes)
  PROVE  Joined(Chars(codes), j + 1) \o f[Start(codes, j + 1)][K - (j + 1)]
           = Joined(Chars(codes), j) \o f[Start(codes, j)][K - j]
<1> DEFINE p == Start(codes, j)
           q == Start(codes, j + 1)
           e == Encoded(codes[j + 1])
           a == Joined(Chars(codes), j)
           r == f[q][K - (j + 1)]
<1>1. /\ p \in 1..Len(t) /\ q \in 1..Len(t) + 1
      /\ ~CopyEnds(t, p)
      /\ CopyNext(t, p) = q
      /\ Piece(t, p) = e
  BY CharacterCopied
<1>2. Len(t) \in Nat /\ Chars(codes) \in Seq(Seq(Byte)) /\ Len(Chars(codes)) = Len(codes)
      /\ Chars(codes)[j + 1] = e
  <2>1. j + 1 \in 1..Len(codes)
    BY CharsType
  <2> QED BY <2>1, CharsType
<1> HIDE DEF p, q, e
<1>3. f[p] = CopyAt(f, t, K, p) /\ f[q] \in [0..K -> Seq(Byte)]
  <2>1. p \in 1..Len(t) + 1
    BY <1>1, <1>2
  <2> QED BY <1>1, <2>1 DEF Copies
<1>4. K - j \in 0..K /\ K - (j + 1) \in 0..K /\ K - j # 0 /\ (K - j) - 1 = K - (j + 1)
  OBVIOUS
<1>5. f[p][K - j] = e \o r
  BY <1>1, <1>3, <1>4 DEF CopyAt
<1>6. r \in Seq(Byte)
  BY <1>3, <1>4
<1>7. a \in Seq(Byte) /\ e \in Seq(Byte) /\ Joined(Chars(codes), j + 1) = a \o e
  <2>1. j < Len(Chars(codes))
    BY <1>2
  <2> QED BY <1>2, <2>1, JoinedMore
<1> HIDE DEF a, r
<1>8. (a \o e) \o r = a \o (e \o r)
  BY <1>6, <1>7, ConcatAssociative
<1> QED BY <1>5, <1>7, <1>8 DEF a, r, p, q

LEMMA TextCopied ==
  ASSUME NEW codes \in Seq(1..MaxCode), NEW t, t = Utf8Text(codes), NEW K \in Nat,
         NEW m, m = IF K < Len(codes) THEN K ELSE Len(codes)
  PROVE  ngx_utf8_cpystrn(Append(t, 0), K + 1, Len(t)) = Utf8Text(SubSeq(codes, 1, m))
<1> DEFINE a(j) == Joined(Chars(codes), j)
           p(j) == Start(codes, j)
<1>1. t \in Seq(Byte) /\ Len(t) \in Nat /\ Len(codes) \in Nat
  BY CharsType
<1>2. m \in Nat /\ m <= K /\ m <= Len(codes) /\ (m = K \/ m = Len(codes))
  BY <1>1
<1>3. PICK f : Copies(f, t, K) /\ ngx_utf8_cpystrn(Append(t, 0), K + 1, Len(t)) = f[1][K]
  BY <1>1, CopyIs
<1> DEFINE A == {j \in Nat : j <= m => a(j) \o f[p(j)][K - j] = f[1][K]}
<1>4. 0 \in A
  <2>1. a(0) = <<>>
    BY CharsType, JoinedNone
  <2>2. p(0) = 1 /\ K - 0 = K
    BY Starts
  <2>3. f[1][K] \in Seq(Byte)
    BY <1>1, <1>3 DEF Copies
  <2>4. <<>> \o f[1][K] = f[1][K]
    BY <2>3, ConcatEmptySeq
  <2> HIDE DEF a, p
  <2> QED BY <2>1, <2>2, <2>4
<1>5. ASSUME NEW j \in Nat, j \in A PROVE j + 1 \in A
  <2>1. ASSUME j + 1 <= m PROVE a(j + 1) \o f[p(j + 1)][K - (j + 1)] = f[1][K]
    <3>1. j <= m /\ j < K /\ j < Len(codes)
      BY <1>1, <1>2, <2>1
    <3>2. a(j + 1) \o f[p(j + 1)][K - (j + 1)] = a(j) \o f[p(j)][K - j]
      BY <1>3, <3>1, CopyGoesOn
    <3> HIDE DEF a, p
    <3> QED BY <1>5, <3>1, <3>2
  <2>2. j + 1 \in Nat
    OBVIOUS
  <2> QED BY <2>1, <2>2, Zenon
<1>6. Nat \subseteq A
  <2> HIDE DEF A
  <2> QED BY <1>4, <1>5, NatInduct
<1>7. a(m) \o f[p(m)][K - m] = f[1][K]
  <2>1. m \in A /\ m <= m
    <3> HIDE DEF A
    <3> QED BY <1>2, <1>6
  <2> QED BY <2>1, Zenon
<1>8. f[p(m)][K - m] = <<>>
  <2>1. K - m \in 0..K
    BY <1>2
  <2>2. p(m) \in 1..Len(t) + 1
    <3>1. CASE m = Len(codes)
      <4>1. p(m) = Len(t) + 1
        BY <3>1, Starts
      <4> QED BY <1>1, <4>1
    <3>2. CASE m < Len(codes)
      <4>1. p(m) \in 1..Len(t)
        BY <1>2, <3>2, CharacterCopied
      <4> QED BY <1>1, <4>1
    <3> QED BY <1>1, <1>2, <3>1, <3>2
  <2>3. f[p(m)] = CopyAt(f, t, K, p(m))
    BY <1>3, <2>2 DEF Copies
  <2>4. K - m = 0 \/ CopyEnds(t, p(m))
    <3>1. CASE m = K
      BY <3>1
    <3>2. CASE m = Len(codes)
      <4>1. p(m) = Len(t) + 1
        BY <3>2, Starts
      <4>2. Append(t, 0)[Len(t) + 1] = 0
        BY <1>1, WithZero
      <4> HIDE DEF p
      <4> QED BY <4>1, <4>2 DEF CopyEnds
    <3> QED BY <1>2, <3>1, <3>2
  <2> HIDE DEF p
  <2> QED BY <2>1, <2>3, <2>4 DEF CopyAt
<1>9. a(m) \o <<>> = a(m)
  <2>1. m \in 0..Len(codes)
    BY <1>1, <1>2
  <2>2. a(m) \in Seq(Byte)
    BY <2>1, Starts
  <2> HIDE DEF a
  <2> QED BY <2>2, ConcatEmptySeq
<1>10. Utf8Text(SubSeq(codes, 1, m)) = a(m)
  BY <1>1, <1>2, FirstChars
<1> HIDE DEF a, p
<1> QED BY <1>3, <1>7, <1>8, <1>9, <1>10

-----------------------------------------------------------------------------
(* A text is what it was made of until it is damaged, and always bytes.    *)

Utf8Inv ==
  form = "utf8" =>
    /\ data \in Seq(Byte)
    /\ Intact => origin \in Seq(1..MaxCode) /\ data = Utf8Text(origin)

LEMMA Utf8InvInit == Init => Utf8Inv
BY DataAssumption, CharsType DEF Init, Utf8Inv

LEMMA Utf8InvNext == Utf8Inv /\ [Next]_vars => Utf8Inv'
<1> SUFFICES ASSUME Utf8Inv, [Next]_vars, form' = "utf8"
             PROVE  /\ data' \in Seq(Byte)
                    /\ Intact' => origin' \in Seq(1..MaxCode) /\ data' = Utf8Text(origin')
  BY DEF Utf8Inv
<1>1. CASE UNCHANGED vars
  BY <1>1 DEF vars, Utf8Inv, Intact
<1>2. CASE Damage
  <2>1. form = "utf8" /\ data # <<>> /\ data \in Seq(Byte) /\ ~Intact'
    BY <1>2 DEF Damage, Utf8Inv, Intact
  <2>2. CASE \E i \in DOMAIN data, c \in Junk : data' = [data EXCEPT ![i] = c]
    <3>1. PICK i \in DOMAIN data, c \in Junk : data' = [data EXCEPT ![i] = c]
      BY <2>2
    <3>2. i \in 1..Len(data) /\ c \in Byte
      BY <2>1, DataAssumption
    <3>3. [data EXCEPT ![i] = c] \in Seq(Byte)
      BY <2>1, <3>2, ExceptSeq
    <3> QED BY <2>1, <3>1, <3>3
  <2>3. CASE data' = Front(data)
    <3>1. Front(data) = SubSeq(data, 1, Len(data) - 1) /\ Len(data) - 1 \in 0..Len(data)
      BY <2>1, EmptySeq DEF Front
    <3>2. SubSeq(data, 1, Len(data) - 1) \in Seq(Byte)
      BY <2>1, <3>1, FirstOf
    <3> QED BY <2>1, <2>3, <3>1, <3>2
  <2> QED BY <1>2, <2>2, <2>3 DEF Damage
<1>3. CASE EncodeBase64 \/ (\E url \in BOOLEAN : DecodeBase64(url)) \/ HexDump \/ ReadHex
           \/ GetTimeS \/ GetTimeT \/ ConvertTimeS \/ ConvertTimeT
  BY <1>3 DEF EncodeBase64, DecodeBase64, HexDump, ReadHex, GetTimeS, GetTimeT, ConvertTimeS,
              ConvertTimeT, Convert
<1> QED BY <1>1, <1>2, <1>3 DEF Next

LEMMA InvGivesUtf8 == Utf8Inv => Utf8Correct
<1> SUFFICES ASSUME Utf8Inv, form = "utf8" PROVE Utf8Correct
  BY DEF Utf8Correct
<1>1. data \in Seq(Byte) /\ Len(data) \in Nat
  BY DEF Utf8Inv
<1>2. ASSUME Intact, NEW rest \in Beyond
      PROVE  ngx_utf8_length(data \o rest, Len(data)) = Len(origin)
  <2>1. origin \in Seq(1..MaxCode) /\ data = Utf8Text(origin)
    BY <1>2 DEF Utf8Inv
  <2>2. rest \in Seq(Byte)
    BY DataAssumption
  <2>3. \A i \in 1..Len(data) : (data \o rest)[i] = data[i]
    BY <1>1, <2>2, ConcatProperties
  <2>4. Holds(data \o rest, origin)
    BY <2>1, <2>3 DEF Holds
  <2> QED BY <2>1, <2>4, TextLength
<1>3. ASSUME Intact, NEW k \in 0..Len(origin) + 1
      PROVE  ngx_utf8_cpystrn(Append(data, 0), k + 1, Len(data))
               = Utf8Text(SubSeq(origin, 1, IF k < Len(origin) THEN k ELSE Len(origin)))
  <2>1. origin \in Seq(1..MaxCode) /\ data = Utf8Text(origin)
    BY <1>3 DEF Utf8Inv
  <2>2. k \in Nat
    OBVIOUS
  <2> QED BY <2>1, <2>2, TextCopied
<1>4. ASSUME NEW p \in DOMAIN data, data[p] >= 128
      PROVE  LET r == ngx_utf8_decode(data, p, Len(data) - p + 1) IN
             /\ r.next \in p..Len(data) + 1
             /\ r.code <= MaxCode => r.code >= 128 /\ r.next = p + Width(r.code)
  <2> DEFINE n == Len(data) - p + 1
             r == ngx_utf8_decode(data, p, n)
  <2>1. p \in Nat \ {0} /\ n \in Nat \ {0} /\ p + n = Len(data) + 1
    BY <1>1
  <2>2. \A i \in 0..n - 1 : data[p + i] \in Byte
    <3>1. \A i \in 0..n - 1 : p + i \in 1..Len(data)
      BY <1>1, <2>1
    <3> QED BY <1>1, <3>1
  <2> HIDE DEF n
  <2>3. /\ r.next \in p..p + n
        /\ r.code <= MaxCode => r.code >= 128 /\ r.next = p + Width(r.code)
    BY <1>4, <2>1, <2>2, DecodeBounds
  <2> QED BY <2>1, <2>3 DEF n
<1> QED BY <1>2, <1>3, <1>4 DEF Utf8Correct

(* For every text, what follows it and every room for the copy: the length *)
(* is the number of characters and a copy has whole ones, as many as fit;  *)
(* and whatever bytes there are, a character is decoded from its shortest  *)
(* sequence only and nothing is read past the end that decode is told      *)
(* (uti_string.c:271-325, :328-353, :356-399).                             *)
THEOREM Utf8IsCorrect == Spec => []Utf8Correct
<1> QED BY Utf8InvInit, Utf8InvNext, InvGivesUtf8, PTL DEF Spec

=============================================================================
