---------------------------- MODULE EscapeProofs -----------------------------
(***************************************************************************)
(* Proofs about Escape, for texts of every length: what the first call of  *)
(* ngx_escape_uri or ngx_escape_html counts is what the second one needs,  *)
(* ngx_unescape_uri never overwrites what it has still to read and gives   *)
(* what Unescaped says, and unescaping undoes escaping.                    *)
(***************************************************************************)
EXTENDS Escape, Recursion, FiniteSetTheorems, SequenceTheorems, TLAPS

-----------------------------------------------------------------------------
(* How much longer the text gets.                                          *)

Growth(k, c) ==
  IF k = "escape_html" THEN Extra(c) ELSE IF c \in Table[k] THEN 2 ELSE 0

(* What the counting calls count in the first m bytes of t.                *)
Marked(k, t, m) == {i \in 1..m : t[i] \in Table[k]}

Cells(t, m) == {p \in (1..m) \X (1..5) : p[2] <= Extra(t[p[1]])}

Written(k, t, m) ==
  m + (IF k = "escape_html" THEN Cardinality(Cells(t, m))
                            ELSE 2 * Cardinality(Marked(k, t, m)))

LEMMA ExtraType == \A c : Extra(c) \in 0..5
BY DEF Extra

LEMMA MarkedStep ==
  ASSUME NEW k, NEW t, NEW m \in Nat
  PROVE  /\ IsFiniteSet(Marked(k, t, m))
         /\ Cardinality(Marked(k, t, m)) \in Nat
         /\ Cardinality(Marked(k, t, m + 1)) =
              Cardinality(Marked(k, t, m)) + (IF t[m + 1] \in Table[k] THEN 1 ELSE 0)
<1> DEFINE A == Marked(k, t, m)
           B == Marked(k, t, m + 1)
<1>1. IsFiniteSet(1..m)
  BY FS_Interval
<1>2. A \subseteq 1..m
  BY DEF Marked
<1>3. IsFiniteSet(A) /\ Cardinality(A) \in Nat
  BY <1>1, <1>2, FS_Subset, FS_CardinalityType
<1>4. CASE t[m + 1] \in Table[k]
  <2>1. B = A \cup {m + 1} /\ m + 1 \notin A
    BY <1>4 DEF Marked
  <2> HIDE DEF A, B
  <2>2. Cardinality(B) = Cardinality(A) + 1
    BY <1>3, <2>1, FS_AddElement
  <2> QED BY <1>3, <1>4, <2>2 DEF A, B
<1>5. CASE t[m + 1] \notin Table[k]
  <2>1. B = A
    BY <1>5 DEF Marked
  <2> QED BY <1>3, <1>5, <2>1
<1> QED BY <1>3, <1>4, <1>5

LEMMA CellsStep ==
  ASSUME NEW t, NEW m \in Nat
  PROVE  /\ IsFiniteSet(Cells(t, m))
         /\ Cardinality(Cells(t, m)) \in Nat
         /\ Cardinality(Cells(t, m + 1)) = Cardinality(Cells(t, m)) + Extra(t[m + 1])
<1> DEFINE A == Cells(t, m)
           x == Extra(t[m + 1])
           N == {m + 1} \X (1..x)
<1>1. IsFiniteSet(1..m) /\ IsFiniteSet(1..5) /\ IsFiniteSet({m + 1})
  <2>1. 1 \in Int /\ m \in Int /\ 5 \in Int
    OBVIOUS
  <2>2. IsFiniteSet(1..m) /\ IsFiniteSet(1..5)
    BY <2>1, FS_Interval, Zenon
  <2> QED BY <2>2, FS_Singleton
<1>2. IsFiniteSet((1..m) \X (1..5))
  BY <1>1, FS_Product
<1>3. A \subseteq (1..m) \X (1..5)
  BY DEF Cells
<1>4. IsFiniteSet(A) /\ Cardinality(A) \in Nat
  BY <1>2, <1>3, FS_Subset, FS_CardinalityType
<1>5. x \in 0..5
  BY ExtraType
<1>6. Cells(t, m + 1) = A \cup N
  <2>1. ASSUME NEW p \in Cells(t, m + 1)
        PROVE  p \in A \cup N
    BY <1>5, <2>1 DEF Cells
  <2>2. ASSUME NEW p \in A \cup N
        PROVE  p \in Cells(t, m + 1)
    BY <1>5, <2>2 DEF Cells
  <2> QED BY <2>1, <2>2
<1>7. A \cap N = {}
  BY DEF Cells
<1> HIDE DEF A, x
<1>8. IsFiniteSet(1..x) /\ Cardinality(1..x) = x
  <2>1. 1 \in Int /\ x \in Int
    BY <1>5
  <2>2. IsFiniteSet(1..x) /\ Cardinality(1..x) = IF 1 > x THEN 0 ELSE x - 1 + 1
    BY <2>1, FS_Interval, Zenon
  <2> QED BY <1>5, <2>2
<1>9. IsFiniteSet(N) /\ Cardinality(N) = x
  <2>1. Cardinality(N) = Cardinality({m + 1}) * Cardinality(1..x)
    BY <1>1, <1>8, FS_Product
  <2>2. Cardinality({m + 1}) = 1
    BY FS_Singleton
  <2>3. IsFiniteSet(N)
    BY <1>1, <1>8, FS_Product
  <2> HIDE DEF N
  <2> QED BY <1>5, <1>8, <2>1, <2>2, <2>3
<1> HIDE DEF N
<1>10. Cardinality(A \cup N) = Cardinality(A) + Cardinality(N)
  <2>1. Cardinality(A \cup N) = Cardinality(A) + Cardinality(N) - Cardinality(A \cap N)
    BY <1>4, <1>9, FS_Union
  <2>2. Cardinality(A \cap N) = 0
    BY <1>7, FS_EmptySet
  <2> QED BY <1>4, <1>5, <1>9, <2>1, <2>2
<1> QED BY <1>4, <1>6, <1>9, <1>10 DEF A, x

LEMMA WrittenStep ==
  ASSUME NEW k, NEW t, NEW m \in Nat
  PROVE  /\ Written(k, t, m) \in Nat
         /\ Written(k, t, m + 1) = Written(k, t, m) + 1 + Growth(k, t[m + 1])
         /\ Growth(k, t[m + 1]) \in 0..5
<1>1. Growth(k, t[m + 1]) \in 0..5
  BY ExtraType DEF Growth
<1>2. CASE k = "escape_html"
  BY <1>1, <1>2, CellsStep DEF Written, Growth
<1>3. CASE k # "escape_html"
  BY <1>1, <1>3, MarkedStep DEF Written, Growth
<1> QED BY <1>1, <1>2, <1>3

(* Fewer bytes do not need more room.                                      *)
LEMMA WrittenMonotonic ==
  ASSUME NEW k, NEW t, NEW m \in Nat, NEW l \in Nat, m <= l
  PROVE  Written(k, t, m) <= Written(k, t, l)
<1>1. /\ Marked(k, t, m) \subseteq Marked(k, t, l)
      /\ Cells(t, m) \subseteq Cells(t, l)
  BY DEF Marked, Cells
<1>2. /\ Cardinality(Marked(k, t, m)) <= Cardinality(Marked(k, t, l))
      /\ Cardinality(Cells(t, m)) <= Cardinality(Cells(t, l))
  BY <1>1, MarkedStep, CellsStep, FS_Subset
<1>3. /\ Cardinality(Marked(k, t, m)) \in Nat /\ Cardinality(Marked(k, t, l)) \in Nat
      /\ Cardinality(Cells(t, m)) \in Nat /\ Cardinality(Cells(t, l)) \in Nat
  BY MarkedStep, CellsStep
<1> QED BY <1>2, <1>3 DEF Written

-----------------------------------------------------------------------------
(* What is written.                                                        *)

LEMMA EscapedLength ==
  ASSUME NEW c \in Byte
  PROVE  Escaped(c) \in Seq(Byte) /\ Len(Escaped(c)) = 1 + Growth(kind, c)
<1>1. CASE kind = "escape_html"
  <2>1. Escaped(c) = Entity(c) /\ Growth(kind, c) = Extra(c)
    BY <1>1 DEF Escaped, Growth
  <2>2. CASE c = Lt
    BY <2>1, <2>2 DEF Entity, Extra, Byte, Amp, Semi, Lt, Gt, Quot
  <2>3. CASE c = Gt
    BY <2>1, <2>3 DEF Entity, Extra, Byte, Amp, Semi, Lt, Gt, Quot
  <2>4. CASE c = Amp
    BY <2>1, <2>4 DEF Entity, Extra, Byte, Amp, Semi, Lt, Gt, Quot
  <2>5. CASE c = Quot
    BY <2>1, <2>5 DEF Entity, Extra, Byte, Amp, Semi, Lt, Gt, Quot
  <2>6. CASE c \notin {Lt, Gt, Amp, Quot}
    BY <2>1, <2>6 DEF Entity, Extra
  <2> QED BY <2>2, <2>3, <2>4, <2>5, <2>6
<1>2. CASE kind # "escape_html"
  <2>1. c \div 16 \in 0..15 /\ c % 16 \in 0..15
    BY DEF Byte
  <2>2. HexDigit(c \div 16) \in Byte /\ HexDigit(c % 16) \in Byte
    BY <2>1 DEF HexDigit, Byte
  <2>3. Quote(c) \in Seq(Byte) /\ Len(Quote(c)) = 3
    BY <2>2 DEF Quote, Percent, Byte
  <2>4. CASE c \in Table[kind]
    BY <1>2, <2>3, <2>4 DEF Escaped, Growth
  <2>5. CASE c \notin Table[kind]
    <3>1. <<c>> \in Seq(Byte) /\ Len(<<c>>) = 1
      OBVIOUS
    <3> QED BY <1>2, <2>5, <3>1 DEF Escaped, Growth
  <2> QED BY <2>4, <2>5
<1> QED BY <1>1, <1>2

LEMMA PutEffect ==
  ASSUME buf \in Seq(Byte), d \in Nat, NEW out \in Seq(Byte), Put(out)
  PROVE  /\ buf' \in Seq(Byte)
         /\ Len(buf') = Len(buf)
         /\ d' = d + Len(out)
         /\ \A i \in d' + 1..Len(buf) : buf'[i] = buf[i]
<1>1. /\ buf' = [i \in 1..Len(buf) |-> IF i - d \in 1..Len(out) THEN out[i - d] ELSE buf[i]]
      /\ d' = d + Len(out)
  BY DEF Put
<1>2. \A i \in 1..Len(buf) : buf'[i] \in Byte
  BY <1>1
<1>3. buf' \in Seq(Byte) /\ Len(buf') = Len(buf)
  BY <1>1, <1>2
<1>4. ASSUME NEW i \in d' + 1..Len(buf)
      PROVE  buf'[i] = buf[i]
  <2>1. i \in 1..Len(buf) /\ i - d \notin 1..Len(out)
    BY <1>1
  <2> QED BY <1>1, <2>1
<1> QED BY <1>1, <1>3, <1>4

LEMMA HexValueType ==
  ASSUME NEW c \in Digit \cup HexAlpha
  PROVE  HexValue(c) \in 0..15
BY DEF HexValue, Digit, HexAlpha

-----------------------------------------------------------------------------
(* The invariant.  TypeOK is not inductive: that there is room for what is *)
(* still to be written needs that what was written is Written, and the     *)
(* room is what was counted; that d does not pass s needs the bytes of the *)
(* quotation that is being read.                                           *)
EscapeInv ==
  /\ TypeOK
  /\ phase \in {"count", "allocate"} => kind \in Kinds /\ s = 0 /\ d = 0
  /\ phase = "allocate" => n = Counted
  /\ phase = "escape" =>
       /\ s <= Len(text)
       /\ d = Written(kind, text, s)
       /\ Len(buf) = Written(kind, text, Len(text))
  /\ phase = "unescape" => s <= Len(buf)
  /\ InPlace

LEMMA EscapeInvInit == Init => EscapeInv
<1> SUFFICES ASSUME Init
             PROVE  EscapeInv
  OBVIOUS
<1>1. /\ n = 0 /\ s = 0 /\ d = 0
      /\ flags = {} /\ state = "usual" /\ decoded = 0 /\ source = <<>>
  BY DEF Init
<1>2. /\ phase \in {"count", "full"}
      /\ text \in Seq(Byte) /\ buf \in Seq(Byte)
      /\ kind \in Kinds \cup {"none"}
      /\ phase = "count" => kind \in Kinds
  <2>1. Text \subseteq Seq(Byte) /\ Quoted \subseteq Seq(Byte) /\ <<>> \in Seq(Byte)
    BY TextAssumption
  <2>2. CASE phase = "count" /\ kind \in Kinds /\ text \in Text /\ buf = <<>>
    BY <2>1, <2>2
  <2>3. CASE phase = "full" /\ kind = "none" /\ text = <<>> /\ buf \in Quoted
    BY <2>1, <2>3
  <2> QED BY <2>2, <2>3 DEF Init
<1>3. Len(buf) \in Nat
  BY <1>2
<1> QED BY <1>1, <1>2, <1>3 DEF EscapeInv, TypeOK, InPlace

(* The steps of the two calls that escape.                                 *)
LEMMA EscapingKeepsInv ==
  ASSUME EscapeInv, Count \/ Allocate \/ EscapeByte \/ EscapeEnd
  PROVE  EscapeInv'
<1>1. CASE Count
  <2>1. Counted \in Nat
    <3>1. DOMAIN text = 1..Len(text) /\ Len(text) \in Nat
      BY DEF EscapeInv, TypeOK
    <3>2. Counted = IF kind = "escape_html" THEN Cardinality(Cells(text, Len(text)))
                    ELSE Cardinality(Marked(kind, text, Len(text)))
      BY <3>1 DEF Counted, Cells, Marked
    <3> QED BY <3>1, <3>2, CellsStep, MarkedStep
  <2>2. Counted' = Counted
    BY <1>1 DEF Count, Counted, input
  <2> QED BY <1>1, <2>1, <2>2
          DEF Count, EscapeInv, TypeOK, InPlace, input, place, quoting
<1>2. CASE Allocate
  <2>1. DOMAIN text = 1..Len(text) /\ Len(text) \in Nat /\ n \in Nat
    BY DEF EscapeInv, TypeOK
  <2>2. Room = Written(kind, text, Len(text))
    BY <1>2, <2>1 DEF Allocate, EscapeInv, Room, Counted, Written, Cells, Marked
  <2>3. Room \in Nat
    BY <2>1 DEF Room
  <2>4. buf' \in Seq(Byte) /\ Len(buf') = Room
    BY <1>2, <2>3 DEF Allocate, Byte
  <2>5. Written(kind, text, 0) = 0
    <3>1. Marked(kind, text, 0) = {} /\ Cells(text, 0) = {}
      BY DEF Marked, Cells
    <3> QED BY <3>1, FS_EmptySet DEF Written
  <2> QED BY <1>2, <2>1, <2>2, <2>3, <2>4, <2>5
          DEF Allocate, EscapeInv, TypeOK, InPlace, input, place, quoting
<1>3. CASE EscapeByte
  <2>1. /\ phase = "escape" /\ phase' = "escape" /\ s < Len(text) /\ s' = s + 1
        /\ kind' = kind /\ text' = text /\ n' = n
        /\ UNCHANGED <<flags, state, decoded, source>>
    BY <1>3 DEF EscapeByte, input, quoting
  <2>2. s \in Nat /\ d \in Nat /\ buf \in Seq(Byte) /\ text \in Seq(Byte) /\ Len(text) \in Nat
    BY DEF EscapeInv, TypeOK
  <2>3. text[s + 1] \in Byte
    BY <2>1, <2>2
  <2>4. /\ Escaped(text[s + 1]) \in Seq(Byte)
        /\ Len(Escaped(text[s + 1])) = 1 + Growth(kind, text[s + 1])
    BY <2>3, EscapedLength
  <2>5. Put(Escaped(text[s + 1]))
    BY <1>3 DEF EscapeByte
  <2>6. /\ buf' \in Seq(Byte) /\ Len(buf') = Len(buf)
        /\ d' = d + Len(Escaped(text[s + 1]))
    BY <2>2, <2>4, <2>5, PutEffect
  <2>7. d = Written(kind, text, s) /\ Len(buf) = Written(kind, text, Len(text))
    BY <2>1 DEF EscapeInv
  <2>8. d' = Written(kind, text, s + 1) /\ d' \in Nat
    <3>1. /\ Written(kind, text, s) \in Nat
          /\ Written(kind, text, s + 1)
               = Written(kind, text, s) + 1 + Growth(kind, text[s + 1])
          /\ Growth(kind, text[s + 1]) \in 0..5
      BY <2>2, WrittenStep
    <3> QED BY <2>4, <2>6, <2>7, <3>1
  <2>9. d' <= Len(buf')
    BY <2>1, <2>2, <2>6, <2>7, <2>8, WrittenMonotonic
  <2> QED BY <2>1, <2>2, <2>6, <2>7, <2>8, <2>9 DEF EscapeInv, TypeOK, InPlace
<1>4. CASE EscapeEnd
  BY <1>4 DEF EscapeEnd, EscapeInv, TypeOK, InPlace, input, place, quoting
<1> QED BY <1>1, <1>2, <1>3, <1>4

(* A step that reads a byte, and writes out or nothing.                    *)
LEMMA ReadingKeepsInv ==
  ASSUME EscapeInv, NEW out \in Seq(Byte),
         phase = "unescape", s < Len(buf), s' = s + 1,
         UNCHANGED <<kind, text, n, flags, source>>,
         phase' \in {"unescape", "done"}, state' \in {"usual", "quoted", "second"},
         decoded' \in 0..15,
         Put(out) \/ (out = <<>> /\ UNCHANGED <<buf, d>>),
         d + Len(out) + Pending' <= s + 1
  PROVE  EscapeInv'
<1>1. s \in Nat /\ d \in Nat /\ buf \in Seq(Byte) /\ Len(buf) \in Nat
  BY DEF EscapeInv, TypeOK
<1>2. /\ buf' \in Seq(Byte) /\ Len(buf') = Len(buf)
      /\ d' = d + Len(out)
      /\ \A i \in d' + 1..Len(buf) : buf'[i] = buf[i]
  <2>1. CASE Put(out)
    BY <1>1, <2>1, PutEffect
  <2>2. CASE out = <<>> /\ UNCHANGED <<buf, d>>
    BY <1>1, <2>2
  <2> QED BY <2>1, <2>2
<1>3. Pending' \in 0..2
  BY DEF Pending
<1>4. d' \in 0..Len(buf') /\ d' + Pending' <= s'
  BY <1>1, <1>2, <1>3
<1>5. \A i \in d' + 1..Len(buf') : buf'[i] = source'[i]
  <2> TAKE i \in d' + 1..Len(buf')
  <2>1. i \in d + 1..Len(buf)
    BY <1>1, <1>2
  <2>2. buf[i] = source[i]
    BY <2>1 DEF EscapeInv, InPlace
  <2> QED BY <1>2, <2>2
<1> QED BY <1>1, <1>2, <1>4, <1>5 DEF EscapeInv, TypeOK, InPlace

LEMMA UnescapingKeepsInv ==
  ASSUME EscapeInv, Usual \/ QuotedFirst \/ QuotedSecond
  PROVE  EscapeInv'
<1>1. /\ phase = "unescape" /\ s < Len(buf) /\ s' = s + 1
      /\ UNCHANGED <<kind, text, n, flags, source>>
  BY DEF Usual, QuotedFirst, QuotedSecond, Take, input
<1>2. /\ s \in Nat /\ d \in Nat /\ buf \in Seq(Byte) /\ Len(buf) \in Nat
      /\ decoded \in 0..15
      /\ d + Pending <= s
  BY <1>1 DEF EscapeInv, TypeOK, InPlace
<1>3. Ch \in Byte
  BY <1>1, <1>2 DEF Ch
<1>4. CASE Usual
  <2>1. state = "usual" /\ d <= s /\ decoded' = decoded
    BY <1>2, <1>4 DEF Usual, Take, Pending
  <2>2. CASE Ch = Percent
    <3>1. phase' = "unescape" /\ state' = "quoted" /\ UNCHANGED <<buf, d>>
      BY <1>4, <2>2 DEF Usual, To
    <3>2. d + Len(<<>>) + Pending' <= s + 1
      BY <1>2, <2>1, <3>1 DEF Pending
    <3>3. <<>> \in Seq(Byte)
      OBVIOUS
    <3> QED BY <1>1, <1>2, <2>1, <3>1, <3>2, <3>3, ReadingKeepsInv
  <2>3. CASE Ch # Percent
    <3>1. /\ phase' \in {"unescape", "done"} /\ state' = "usual"
          /\ Put(<<Ch>>)
      BY <1>4, <2>3 DEF Usual, To
    <3>2. d + Len(<<Ch>>) + Pending' <= s + 1 /\ <<Ch>> \in Seq(Byte)
      BY <1>2, <1>3, <2>1, <3>1 DEF Pending
    <3> QED BY <1>1, <1>2, <2>1, <3>1, <3>2, ReadingKeepsInv
  <2> QED BY <2>2, <2>3
<1>5. CASE QuotedFirst
  <2>1. state = "quoted" /\ d + 1 <= s
    BY <1>2, <1>5 DEF QuotedFirst, Take, Pending
  <2>2. CASE Ch \in Digit \cup HexAlpha
    <3>1. /\ phase' = "unescape" /\ state' = "second" /\ UNCHANGED <<buf, d>>
          /\ decoded' \in 0..15
      BY <1>5, <2>2, HexValueType DEF QuotedFirst, To
    <3>2. d + Len(<<>>) + Pending' <= s + 1
      BY <1>2, <2>1, <3>1 DEF Pending
    <3>3. <<>> \in Seq(Byte)
      OBVIOUS
    <3> QED BY <1>1, <3>1, <3>2, <3>3, ReadingKeepsInv
  <2>3. CASE Ch \notin Digit \cup HexAlpha
    <3>1. /\ phase' = "unescape" /\ state' = "usual" /\ decoded' = decoded
          /\ Put(<<Ch>>)
      BY <1>5, <2>3 DEF QuotedFirst, To
    <3>2. d + Len(<<Ch>>) + Pending' <= s + 1 /\ <<Ch>> \in Seq(Byte)
      BY <1>2, <1>3, <2>1, <3>1 DEF Pending
    <3> QED BY <1>1, <1>2, <3>1, <3>2, ReadingKeepsInv
  <2> QED BY <2>2, <2>3
<1>6. CASE QuotedSecond
  <2>1. state = "second" /\ d + 2 <= s /\ decoded' = decoded
    BY <1>2, <1>6 DEF QuotedSecond, Take, Pending
  <2>2. CASE Ch \in Digit \cup HexAlpha
    <3> DEFINE c == decoded * 16 + HexValue(Ch)
               out == IF Kept(c, Ch) THEN <<Percent, buf[s], Ch>> ELSE <<c>>
    <3>1. phase' \in {"unescape", "done"} /\ state' = "usual" /\ Put(out)
      BY <1>6, <2>2 DEF QuotedSecond, To
    <3>2. c \in Byte
      <4>1. HexValue(Ch) \in 0..15
        BY <2>2, HexValueType
      <4>2. ASSUME NEW v \in 0..15
            PROVE  decoded * 16 + v \in Byte
        BY <1>2 DEF Byte
      <4> QED BY <4>1, <4>2
    <3>3. buf[s] \in Byte
      BY <1>1, <1>2, <2>1
    <3> HIDE DEF c
    <3>4. out \in Seq(Byte) /\ Len(out) <= 3
      <4>1. <<Percent, buf[s], Ch>> \in Seq(Byte) /\ Len(<<Percent, buf[s], Ch>>) = 3
        BY <1>3, <3>3 DEF Percent, Byte
      <4>2. <<c>> \in Seq(Byte) /\ Len(<<c>>) = 1
        BY <3>2
      <4> QED BY <4>1, <4>2
    <3> HIDE DEF out
    <3>5. d + Len(out) + Pending' <= s + 1
      BY <1>2, <2>1, <3>1, <3>4 DEF Pending
    <3> QED BY <1>1, <1>2, <2>1, <3>1, <3>4, <3>5, ReadingKeepsInv
  <2>3. CASE Ch \notin Digit \cup HexAlpha
    <3>1. phase' = "unescape" /\ state' = "usual" /\ UNCHANGED <<buf, d>>
      BY <1>6, <2>3 DEF QuotedSecond, To
    <3>2. d + Len(<<>>) + Pending' <= s + 1
      BY <1>2, <2>1, <3>1 DEF Pending
    <3>3. <<>> \in Seq(Byte)
      OBVIOUS
    <3> QED BY <1>1, <1>2, <2>1, <3>1, <3>2, <3>3, ReadingKeepsInv
  <2> QED BY <2>2, <2>3
<1> QED BY <1>4, <1>5, <1>6

LEMMA EscapeInvNext == EscapeInv /\ [Next]_vars => EscapeInv'
<1> SUFFICES ASSUME EscapeInv, [Next]_vars
             PROVE  EscapeInv'
  OBVIOUS
<1>1. CASE Count \/ Allocate \/ EscapeByte \/ EscapeEnd
  BY <1>1, EscapingKeepsInv
<1>2. ASSUME NEW type \in SUBSET Flags, ngx_unescape_uri(type)
      PROVE  EscapeInv'
  <2>1. /\ phase' = "unescape" /\ s' = 0 /\ d' = 0 /\ state' = "usual" /\ decoded' = 0
        /\ source' = buf /\ buf' = buf /\ flags' = type
        /\ kind' = kind /\ text' = text /\ n' = n
    BY <1>2 DEF ngx_unescape_uri, input
  <2> QED BY <2>1 DEF EscapeInv, TypeOK, InPlace, Pending
<1>3. CASE Usual \/ QuotedFirst \/ QuotedSecond
  BY <1>3, UnescapingKeepsInv
<1>4. CASE UnescapeEnd
  BY <1>4 DEF UnescapeEnd, EscapeInv, TypeOK, InPlace, input, place, quoting
<1>5. CASE UNCHANGED vars
  BY <1>5 DEF vars, input, place, quoting, EscapeInv, TypeOK, InPlace, Pending, Counted
<1> QED BY <1>1, <1>2, <1>3, <1>4, <1>5 DEF Next

(* No call writes behind the buffer: escaping needs what was counted, and  *)
(* unescaping less (uti_string.c:537-567, :594-693, :712-771).             *)
THEOREM NothingBehindBuffer == Spec => []TypeOK
<1>1. EscapeInv => TypeOK
  BY DEF EscapeInv
<1> QED BY <1>1, EscapeInvInit, EscapeInvNext, PTL DEF Spec

(* Unescaping in place reads each byte before it is overwritten: the first *)
(* part of UnescapeCorrect, on which the second, what the result is, rests *)
(* (uti_string.c:594-693).                                                 *)
THEOREM UnescapesInPlace == Spec => []InPlace
<1>1. EscapeInv => InPlace
  BY DEF EscapeInv
<1> QED BY <1>1, EscapeInvInit, EscapeInvNext, PTL DEF Spec

-----------------------------------------------------------------------------
(* What unescaping gives from each position on.                            *)

Hex == Digit \cup HexAlpha

Code(t, i) == HexValue(t[i + 1]) * 16 + HexValue(t[i + 2])

RestAt(f, t, i) ==
  IF i = Len(t) + 1 THEN <<>>
  ELSE IF t[i] # Percent
    THEN <<t[i]>> \o (IF Stops(t[i]) THEN <<>> ELSE f[i + 1])
  ELSE IF i = Len(t) THEN <<>>
  ELSE IF ~(t[i + 1] \in Hex) THEN <<t[i + 1]>> \o f[i + 2]
  ELSE IF i + 1 = Len(t) THEN <<>>
  ELSE IF ~(t[i + 2] \in Hex) THEN f[i + 3]
  ELSE IF Stops(Code(t, i)) THEN <<Code(t, i)>>
  ELSE (IF Kept(Code(t, i), t[i + 2]) THEN SubSeq(t, i, i + 2) ELSE <<Code(t, i)>>)
         \o f[i + 3]

IsRest(f, t) ==
  /\ f \in [1..Len(t) + 1 -> Seq(Byte)]
  /\ \A i \in 1..Len(t) + 1 : f[i] = RestAt(f, t, i)

(* The bytes that position i gives, whether they are the last ones, and    *)
(* the position that is next.                                              *)
Ends(t, i) ==
  \/ i = Len(t) + 1
  \/ t[i] # Percent /\ Stops(t[i])
  \/ /\ t[i] = Percent
     /\ \/ i = Len(t)
        \/ /\ t[i + 1] \in Hex
           /\ i + 1 = Len(t) \/ (t[i + 2] \in Hex /\ Stops(Code(t, i)))

Out(t, i) ==
  IF i = Len(t) + 1 THEN <<>>
  ELSE IF t[i] # Percent THEN <<t[i]>>
  ELSE IF i = Len(t) THEN <<>>
  ELSE IF ~(t[i + 1] \in Hex) THEN <<t[i + 1]>>
  ELSE IF i + 1 = Len(t) \/ ~(t[i + 2] \in Hex) THEN <<>>
  ELSE IF ~Stops(Code(t, i)) /\ Kept(Code(t, i), t[i + 2]) THEN SubSeq(t, i, i + 2)
  ELSE <<Code(t, i)>>

Jump(t, i) ==
  IF t[i] # Percent THEN i + 1 ELSE IF ~(t[i + 1] \in Hex) THEN i + 2 ELSE i + 3

LEMMA CodeType ==
  ASSUME NEW t, NEW i, t[i + 1] \in Hex, t[i + 2] \in Hex
  PROVE  Code(t, i) \in Byte
<1>1. HexValue(t[i + 1]) \in 0..15 /\ HexValue(t[i + 2]) \in 0..15
  BY HexValueType DEF Hex
<1>2. \A v \in 0..15, w \in 0..15 : v * 16 + w \in Byte
  BY DEF Byte
<1> QED BY <1>1, <1>2 DEF Code

LEMMA ThreeBytes ==
  ASSUME NEW t \in Seq(Byte), NEW i \in Nat \ {0}, i + 2 <= Len(t)
  PROVE  SubSeq(t, i, i + 2) = <<t[i], t[i + 1], t[i + 2]>>
         /\ <<t[i], t[i + 1], t[i + 2]>> \in Seq(Byte)
<1> DEFINE u == SubSeq(t, i, i + 2)
           v == <<t[i], t[i + 1], t[i + 2]>>
<1>1. t[i] \in Byte /\ t[i + 1] \in Byte /\ t[i + 2] \in Byte /\ Len(t) \in Nat
  OBVIOUS
<1>2. v \in Seq(Byte) /\ Len(v) = 3
  BY <1>1
<1>3. u \in Seq(Byte) /\ Len(u) = 3 /\ \A j \in 1..3 : u[j] = t[i + j - 1]
  <2>1. \A j \in i..i + 2 : t[j] \in Byte
    BY <1>1
  <2>2. /\ u \in Seq(Byte) /\ Len(u) = IF i <= i + 2 THEN (i + 2) - i + 1 ELSE 0
        /\ \A j \in 1..(i + 2) - i + 1 : u[j] = t[i + j - 1]
    <3>1. i \in Int /\ i + 2 \in Int
      OBVIOUS
    <3> QED BY <2>1, <3>1, SubSeqProperties
  <2>3. (i + 2) - i + 1 = 3 /\ i <= i + 2
    OBVIOUS
  <2> HIDE DEF u
  <2> QED BY <2>2, <2>3
<1>4. \A j \in 1..3 : v[j] = t[i + j - 1]
  <2>1. \A j \in 1..3 : j = 1 \/ j = 2 \/ j = 3
    OBVIOUS
  <2>2. i + 1 - 1 = i /\ i + 2 - 1 = i + 1 /\ i + 3 - 1 = i + 2
    OBVIOUS
  <2>3. v[1] = t[i] /\ v[2] = t[i + 1] /\ v[3] = t[i + 2]
    OBVIOUS
  <2> HIDE DEF v
  <2> QED BY <2>1, <2>2, <2>3
<1>5. u = v
  <2>1. Len(u) = Len(v) /\ \A j \in 1..Len(u) : u[j] = v[j]
    <3> HIDE DEF u, v
    <3> QED BY <1>2, <1>3, <1>4
  <2> HIDE DEF u, v
  <2> QED BY <1>2, <1>3, <2>1, SeqEqual
<1> QED BY <1>2, <1>5

LEMMA OutType ==
  ASSUME NEW t \in Seq(Byte), NEW i \in 1..Len(t) + 1
  PROVE  /\ Out(t, i) \in Seq(Byte)
         /\ ~Ends(t, i) => Jump(t, i) \in 1..Len(t) + 1 /\ Jump(t, i) > i
<1>1. /\ Len(t) \in Nat /\ i \in Nat \ {0} /\ i <= Len(t) + 1
      /\ \A j \in 1..Len(t) : t[j] \in Byte
  OBVIOUS
<1>2. <<>> \in Seq(Byte) /\ \A c \in Byte : <<c>> \in Seq(Byte)
  OBVIOUS
<1>3. CASE i = Len(t) + 1
  BY <1>2, <1>3 DEF Out, Ends
<1>4. CASE i # Len(t) + 1 /\ t[i] # Percent
  BY <1>1, <1>2, <1>4 DEF Out, Ends, Jump
<1>5. CASE i # Len(t) + 1 /\ t[i] = Percent /\ i = Len(t)
  BY <1>1, <1>2, <1>5 DEF Out, Ends, Jump
<1>6. CASE i # Len(t) + 1 /\ t[i] = Percent /\ i # Len(t) /\ t[i + 1] \notin Hex
  BY <1>1, <1>2, <1>6 DEF Out, Ends, Jump
<1>7. CASE /\ i # Len(t) + 1 /\ t[i] = Percent /\ i # Len(t) /\ t[i + 1] \in Hex
           /\ i + 1 = Len(t)
  BY <1>1, <1>2, <1>7 DEF Out, Ends, Jump
<1>8. CASE /\ i # Len(t) + 1 /\ t[i] = Percent /\ i # Len(t) /\ t[i + 1] \in Hex
           /\ i + 1 # Len(t)
  <2>1. i + 2 <= Len(t) /\ i + 3 \in 1..Len(t) + 1 /\ i + 3 > i
    BY <1>1, <1>8
  <2>2. Jump(t, i) = i + 3
    BY <1>8 DEF Jump
  <2>3. Out(t, i) \in {<<>>, SubSeq(t, i, i + 2)}
        \/ (t[i + 2] \in Hex /\ Out(t, i) = <<Code(t, i)>>)
    BY <1>8 DEF Out
  <2>4. SubSeq(t, i, i + 2) \in Seq(Byte)
    BY <1>1, <2>1, ThreeBytes
  <2>5. t[i + 2] \in Hex => <<Code(t, i)>> \in Seq(Byte)
    BY <1>2, <1>8, CodeType
  <2> QED BY <1>2, <2>1, <2>2, <2>3, <2>4, <2>5
<1> QED BY <1>3, <1>4, <1>5, <1>6, <1>7, <1>8

LEMMA RestIsFold ==
  ASSUME NEW t \in Seq(Byte), NEW i \in 1..Len(t) + 1,
         NEW f \in [1..Len(t) + 1 -> Seq(Byte)]
  PROVE  RestAt(f, t, i) = IF Ends(t, i) THEN Out(t, i) ELSE Out(t, i) \o f[Jump(t, i)]
<1>1. \A a \in Seq(Byte) : <<>> \o a = a /\ a \o <<>> = a
  BY ConcatEmptySeq
<1>2. Len(t) \in Nat /\ \A j \in 1..Len(t) : <<t[j]>> \in Seq(Byte)
  OBVIOUS
<1>3. CASE i = Len(t) + 1
  BY <1>3 DEF RestAt, Ends, Out
<1>4. CASE i # Len(t) + 1 /\ t[i] # Percent
  <2>1. <<t[i]>> \o <<>> = <<t[i]>>
    BY <1>1, <1>2, <1>4
  <2> QED BY <1>4, <2>1 DEF RestAt, Ends, Out, Jump
<1>5. CASE i # Len(t) + 1 /\ t[i] = Percent /\ i = Len(t)
  BY <1>5 DEF RestAt, Ends, Out
<1>6. CASE i # Len(t) + 1 /\ t[i] = Percent /\ i # Len(t) /\ t[i + 1] \notin Hex
  BY <1>6 DEF RestAt, Ends, Out, Jump
<1>7. CASE /\ i # Len(t) + 1 /\ t[i] = Percent /\ i # Len(t) /\ t[i + 1] \in Hex
           /\ i + 1 = Len(t)
  BY <1>7 DEF RestAt, Ends, Out
<1>8. CASE /\ i # Len(t) + 1 /\ t[i] = Percent /\ i # Len(t) /\ t[i + 1] \in Hex
           /\ i + 1 # Len(t) /\ t[i + 2] \notin Hex
  <2>1. i + 3 \in 1..Len(t) + 1
    BY <1>2, <1>8
  <2>2. <<>> \o f[i + 3] = f[i + 3]
    BY <1>1, <2>1
  <2>3. RestAt(f, t, i) = f[i + 3]
    BY <1>8 DEF RestAt
  <2>4. ~Ends(t, i) /\ Out(t, i) = <<>> /\ Jump(t, i) = i + 3
    BY <1>8 DEF Ends, Out, Jump
  <2> QED BY <2>2, <2>3, <2>4
<1>9. CASE /\ i # Len(t) + 1 /\ t[i] = Percent /\ i # Len(t) /\ t[i + 1] \in Hex
           /\ i + 1 # Len(t) /\ t[i + 2] \in Hex
  BY <1>9 DEF RestAt, Ends, Out, Jump
<1> QED BY <1>3, <1>4, <1>5, <1>6, <1>7, <1>8, <1>9

(* There is such a function.                                               *)
LEMMA RestExists ==
  ASSUME NEW t \in Seq(Byte)
  PROVE  \E f : IsRest(f, t)
<1> DEFINE k == Len(t) + 1
           X == 1..k
           Y == Seq(Byte)
           stop == {i \in X : Ends(t, i)}
           val == [i \in X |-> Out(t, i)]
           nx == [i \in X |-> IF Ends(t, i) THEN i ELSE Jump(t, i)]
           op == [i \in X |-> [y \in Y |-> Out(t, i) \o y]]
<1>1. k \in Nat
  OBVIOUS
<1>2. \A i \in X : /\ Out(t, i) \in Y
                   /\ ~Ends(t, i) => Jump(t, i) \in X /\ Jump(t, i) > i
  BY OutType
<1>3. stop \in SUBSET X /\ val \in [X -> Y] /\ nx \in [X -> X]
  <2> HIDE DEF X, Y
  <2> QED BY <1>2
<1>4. op \in [X -> [Y -> Y]]
  <2>1. \A a, b \in Y : a \o b \in Y
    BY ConcatProperties
  <2> HIDE DEF X, Y
  <2> QED BY <1>2, <2>1
<1>5. WalksEnd(X, stop, nx)
  <2>1. \A i \in X : i \notin stop => nx[i] > i
    <3> HIDE DEF X
    <3> QED BY <1>2
  <2> HIDE DEF k, stop, nx
  <2> QED BY <1>1, <1>3, <2>1, UpEnds
<1>6. PICK f \in [X -> Y] : IsFold(f, X, stop, val, nx, op)
  <2> HIDE DEF X, Y, stop, val, nx, op
  <2> QED BY <1>3, <1>4, <1>5, FoldExists
<1>7. f = [i \in X |-> IF i \in stop THEN val[i] ELSE op[i][f[nx[i]]]]
  <2> HIDE DEF X, Y, stop, val, nx, op
  <2> QED BY <1>6 DEF IsFold
<1>8. ASSUME NEW i \in X PROVE f[i] = RestAt(f, t, i)
  <2>1. f[i] = IF i \in stop THEN val[i] ELSE op[i][f[nx[i]]]
    <3> HIDE DEF X, Y, stop, val, nx, op
    <3> QED BY <1>7
  <2>2. nx[i] \in X /\ f[nx[i]] \in Y
    <3> HIDE DEF X, Y, stop, val, nx, op
    <3> QED BY <1>3, <1>6
  <2>3. f[i] = IF Ends(t, i) THEN Out(t, i) ELSE Out(t, i) \o f[Jump(t, i)]
    <3> HIDE DEF X, Y
    <3> QED BY <2>1, <2>2
  <2>4. RestAt(f, t, i) = IF Ends(t, i) THEN Out(t, i) ELSE Out(t, i) \o f[Jump(t, i)]
    BY <1>6, RestIsFold
  <2> QED BY <2>3, <2>4
<1> QED BY <1>6, <1>8 DEF IsRest

(* And it is the one in Unescaped.                                         *)
LEMMA UnescapedIs ==
  ASSUME NEW t \in Seq(Byte), NEW f, IsRest(f, t)
  PROVE  Unescaped(t) = f[1]
<1> DEFINE X == 1..Len(t) + 1
           rest[i \in X] ==
             IF i = Len(t) + 1 THEN <<>>
             ELSE IF t[i] # Percent
               THEN <<t[i]>> \o (IF Stops(t[i]) THEN <<>> ELSE rest[i + 1])
             ELSE IF i = Len(t) THEN <<>>
             ELSE IF ~(t[i + 1] \in Hex) THEN <<t[i + 1]>> \o rest[i + 2]
             ELSE IF i + 1 = Len(t) THEN <<>>
             ELSE IF ~(t[i + 2] \in Hex) THEN rest[i + 3]
             ELSE IF Stops(Code(t, i)) THEN <<Code(t, i)>>
             ELSE (IF Kept(Code(t, i), t[i + 2]) THEN SubSeq(t, i, i + 2)
                                                 ELSE <<Code(t, i)>>)
                    \o rest[i + 3]
<1>1. Unescaped(t) = rest[1]
  BY DEF Unescaped, Hex, Code
<1>2. f \in [X -> Seq(Byte)] /\ \A i \in X : f[i] = RestAt(f, t, i)
  BY DEF IsRest
<1>3. \E g : g = [i \in X |-> RestAt(g, t, i)]
  <2> HIDE DEF X
  <2>1. f = [i \in X |-> RestAt(f, t, i)]
    BY <1>2
  <2> QED BY <2>1
<1>4. rest = [i \in X |-> RestAt(rest, t, i)]
  <2> HIDE DEF X
  <2> QED BY <1>3, Zenon DEF RestAt
<1>5. \A i \in X : rest[i] = RestAt(rest, t, i)
  <2> HIDE DEF X, rest
  <2> QED BY <1>4
<1> HIDE DEF rest
<1> DEFINE A == {k \in Nat : \A i \in X : i + k > Len(t) + 1 => rest[i] = f[i]}
<1>6. 0 \in A
  OBVIOUS
<1>7. ASSUME NEW k \in Nat, k \in A PROVE k + 1 \in A
  <2>1. ASSUME NEW i \in X, i + (k + 1) > Len(t) + 1 PROVE rest[i] = f[i]
    <3>1. Len(t) \in Nat /\ i \in Nat /\ i <= Len(t) + 1
      OBVIOUS
    <3>2. /\ i # Len(t) + 1 => rest[i + 1] = f[i + 1]
          /\ i # Len(t) + 1 /\ i # Len(t) => rest[i + 2] = f[i + 2]
          /\ i # Len(t) + 1 /\ i # Len(t) /\ i + 1 # Len(t) => rest[i + 3] = f[i + 3]
      <4>1. \A j \in X : j + k > Len(t) + 1 => rest[j] = f[j]
        BY <1>7
      <4>2. /\ i # Len(t) + 1 => i + 1 \in X /\ (i + 1) + k > Len(t) + 1
            /\ i # Len(t) + 1 /\ i # Len(t) => i + 2 \in X /\ (i + 2) + k > Len(t) + 1
            /\ i # Len(t) + 1 /\ i # Len(t) /\ i + 1 # Len(t)
                 => i + 3 \in X /\ (i + 3) + k > Len(t) + 1
        BY <2>1, <3>1
      <4> HIDE DEF X
      <4> QED BY <4>1, <4>2
    <3>3. RestAt(rest, t, i) = RestAt(f, t, i)
      <4> HIDE DEF X, A
      <4> QED BY <3>2 DEF RestAt
    <3> QED BY <1>2, <1>5, <3>3
  <2> QED BY <2>1
<1>8. Nat \subseteq A
  <2> HIDE DEF A
  <2> QED BY <1>6, <1>7, NatInduct
<1>9. rest[1] = f[1]
  <2>1. Len(t) + 1 \in Nat /\ 1 \in X /\ 1 + (Len(t) + 1) > Len(t) + 1
    OBVIOUS
  <2>2. Len(t) + 1 \in A
    <3> HIDE DEF A
    <3> QED BY <1>8, <2>1
  <2> QED BY <2>1, <2>2
<1> QED BY <1>1, <1>9

(* What was read so far gave Contents; a quotation that is being read      *)
(* still counts as not read.                                               *)
Quoting ==
  /\ Len(source) = Len(buf)
  /\ state # "usual" => source[s + 1 - Pending] = Percent
  /\ state = "second" => source[s] \in Hex /\ decoded = HexValue(source[s])

UnescInv ==
  /\ phase = "unescape" =>
       Quoting /\ \A f : IsRest(f, source) => Contents \o f[s + 1 - Pending] = f[1]
  /\ phase = "done" => \A f : IsRest(f, source) => Contents = f[1]

LEMMA ContentsGrow ==
  ASSUME buf \in Seq(Byte), d \in 0..Len(buf), NEW out \in Seq(Byte), Put(out),
         d + Len(out) <= Len(buf)
  PROVE  Contents' = Contents \o out
<1>1. /\ Len(buf) \in Nat /\ Len(out) \in Nat /\ d \in Nat /\ d' = d + Len(out)
      /\ buf' = [i \in 1..Len(buf) |-> IF i - d \in 1..Len(out) THEN out[i - d] ELSE buf[i]]
  BY DEF Put
<1>2. buf' \in Seq(Byte) /\ Len(buf') = Len(buf)
  BY PutEffect, <1>1
<1> DEFINE a == Contents
           b == Contents'
<1>3. a \in Seq(Byte) /\ Len(a) = d /\ \A i \in 1..d : a[i] = buf[i]
  BY FirstOf DEF Contents
<1>4. b \in Seq(Byte) /\ Len(b) = d' /\ \A i \in 1..d' : b[i] = buf'[i]
  <2>1. d' \in 0..Len(buf')
    BY <1>1, <1>2
  <2>2. b = SubSeq(buf', 1, d')
    BY DEF Contents
  <2> HIDE DEF b
  <2> QED BY <1>2, <2>1, <2>2, FirstOf
<1> HIDE DEF a, b
<1>5. /\ a \o out \in Seq(Byte) /\ Len(a \o out) = d + Len(out)
      /\ \A i \in 1..Len(a) + Len(out) :
           (a \o out)[i] = IF i <= Len(a) THEN a[i] ELSE out[i - Len(a)]
  BY <1>3, ConcatProperties
<1>6. ASSUME NEW i \in 1..d' PROVE b[i] = (a \o out)[i]
  <2>1. i \in 1..Len(buf) /\ i \in 1..Len(a) + Len(out)
    BY <1>1, <1>3
  <2>2. buf'[i] = IF i - d \in 1..Len(out) THEN out[i - d] ELSE buf[i]
    BY <1>1, <2>1
  <2>3. i <= d => i - d \notin 1..Len(out) /\ i \in 1..d
    BY <1>1
  <2>4. ~(i <= d) => i - d \in 1..Len(out)
    BY <1>1
  <2> QED BY <1>3, <1>4, <1>5, <2>1, <2>2, <2>3, <2>4
<1>7. b = a \o out
  <2>1. Len(b) = Len(a \o out) /\ \A i \in 1..Len(b) : b[i] = (a \o out)[i]
    BY <1>1, <1>4, <1>5, <1>6
  <2> QED BY <1>4, <1>5, <2>1, SeqEqual
<1> QED BY <1>7 DEF a, b

LEMMA ContentsType ==
  ASSUME buf \in Seq(Byte), d \in 0..Len(buf)
  PROVE  Contents \in Seq(Byte)
BY FirstOf DEF Contents

LEMMA SameRest ==
  ASSUME UNCHANGED <<flags, source>>, NEW f
  PROVE  IsRest(f, source)' <=> IsRest(f, source)
BY DEF IsRest, RestAt, Stops, Kept, Code

(* A step that reads a byte, and gives out or nothing yet.                 *)
Follows(f, out) ==
  f[s + 1 - Pending] = IF phase' = "done" THEN out
                       ELSE out \o f[s' + 1 - Pending']

LEMMA ReadingUnescapes ==
  ASSUME EscapeInv, UnescInv, NEW out \in Seq(Byte),
         phase = "unescape", s < Len(buf), s' = s + 1,
         UNCHANGED <<flags, source>>,
         phase' \in {"unescape", "done"},
         Put(out) \/ (out = <<>> /\ UNCHANGED <<buf, d>>),
         d + Len(out) <= s + 1,
         phase' = "unescape" => Quoting' /\ s' + 1 - Pending' \in 1..Len(source) + 1,
         \A f : IsRest(f, source) => Follows(f, out)
  PROVE  UnescInv'
<1>1. buf \in Seq(Byte) /\ d \in 0..Len(buf) /\ s \in Nat /\ Len(buf) \in Nat /\ Len(out) \in Nat
  BY DEF EscapeInv, TypeOK
<1>2. Contents \in Seq(Byte)
  BY <1>1, ContentsType
<1>3. Contents' = Contents \o out
  <2>1. CASE Put(out)
    BY <1>1, <2>1, ContentsGrow
  <2>2. CASE out = <<>> /\ UNCHANGED <<buf, d>>
    BY <1>2, <2>2, ConcatEmptySeq DEF Contents
  <2> QED BY <2>1, <2>2
<1>4. ASSUME NEW f, IsRest(f, source)'
      PROVE  /\ phase' = "done" => Contents' = f[1]
             /\ phase' = "unescape" => Contents' \o f[s' + 1 - Pending'] = f[1]
  <2>1. IsRest(f, source)
    BY <1>4, SameRest
  <2>2. Contents \o f[s + 1 - Pending] = f[1]
    BY <2>1 DEF UnescInv
  <2>3. Follows(f, out)
    BY <2>1
  <2>4. CASE phase' = "done"
    BY <1>3, <2>2, <2>3, <2>4 DEF Follows
  <2>5. CASE phase' = "unescape"
    <3> DEFINE rest == f[s' + 1 - Pending']
    <3>1. rest \in Seq(Byte)
      BY <2>1, <2>5 DEF IsRest
    <3>2. f[s + 1 - Pending] = out \o rest
      BY <2>3, <2>5 DEF Follows
    <3> HIDE DEF rest
    <3>3. (Contents \o out) \o rest = Contents \o (out \o rest)
      BY <1>2, <3>1, ConcatAssociative
    <3> QED BY <1>3, <2>2, <2>5, <3>2, <3>3 DEF rest
  <2> QED BY <2>4, <2>5
<1>5. phase' = "unescape" => Quoting'
  OBVIOUS
<1> QED BY <1>4, <1>5 DEF UnescInv

LEMMA UnescapingGives ==
  ASSUME EscapeInv, UnescInv, Usual \/ QuotedFirst \/ QuotedSecond
  PROVE  UnescInv'
<1>1. /\ phase = "unescape" /\ s < Len(buf) /\ s' = s + 1
      /\ UNCHANGED <<flags, source>>
  BY DEF Usual, QuotedFirst, QuotedSecond, Take
<1>2. /\ s \in Nat /\ d \in Nat /\ buf \in Seq(Byte) /\ Len(buf) \in Nat /\ source \in Seq(Byte)
      /\ d + Pending <= s /\ decoded \in 0..15 /\ state \in {"usual", "quoted", "second"}
      /\ \A i \in d + 1..Len(buf) : buf[i] = source[i]
      /\ Quoting /\ Len(source) = Len(buf)
  BY <1>1 DEF EscapeInv, TypeOK, InPlace, UnescInv, Quoting
<1>3. Ch = source[s + 1] /\ Ch \in Byte /\ s + 1 \in 1..Len(source)
  <2>1. s + 1 \in d + 1..Len(buf)
    BY <1>1, <1>2 DEF Pending
  <2> QED BY <1>1, <1>2, <2>1 DEF Ch
<1>4. Len(buf') = Len(buf)
  <2>1. DOMAIN buf' = DOMAIN buf /\ buf' \in Seq(Byte)
    <3>1. EscapeInv'
      BY UnescapingKeepsInv
    <3>2. DOMAIN buf' = DOMAIN buf
      BY DEF Usual, QuotedFirst, QuotedSecond, Put
    <3> QED BY <3>1, <3>2 DEF EscapeInv, TypeOK
  <2>2. 1..Len(buf') = 1..Len(buf) /\ Len(buf') \in Nat
    BY <1>2, <2>1
  <2> QED BY <1>2, <2>2
<1>5. \A a \in Seq(Byte) : <<>> \o a = a /\ a \o <<>> = a
  BY ConcatEmptySeq
<1>6. \A f : IsRest(f, source) =>
        /\ \A i \in 1..Len(source) + 1 : f[i] = RestAt(f, source, i) /\ f[i] \in Seq(Byte)
  BY DEF IsRest
<1>7. <<>> \in Seq(Byte) /\ <<Ch>> \in Seq(Byte) /\ Len(<<Ch>>) = 1
  BY <1>3
<1>8. CASE Usual
  <2>1. state = "usual" /\ Pending = 0 /\ d <= s
    BY <1>2, <1>8 DEF Usual, Take, Pending
  <2>2. CASE Ch = Percent
    <3>1. phase' = "unescape" /\ state' = "quoted" /\ UNCHANGED <<buf, d>> /\ Pending' = 1
      BY <1>8, <2>2 DEF Usual, To, Pending
    <3>2. s' + 1 - Pending' = s + 1 /\ s + 1 - Pending = s + 1
      BY <1>1, <1>2, <2>1, <3>1
    <3>3. Quoting'
      BY <1>1, <1>2, <1>3, <2>2, <3>1, <3>2 DEF Quoting
    <3>4. ASSUME NEW f, IsRest(f, source) PROVE Follows(f, <<>>)
      <4>1. f[s + 1] \in Seq(Byte)
        BY <1>3, <1>6, <3>4
      <4> QED BY <1>5, <3>1, <3>2, <4>1 DEF Follows
    <3>5. d + Len(<<>>) <= s + 1 /\ s + 1 \in 1..Len(source) + 1
      BY <1>1, <1>2, <2>1
    <3> QED BY <1>1, <1>3, <1>7, <3>1, <3>2, <3>3, <3>4, <3>5, ReadingUnescapes
  <2>3. CASE Ch # Percent
    <3>1. /\ phase' = IF Stops(Ch) THEN "done" ELSE "unescape"
          /\ state' = "usual" /\ Put(<<Ch>>) /\ Pending' = 0
      BY <1>8, <2>3 DEF Usual, To, Pending
    <3>2. s' + 1 - Pending' = s + 2 /\ s + 1 - Pending = s + 1
      BY <1>1, <1>2, <2>1, <3>1
    <3>3. Quoting'
      BY <1>1, <1>2, <1>4, <3>1 DEF Quoting
    <3>4. ASSUME NEW f, IsRest(f, source) PROVE Follows(f, <<Ch>>)
      <4>1. f[s + 1] = RestAt(f, source, s + 1)
        BY <1>3, <1>6, <3>4
      <4>2. s + 1 # Len(source) + 1 /\ (s + 1) + 1 = s + 2
        BY <1>1, <1>2
      <4>3. f[s + 1] = <<Ch>> \o (IF Stops(Ch) THEN <<>> ELSE f[s + 2])
        BY <1>3, <2>3, <4>1, <4>2 DEF RestAt
      <4>4. <<Ch>> \o <<>> = <<Ch>>
        BY <1>5, <1>7
      <4> QED BY <3>1, <3>2, <4>3, <4>4 DEF Follows
    <3>5. d + Len(<<Ch>>) <= s + 1 /\ s + 2 \in 1..Len(source) + 1
      BY <1>1, <1>2, <1>7, <2>1
    <3> QED BY <1>1, <1>3, <1>7, <3>1, <3>2, <3>3, <3>4, <3>5, ReadingUnescapes
  <2> QED BY <2>2, <2>3
<1>9. CASE QuotedFirst
  <2>1. state = "quoted" /\ Pending = 1 /\ d + 1 <= s
    BY <1>2, <1>9 DEF QuotedFirst, Take, Pending
  <2>2. s + 1 - Pending = s /\ source[s] = Percent /\ s \in 1..Len(source)
    <3>1. s + 1 - Pending = s
      BY <1>2, <2>1
    <3> QED BY <1>1, <1>2, <2>1, <3>1 DEF Quoting
  <2>3. CASE Ch \in Hex
    <3>1. phase' = "unescape" /\ state' = "second" /\ UNCHANGED <<buf, d>> /\ Pending' = 2
          /\ decoded' = HexValue(Ch)
      BY <1>9, <2>3 DEF QuotedFirst, To, Pending, Hex
    <3>2. s' + 1 - Pending' = s
      BY <1>1, <1>2, <3>1
    <3>3. Quoting'
      BY <1>1, <1>2, <1>3, <2>2, <2>3, <3>1, <3>2 DEF Quoting
    <3>4. ASSUME NEW f, IsRest(f, source) PROVE Follows(f, <<>>)
      <4>1. f[s] \in Seq(Byte)
        BY <1>2, <1>6, <2>2, <3>4
      <4> QED BY <1>5, <2>2, <3>1, <3>2, <4>1 DEF Follows
    <3>5. d + Len(<<>>) <= s + 1 /\ s \in 1..Len(source) + 1
      BY <1>2, <2>1, <2>2
    <3> QED BY <1>1, <1>3, <1>7, <3>1, <3>2, <3>3, <3>4, <3>5, ReadingUnescapes
  <2>4. CASE Ch \notin Hex
    <3>1. phase' = "unescape" /\ state' = "usual" /\ Put(<<Ch>>) /\ Pending' = 0
      BY <1>9, <2>4 DEF QuotedFirst, To, Pending, Hex
    <3>2. s' + 1 - Pending' = s + 2
      BY <1>1, <1>2, <3>1
    <3>3. Quoting'
      BY <1>1, <1>2, <1>4, <3>1 DEF Quoting
    <3>4. ASSUME NEW f, IsRest(f, source) PROVE Follows(f, <<Ch>>)
      <4>1. f[s] = RestAt(f, source, s)
        BY <1>2, <1>6, <2>2, <3>4
      <4>2. s # Len(source) + 1 /\ s # Len(source)
        BY <1>1, <1>2
      <4>3. f[s] = <<Ch>> \o f[s + 2]
        BY <1>3, <2>2, <2>4, <4>1, <4>2 DEF RestAt
      <4> QED BY <2>2, <3>1, <3>2, <4>3 DEF Follows
    <3>5. d + Len(<<Ch>>) <= s + 1 /\ s + 2 \in 1..Len(source) + 1
      BY <1>1, <1>2, <1>7, <2>1
    <3> QED BY <1>1, <1>3, <1>7, <3>1, <3>2, <3>3, <3>4, <3>5, ReadingUnescapes
  <2> QED BY <2>3, <2>4
<1>10. CASE QuotedSecond
  <2>1. state = "second" /\ Pending = 2 /\ d + 2 <= s
    BY <1>2, <1>10 DEF QuotedSecond, Take, Pending
  <2> DEFINE p == s - 1
  <2>2. /\ s + 1 - Pending = p /\ p + 1 = s /\ p + 2 = s + 1 /\ p + 3 = s + 2
        /\ p \in Nat \ {0} /\ p + 2 <= Len(source)
    BY <1>1, <1>2, <2>1
  <2>3. source[p] = Percent /\ source[s] \in Hex /\ decoded = HexValue(source[s])
    BY <1>2, <2>1, <2>2 DEF Quoting
  <2>4. \A f : IsRest(f, source) => f[p] = RestAt(f, source, p)
    <3>1. p \in 1..Len(source) + 1
      BY <1>2, <2>2
    <3> QED BY <1>6, <3>1
  <2>5. p # Len(source) + 1 /\ p # Len(source) /\ p + 1 # Len(source)
    BY <1>2, <2>2
  <2> HIDE DEF p
  <2>6. CASE Ch \in Hex
    <3> DEFINE c == decoded * 16 + HexValue(Ch)
               out == IF Kept(c, Ch) THEN <<Percent, buf[s], Ch>> ELSE <<c>>
    <3>1. /\ phase' = IF Stops(c) THEN "done" ELSE "unescape"
          /\ state' = "usual" /\ Put(out) /\ Pending' = 0
      BY <1>10, <2>6 DEF QuotedSecond, To, Pending, Hex
    <3>2. c = Code(source, p)
      BY <1>3, <2>2, <2>3 DEF Code
    <3>3. c \in Byte
      BY <1>3, <2>2, <2>3, <2>6, <3>2, CodeType
    <3>4. buf[s] = source[s]
      <4>1. s \in d + 1..Len(buf)
        BY <1>1, <1>2, <2>1
      <4> QED BY <1>2, <4>1
    <3> HIDE DEF c
    <3>5. /\ <<Percent, buf[s], Ch>> = SubSeq(source, p, p + 2)
          /\ <<Percent, buf[s], Ch>> \in Seq(Byte) /\ Len(<<Percent, buf[s], Ch>>) = 3
      <4>1. SubSeq(source, p, p + 2) = <<source[p], source[p + 1], source[p + 2]>>
            /\ <<source[p], source[p + 1], source[p + 2]>> \in Seq(Byte)
        BY <1>2, <2>2, ThreeBytes
      <4>2. source[p + 1] = source[s] /\ source[p + 2] = Ch
        BY <1>3, <2>2
      <4> QED BY <2>3, <3>4, <4>1, <4>2
    <3>6. out \in Seq(Byte) /\ Len(out) <= 3
      BY <3>3, <3>5
    <3>7. Stops(c) => ~Kept(c, Ch)
      BY DEF Stops, Kept, Question, Percent
    <3>8. s' + 1 - Pending' = s + 2
      BY <1>1, <1>2, <3>1
    <3>9. Quoting'
      BY <1>1, <1>2, <1>4, <3>1 DEF Quoting
    <3>10. ASSUME NEW f, IsRest(f, source) PROVE Follows(f, out)
      <4>1. f[p] = IF Stops(c) THEN <<c>>
                   ELSE (IF Kept(c, Ch) THEN SubSeq(source, p, p + 2) ELSE <<c>>) \o f[s + 2]
        <5>1. f[p] = RestAt(f, source, p)
          BY <2>4, <3>10
        <5>2. source[p + 1] \in Hex /\ source[p + 2] \in Hex /\ source[p + 2] = Ch
          BY <1>3, <2>2, <2>3, <2>6
        <5> QED BY <2>2, <2>3, <2>5, <3>2, <5>1, <5>2 DEF RestAt
      <4> QED BY <2>2, <3>1, <3>5, <3>7, <3>8, <4>1 DEF Follows
    <3> HIDE DEF out
    <3>11. d + Len(out) <= s + 1 /\ s + 2 \in 1..Len(source) + 1
      <4>1. Len(out) \in Nat
        BY <3>6
      <4> QED BY <1>1, <1>2, <2>1, <3>6, <4>1
    <3>12. phase' \in {"unescape", "done"}
      BY <3>1
    <3> QED BY <1>1, <3>1, <3>6, <3>8, <3>9, <3>10, <3>11, <3>12, ReadingUnescapes
  <2>7. CASE Ch \notin Hex
    <3>1. phase' = "unescape" /\ state' = "usual" /\ UNCHANGED <<buf, d>> /\ Pending' = 0
      BY <1>10, <2>7 DEF QuotedSecond, To, Pending, Hex
    <3>2. s' + 1 - Pending' = s + 2
      BY <1>1, <1>2, <3>1
    <3>3. Quoting'
      BY <1>1, <1>2, <3>1 DEF Quoting
    <3>4. ASSUME NEW f, IsRest(f, source) PROVE Follows(f, <<>>)
      <4>1. f[p] = RestAt(f, source, p)
        BY <2>4, <3>4
      <4>2. source[p + 1] \in Hex /\ source[p + 2] \notin Hex
        BY <1>3, <2>2, <2>3, <2>7
      <4>3. f[p] = f[p + 3]
        BY <2>3, <2>5, <4>1, <4>2 DEF RestAt
      <4>4. s + 2 \in 1..Len(source) + 1
        BY <1>1, <1>2
      <4>5. f[s + 2] \in Seq(Byte)
        BY <1>6, <3>4, <4>4
      <4> QED BY <1>5, <2>2, <3>1, <3>2, <4>3, <4>5 DEF Follows
    <3>5. d + Len(<<>>) <= s + 1 /\ s + 2 \in 1..Len(source) + 1
      BY <1>1, <1>2, <2>1
    <3> QED BY <1>1, <1>7, <3>1, <3>2, <3>3, <3>4, <3>5, ReadingUnescapes
  <2> QED BY <2>6, <2>7
<1> QED BY <1>8, <1>9, <1>10

LEMMA UnescInvNext == EscapeInv /\ UnescInv /\ [Next]_vars => UnescInv'
<1> SUFFICES ASSUME EscapeInv, UnescInv, [Next]_vars
             PROVE  UnescInv'
  OBVIOUS
<1>1. CASE Count \/ Allocate \/ EscapeByte \/ EscapeEnd
  BY <1>1 DEF Count, Allocate, EscapeByte, EscapeEnd, UnescInv
<1>2. ASSUME NEW type \in SUBSET Flags, ngx_unescape_uri(type)
      PROVE  UnescInv'
  <2>1. /\ phase' = "unescape" /\ s' = 0 /\ d' = 0 /\ state' = "usual"
        /\ source' = buf /\ buf' = buf /\ Pending' = 0
    BY <1>2 DEF ngx_unescape_uri, Pending
  <2>2. buf \in Seq(Byte)
    BY DEF EscapeInv, TypeOK
  <2>3. Quoting'
    BY <2>1 DEF Quoting
  <2>4. Contents' = <<>> /\ s' + 1 - Pending' = 1
    <3>1. SubSeq(buf, 1, 0) = <<>>
      <4>1. 0 \in 0..Len(buf)
        BY <2>2
      <4>2. SubSeq(buf, 1, 0) \in Seq(Byte) /\ Len(SubSeq(buf, 1, 0)) = 0
        BY <2>2, <4>1, FirstOf
      <4> QED BY <4>2, EmptySeq
    <3> QED BY <2>1, <3>1 DEF Contents
  <2>5. ASSUME NEW f, IsRest(f, source)' PROVE Contents' \o f[s' + 1 - Pending'] = f[1]
    <3>1. f[1] \in Seq(Byte)
      <4>1. f \in [1..Len(buf) + 1 -> Seq(Byte)] /\ 1 \in 1..Len(buf) + 1
        BY <2>1, <2>2, <2>5 DEF IsRest
      <4> QED BY <4>1
    <3> QED BY <2>4, <3>1, ConcatEmptySeq
  <2> QED BY <2>1, <2>3, <2>5 DEF UnescInv
<1>3. CASE Usual \/ QuotedFirst \/ QuotedSecond
  BY <1>3, UnescapingGives
<1>4. CASE UnescapeEnd
  <2>1. /\ phase = "unescape" /\ phase' = "done" /\ s = Len(buf)
        /\ UNCHANGED <<buf, d, flags, source>>
    BY <1>4 DEF UnescapeEnd, place, quoting
  <2>2. /\ s \in Nat /\ d \in Nat /\ source \in Seq(Byte) /\ d + Pending <= s
        /\ Quoting /\ Len(source) = s
    BY <2>1 DEF EscapeInv, TypeOK, InPlace, UnescInv, Quoting
  <2>3. Contents \in Seq(Byte) /\ Contents' = Contents
    BY <2>1, ContentsType DEF EscapeInv, TypeOK, Contents
  <2>4. ASSUME NEW f, IsRest(f, source) PROVE f[s + 1 - Pending] = <<>>
    <3> DEFINE p == s + 1 - Pending
    <3>1. state \in {"usual", "quoted", "second"}
      BY DEF EscapeInv, TypeOK
    <3>2. /\ state = "usual" => p = s + 1
          /\ state = "quoted" => p = s /\ s # s + 1 /\ s >= 1
          /\ state = "second" => p = s - 1 /\ p + 1 = s /\ p # s /\ p # s + 1 /\ p >= 1
      BY <2>2 DEF Pending
    <3>3. p \in 1..Len(source) + 1
      <4>1. p = s + 1 \/ p = s \/ p + 1 = s
        BY <3>1, <3>2
      <4>2. p \in Int /\ p >= 1
        BY <2>2, <3>1, <3>2
      <4> HIDE DEF p
      <4> QED BY <2>2, <4>1, <4>2
    <3>4. f[p] = RestAt(f, source, p)
      BY <2>4, <3>3 DEF IsRest
    <3>5. state # "usual" => source[p] = Percent
      BY <2>2 DEF Quoting
    <3>6. state = "second" => source[p + 1] \in Hex
      BY <2>2, <3>2 DEF Quoting
    <3> HIDE DEF p
    <3>7. RestAt(f, source, p) = <<>>
      BY <2>2, <3>1, <3>2, <3>5, <3>6 DEF RestAt
    <3> QED BY <3>4, <3>7 DEF p
  <2>5. ASSUME NEW f, IsRest(f, source)' PROVE Contents' = f[1]
    <3>1. IsRest(f, source)
      BY <2>1, <2>5, SameRest
    <3>2. Contents \o <<>> = f[1]
      BY <2>1, <2>4, <3>1 DEF UnescInv
    <3> QED BY <2>3, <3>2, ConcatEmptySeq
  <2> QED BY <2>1, <2>5 DEF UnescInv
<1>5. CASE UNCHANGED vars
  <2>1. UNCHANGED <<phase, buf, s, d, flags, state, decoded, source>>
    BY <1>5 DEF vars, place, quoting
  <2>2. Contents' = Contents /\ Pending' = Pending /\ Quoting' = Quoting
    BY <2>1 DEF Contents, Pending, Quoting
  <2>3. \A f : IsRest(f, source)' <=> IsRest(f, source)
    BY <2>1, SameRest
  <2> QED BY <2>1, <2>2, <2>3 DEF UnescInv
<1> QED BY <1>1, <1>2, <1>3, <1>4, <1>5 DEF Next

(* Unescaping a buffer into itself gives what it would give elsewhere,     *)
(* broken quotations included (uti_string.c:594-693).                      *)
THEOREM UnescapesCorrectly == Spec => []UnescapeCorrect
<1>1. Init => UnescInv
  BY DEF Init, UnescInv
<1>2. EscapeInv /\ UnescInv => UnescapeCorrect
  <2> SUFFICES ASSUME EscapeInv, UnescInv, phase = "done"
               PROVE  Contents = Unescaped(source)
    BY DEF UnescapeCorrect, EscapeInv
  <2>1. source \in Seq(Byte)
    BY DEF EscapeInv, TypeOK
  <2>2. PICK f : IsRest(f, source)
    BY <2>1, RestExists
  <2>3. Unescaped(source) = f[1]
    BY <2>1, <2>2, UnescapedIs
  <2>4. Contents = f[1]
    BY <2>2 DEF UnescInv
  <2> QED BY <2>3, <2>4
<1> QED BY <1>1, <1>2, EscapeInvInit, EscapeInvNext, UnescInvNext, PTL DEF Spec

-----------------------------------------------------------------------------
(* What the second call writes: the first m bytes of text, each of them    *)
(* escaped.                                                                *)

Pieces == [i \in 1..Len(text) |-> Escaped(text[i])]

EscapedText(m) == Joined(Pieces, m)

LEMMA PiecesType ==
  ASSUME text \in Seq(Byte)
  PROVE  Pieces \in Seq(Seq(Byte)) /\ Len(Pieces) = Len(text)
<1>1. \A i \in 1..Len(text) : text[i] \in Byte
  OBVIOUS
<1>2. \A i \in 1..Len(text) : Escaped(text[i]) \in Seq(Byte)
  BY <1>1, EscapedLength
<1> QED BY <1>2 DEF Pieces

LEMMA EscapedTextType ==
  ASSUME text \in Seq(Byte), NEW m \in 0..Len(text)
  PROVE  EscapedText(m) \in Seq(Byte) /\ Len(EscapedText(m)) \in Nat
BY PiecesType, JoinedType DEF EscapedText

LEMMA EscapedTextNone ==
  ASSUME text \in Seq(Byte)
  PROVE  EscapedText(0) = <<>>
BY PiecesType, JoinedNone DEF EscapedText

LEMMA EscapedTextMore ==
  ASSUME text \in Seq(Byte), NEW m \in Nat, m < Len(text)
  PROVE  /\ EscapedText(m) \in Seq(Byte)
         /\ Escaped(text[m + 1]) \in Seq(Byte)
         /\ EscapedText(m + 1) = EscapedText(m) \o Escaped(text[m + 1])
<1>1. Pieces[m + 1] = Escaped(text[m + 1])
  BY DEF Pieces
<1>2. /\ Joined(Pieces, m) \in Seq(Byte) /\ Pieces[m + 1] \in Seq(Byte)
      /\ Joined(Pieces, m + 1) = Joined(Pieces, m) \o Pieces[m + 1]
  BY PiecesType, JoinedMore
<1> QED BY <1>1, <1>2 DEF EscapedText

(* Where byte m + 1 is.                                                    *)
LEMMA PieceAt ==
  ASSUME text \in Seq(Byte), NEW m \in Nat, m < Len(text),
         NEW t, t = EscapedText(Len(text)), NEW e, e = Escaped(text[m + 1])
  PROVE  /\ t \in Seq(Byte) /\ e \in Seq(Byte)
         /\ Len(EscapedText(m)) \in Nat
         /\ Len(EscapedText(m)) + Len(e) = Len(EscapedText(m + 1))
         /\ Len(EscapedText(m)) + Len(e) <= Len(t)
         /\ \A j \in 1..Len(e) : t[Len(EscapedText(m)) + j] = e[j]
<1>1. e = Pieces[m + 1]
  BY DEF Pieces
<1>0. Pieces \in Seq(Seq(Byte)) /\ m < Len(Pieces)
  BY PiecesType
<1>2. /\ e \in Seq(Byte)
      /\ Len(Joined(Pieces, m)) \in Nat
      /\ Len(Joined(Pieces, m + 1)) = Len(Joined(Pieces, m)) + Len(e)
      /\ Len(Joined(Pieces, m + 1)) <= Len(FlattenSeq(Pieces))
      /\ \A j \in 1..Len(e) : FlattenSeq(Pieces)[Len(Joined(Pieces, m)) + j] = e[j]
  BY ONLY <1>0, <1>1, m \in Nat, JoinedAt
<1>3. t = FlattenSeq(Pieces)
  BY PiecesType, JoinedAll DEF EscapedText
<1>4. t \in Seq(Byte)
  <2>1. Len(text) \in 0..Len(text)
    OBVIOUS
  <2> QED BY <2>1, EscapedTextType
<1> QED BY <1>2, <1>3, <1>4 DEF EscapedText

-----------------------------------------------------------------------------
(* And what is unescaped from it.                                          *)

Shown(i) ==
  IF text[i] \in Table[kind] /\ Kept(text[i], HexDigit(text[i] % 16))
    THEN Quote(text[i]) ELSE <<text[i]>>

ShownPieces == [i \in 1..Len(text) |-> Shown(i)]

ShownText(m) == Joined(ShownPieces, m)

LEMMA PercentQuoted ==
  ASSUME kind \in DOMAIN Table, kind # "refresh"
  PROVE  Percent \in Table[kind]
<1>1. \/ kind = "uri" \/ kind = "args" \/ kind = "uri_component" \/ kind = "html"
      \/ kind = "memcached" \/ kind = "mail_auth"
  BY DEF Table
<1> QED BY <1>1 DEF Table, Percent, Byte, Alpha, Digit

LEMMA HexDigits ==
  ASSUME NEW v \in 0..15
  PROVE  HexDigit(v) \in Hex /\ HexDigit(v) \in Byte /\ HexValue(HexDigit(v)) = v
BY DEF HexDigit, HexValue, Hex, Digit, HexAlpha, Byte

LEMMA ByteParts ==
  ASSUME NEW c \in Byte
  PROVE  c \div 16 \in 0..15 /\ c % 16 \in 0..15 /\ (c \div 16) * 16 + (c % 16) = c
<1>1. c \in 0..255
  BY DEF Byte
<1> QED BY ONLY <1>1

LEMMA ShownType ==
  ASSUME text \in Seq(Byte), NEW i \in 1..Len(text)
  PROVE  Shown(i) \in Seq(Byte)
<1>1. text[i] \in Byte
  OBVIOUS
<1>2. text[i] \div 16 \in 0..15 /\ text[i] % 16 \in 0..15
  BY <1>1, ByteParts
<1>3. HexDigit(text[i] \div 16) \in Byte /\ HexDigit(text[i] % 16) \in Byte
  BY <1>2, HexDigits
<1>4. Quote(text[i]) \in Seq(Byte)
  BY <1>3 DEF Quote, Percent, Byte
<1> QED BY <1>1, <1>4 DEF Shown

LEMMA ShownTextMore ==
  ASSUME text \in Seq(Byte)
  PROVE  /\ ShownPieces \in Seq(Seq(Byte)) /\ Len(ShownPieces) = Len(text)
         /\ ShownText(0) = <<>>
         /\ \A m \in 0..Len(text) : ShownText(m) \in Seq(Byte)
         /\ \A m \in Nat : m < Len(text) => /\ Shown(m + 1) \in Seq(Byte)
                                          /\ ShownText(m + 1) = ShownText(m) \o Shown(m + 1)
<1>1. ShownPieces \in Seq(Seq(Byte)) /\ Len(ShownPieces) = Len(text) /\ Len(text) \in Nat
  BY ShownType DEF ShownPieces
<1>2. ShownText(0) = <<>>
  BY <1>1, JoinedNone DEF ShownText
<1>3. \A m \in 0..Len(text) : ShownText(m) \in Seq(Byte)
  BY <1>1, JoinedType DEF ShownText
<1>4. ASSUME NEW m \in Nat, m < Len(text)
      PROVE  Shown(m + 1) \in Seq(Byte) /\ ShownText(m + 1) = ShownText(m) \o Shown(m + 1)
  <2>1. ShownPieces[m + 1] = Shown(m + 1)
    BY <1>4 DEF ShownPieces
  <2>2. ShownPieces[m + 1] \in Seq(Byte) /\ Joined(ShownPieces, m + 1) = Joined(ShownPieces, m) \o ShownPieces[m + 1]
    BY <1>1, <1>4, JoinedMore
  <2> QED BY <2>1, <2>2 DEF ShownText
<1> QED BY <1>1, <1>2, <1>3, <1>4

(* Only a refresh leaves a percent sign as it is.                          *)
Clear == kind = "refresh" => Percent \notin ToSet(text)

LEMMA OneByteBack ==
  ASSUME text \in Seq(Byte), kind \in DOMAIN Table, Clear,
         NEW m \in Nat, m < Len(text),
         NEW f, IsRest(f, EscapedText(Len(text)))
  PROVE  f[Len(EscapedText(m)) + 1] =
           IF Stops(text[m + 1]) THEN Shown(m + 1)
           ELSE Shown(m + 1) \o f[Len(EscapedText(m + 1)) + 1]
<1> DEFINE c == text[m + 1]
           t == EscapedText(Len(text))
           e == Escaped(c)
           p == Len(EscapedText(m)) + 1
<1>1. c \in Byte
  OBVIOUS
<1>2. /\ t \in Seq(Byte) /\ e \in Seq(Byte)
      /\ Len(EscapedText(m)) \in Nat
      /\ Len(EscapedText(m)) + Len(e) = Len(EscapedText(m + 1))
      /\ Len(EscapedText(m)) + Len(e) <= Len(t)
      /\ \A j \in 1..Len(e) : t[Len(EscapedText(m)) + j] = e[j]
  BY PieceAt
<1>3. kind # "escape_html"
  BY DEF Table
<1>4. CASE c \notin Table[kind]
  <2>1. e = <<c>> /\ Shown(m + 1) = <<c>>
    BY <1>3, <1>4 DEF Escaped, Shown
  <2>2. Len(e) = 1 /\ e[1] = c
    BY <2>1
  <2>3. c # Percent
    <3>1. CASE kind = "refresh"
      <4>1. c \in ToSet(text)
        BY DEF ToSet
      <4> QED BY <3>1, <4>1 DEF Clear
    <3>2. CASE kind # "refresh"
      BY <1>4, <3>2, PercentQuoted
    <3> QED BY <3>1, <3>2
  <2> HIDE DEF e, t
  <2>4. t[p] = c /\ p \in 1..Len(t) + 1 /\ p # Len(t) + 1 /\ Len(EscapedText(m + 1)) + 1 = p + 1
    BY <1>2, <2>2
  <2> HIDE DEF p
  <2>5. f[p] = RestAt(f, t, p)
    BY <2>4 DEF IsRest, t
  <2>6. f[p] = <<c>> \o (IF Stops(c) THEN <<>> ELSE f[p + 1])
    BY <2>3, <2>4, <2>5 DEF RestAt
  <2>7. <<c>> \o <<>> = <<c>>
    <3>1. <<c>> \in Seq(Byte)
      BY <1>1
    <3> QED BY <3>1, ConcatEmptySeq
  <2>8. f[p] = IF Stops(c) THEN Shown(m + 1) ELSE Shown(m + 1) \o f[Len(EscapedText(m + 1)) + 1]
    BY <2>1, <2>4, <2>6, <2>7
  <2> QED BY <2>8 DEF p
<1>5. CASE c \in Table[kind]
  <2> DEFINE h == HexDigit(c \div 16)
             l == HexDigit(c % 16)
  <2>1. e = <<Percent, h, l>>
    BY <1>3, <1>5 DEF Escaped, Quote
  <2>2. Len(e) = 3 /\ e[1] = Percent /\ e[2] = h /\ e[3] = l
    BY <2>1
  <2>3. c \div 16 \in 0..15 /\ c % 16 \in 0..15 /\ (c \div 16) * 16 + (c % 16) = c
    BY <1>1, ByteParts
  <2>4. h \in Hex /\ l \in Hex /\ HexValue(h) * 16 + HexValue(l) = c
    BY <2>3, HexDigits
  <2>5. Shown(m + 1) = IF Kept(c, l) THEN <<Percent, h, l>> ELSE <<c>>
    BY <1>5 DEF Shown, Quote
  <2> HIDE DEF e, t, h, l
  <2>6. /\ t[p] = Percent /\ t[p + 1] = h /\ t[p + 2] = l
        /\ p \in 1..Len(t) + 1 /\ p + 2 <= Len(t) /\ p \in Nat \ {0}
        /\ p # Len(t) + 1 /\ p # Len(t) /\ p + 1 # Len(t)
        /\ Len(EscapedText(m + 1)) + 1 = p + 3
    <3>1. Len(EscapedText(m)) + 1 = p /\ Len(EscapedText(m)) + 2 = p + 1 /\ Len(EscapedText(m)) + 3 = p + 2
      BY <1>2
    <3>2. t[Len(EscapedText(m)) + 1] = e[1] /\ t[Len(EscapedText(m)) + 2] = e[2]
          /\ t[Len(EscapedText(m)) + 3] = e[3]
      BY <1>2, <2>2
    <3> QED BY <1>2, <2>2, <3>1, <3>2
  <2> HIDE DEF p
  <2>7. f[p] = RestAt(f, t, p)
    BY <2>6 DEF IsRest, t
  <2>8. Code(t, p) = c
    BY <2>4, <2>6 DEF Code
  <2>9. SubSeq(t, p, p + 2) = <<Percent, h, l>>
    BY <1>2, <2>6, ThreeBytes
  <2> HIDE DEF c
  <2>10. f[p] = IF Stops(c) THEN <<c>>
                ELSE (IF Kept(c, l) THEN SubSeq(t, p, p + 2) ELSE <<c>>) \o f[p + 3]
    BY <2>4, <2>6, <2>7, <2>8 DEF RestAt
  <2>11. Stops(c) => ~Kept(c, l)
    BY DEF Stops, Kept, Question, Percent
  <2>12. f[p] = IF Stops(c) THEN Shown(m + 1)
                ELSE Shown(m + 1) \o f[Len(EscapedText(m + 1)) + 1]
    BY <2>5, <2>6, <2>9, <2>10, <2>11
  <2> QED BY <2>12 DEF p, c
<1> QED BY <1>4, <1>5

(* All of them, up to the one that stops.                                  *)
LEMMA BytesBack ==
  ASSUME text \in Seq(Byte), kind \in DOMAIN Table, Clear,
         NEW f, IsRest(f, EscapedText(Len(text))),
         NEW m \in 0..Len(text), \A j \in 1..m : ~Stops(text[j])
  PROVE  ShownText(m) \o f[Len(EscapedText(m)) + 1] = f[1]
<1> DEFINE A == {k \in Nat : k <= m => ShownText(k) \o f[Len(EscapedText(k)) + 1] = f[1]}
           t == EscapedText(Len(text))
<1>0. m \in Nat /\ Len(text) \in Nat /\ m <= Len(text)
  OBVIOUS
<1>1. t \in Seq(Byte) /\ f \in [1..Len(t) + 1 -> Seq(Byte)]
  <2>1. Len(text) \in 0..Len(text)
    OBVIOUS
  <2> QED BY <2>1, EscapedTextType DEF IsRest
<1>2. 0 \in A
  <2>1. Len(EscapedText(0)) + 1 = 1
    BY EscapedTextNone, EmptySeq
  <2>2. f[1] \in Seq(Byte)
    <3> HIDE DEF t
    <3>1. 1 \in 1..Len(t) + 1
      BY <1>1
    <3> QED BY <1>1, <3>1
  <2>3. <<>> \o f[1] = f[1]
    BY <2>2, ConcatEmptySeq
  <2> QED BY <2>1, <2>3, ShownTextMore
<1>3. ASSUME NEW k \in Nat, k \in A PROVE k + 1 \in A
  <2>0. k + 1 \in Nat
    OBVIOUS
  <2> SUFFICES ASSUME k + 1 <= m
               PROVE  ShownText(k + 1) \o f[Len(EscapedText(k + 1)) + 1] = f[1]
    BY <2>0, Zenon
  <2>1. k < Len(text) /\ k <= m /\ ~Stops(text[k + 1])
    <3>1. k + 1 \in 1..m /\ m \in Nat /\ Len(text) \in Nat /\ m <= Len(text)
      <4> HIDE DEF A, t
      <4> QED BY <1>0
    <3>2. ~Stops(text[k + 1])
      BY ONLY <3>1, \A j \in 1..m : ~Stops(text[j])
    <3> QED BY <3>1, <3>2
  <2> DEFINE rest == f[Len(EscapedText(k + 1)) + 1]
             x == Shown(k + 1)
  <2>2. f[Len(EscapedText(k)) + 1] = x \o rest
    BY <2>1, OneByteBack
  <2>3. ShownText(k) \in Seq(Byte) /\ x \in Seq(Byte) /\ ShownText(k + 1) = ShownText(k) \o x
    <3>1. k \in 0..Len(text)
      BY <1>0, <2>1
    <3> QED BY <2>1, <3>1, ShownTextMore
  <2>4. rest \in Seq(Byte)
    <3> DEFINE e == Escaped(text[k + 1])
    <3>1. /\ e \in Seq(Byte) /\ Len(EscapedText(k)) \in Nat
          /\ Len(EscapedText(k)) + Len(e) = Len(EscapedText(k + 1))
          /\ Len(EscapedText(k)) + Len(e) <= Len(t)
      BY <2>1, PieceAt
    <3> HIDE DEF e, t
    <3>2. Len(EscapedText(k + 1)) + 1 \in 1..Len(t) + 1
      BY <1>1, <3>1
    <3> QED BY <1>1, <3>2
  <2> HIDE DEF rest, x
  <2>5. (ShownText(k) \o x) \o rest = ShownText(k) \o (x \o rest)
    BY <2>3, <2>4, ConcatAssociative
  <2>6. ShownText(k) \o f[Len(EscapedText(k)) + 1] = f[1]
    BY <1>3, <2>1
  <2> QED BY <2>2, <2>3, <2>5, <2>6 DEF rest
<1>4. Nat \subseteq A
  <2> HIDE DEF A
  <2> QED BY <1>2, <1>3, NatInduct
<1> QED BY <1>4

(* Path is the first m bytes of text.                                      *)
PathIs(m) ==
  /\ m \in 0..Len(text)
  /\ DOMAIN Path = 1..m /\ \A i \in 1..m : Path[i] = text[i]
  /\ \/ m = Len(text) /\ \A j \in 1..m : ~Stops(text[j])
     \/ m # 0 /\ Stops(text[m]) /\ \A j \in 1..m - 1 : ~Stops(text[j])

LEMMA PathFound ==
  ASSUME text \in Seq(Byte)
  PROVE  \E m : PathIs(m)
<1> DEFINE stops == {i \in DOMAIN text : Stops(text[i])}
<1>1. DOMAIN text = 1..Len(text) /\ Len(text) \in Nat
  OBVIOUS
<1>2. Path = IF stops = {} THEN text ELSE SubSeq(text, 1, Min(stops))
  BY DEF Path
<1>3. CASE stops = {}
  <2>1. \A j \in 1..Len(text) : ~Stops(text[j])
    BY <1>1, <1>3
  <2>2. Path = text
    BY <1>2, <1>3
  <2>3. PathIs(Len(text))
    BY <1>1, <2>1, <2>2 DEF PathIs
  <2> QED BY <2>3
<1>4. CASE stops # {}
  <2> DEFINE m == Min(stops)
  <2>1. stops \in SUBSET Nat
    BY <1>1
  <2>2. m \in stops /\ \A y \in stops : m <= y
    <3>1. \E x \in stops : \A y \in stops : x <= y
      <4> HIDE DEF stops
      <4> QED BY <1>4, <2>1, LeastIs
    <3> HIDE DEF stops
    <3> QED BY <3>1 DEF Min
  <2> HIDE DEF m
  <2>3. m \in 1..Len(text) /\ Stops(text[m])
    BY <1>1, <2>2
  <2>4. \A j \in 1..m - 1 : ~Stops(text[j])
    <3> TAKE j \in 1..m - 1
    <3>1. j \in DOMAIN text /\ ~(m <= j)
      BY <1>1, <2>3
    <3> QED BY <2>2, <3>1
  <2>5. Path = SubSeq(text, 1, m)
    BY <1>2, <1>4 DEF m
  <2>6. /\ SubSeq(text, 1, m) \in Seq(Byte) /\ Len(SubSeq(text, 1, m)) = m
        /\ \A i \in 1..m : SubSeq(text, 1, m)[i] = text[i]
    <3>1. m \in 0..Len(text)
      BY <2>3
    <3> QED BY <3>1, FirstOf
  <2>7. DOMAIN Path = 1..m /\ \A i \in 1..m : Path[i] = text[i]
    BY <2>5, <2>6
  <2>8. m \in 0..Len(text) /\ m # 0
    BY <2>3
  <2>9. PathIs(m)
    BY <2>3, <2>4, <2>7, <2>8 DEF PathIs
  <2> QED BY <2>9
<1> QED BY <1>3, <1>4

(* What is unescaped is Path, with what is kept.                           *)
LEMMA PathBack ==
  ASSUME text \in Seq(Byte), kind \in DOMAIN Table, Clear,
         NEW f, IsRest(f, EscapedText(Len(text))), NEW m, PathIs(m)
  PROVE  f[1] = ShownText(m)
<1>1. m \in Nat /\ m \in 0..Len(text) /\ Len(text) \in Nat
  BY DEF PathIs
<1> DEFINE t == EscapedText(Len(text))
<1>2. t \in Seq(Byte) /\ Len(t) \in Nat
  <2>1. Len(text) \in 0..Len(text)
    BY <1>1
  <2> QED BY <2>1, EscapedTextType
<1>3. CASE m = Len(text) /\ \A j \in 1..m : ~Stops(text[j])
  <2>1. ShownText(m) \o f[Len(EscapedText(m)) + 1] = f[1]
    BY <1>1, <1>3, BytesBack
  <2>2. f[Len(t) + 1] = RestAt(f, t, Len(t) + 1)
    <3> HIDE DEF t
    <3>1. Len(t) + 1 \in 1..Len(t) + 1
      BY <1>2
    <3> QED BY <3>1 DEF IsRest, t
  <2>3. RestAt(f, t, Len(t) + 1) = <<>>
    BY DEF RestAt
  <2>4. ShownText(m) \in Seq(Byte)
    BY <1>1, ShownTextMore
  <2>5. ShownText(m) \o <<>> = ShownText(m)
    BY <2>4, ConcatEmptySeq
  <2> QED BY <1>3, <2>1, <2>2, <2>3, <2>5
<1>4. CASE m # 0 /\ Stops(text[m]) /\ \A j \in 1..m - 1 : ~Stops(text[j])
  <2> DEFINE k == m - 1
  <2>1. k \in Nat /\ k \in 0..Len(text) /\ k < Len(text) /\ k + 1 = m
    BY <1>1, <1>4
  <2>2. \A j \in 1..k : ~Stops(text[j])
    BY <1>4
  <2> HIDE DEF k
  <2>3. ShownText(k) \o f[Len(EscapedText(k)) + 1] = f[1]
    BY <2>1, <2>2, BytesBack
  <2>4. f[Len(EscapedText(k)) + 1] = IF Stops(text[k + 1]) THEN Shown(k + 1)
                                 ELSE Shown(k + 1) \o f[Len(EscapedText(k + 1)) + 1]
    BY <2>1, OneByteBack
  <2>5. ShownText(k + 1) = ShownText(k) \o Shown(k + 1)
    BY <2>1, ShownTextMore
  <2> QED BY <1>4, <2>1, <2>3, <2>4, <2>5
<1> QED BY <1>3, <1>4 DEF PathIs

-----------------------------------------------------------------------------
(* The text that is escaped is in the buffer, byte after byte, and is what *)
(* is unescaped.                                                           *)
RoundInv ==
  /\ phase \in {"escape", "full"} /\ kind = "escape_html" =>
       \A i \in 1..Len(buf) : buf[i] \notin {Lt, Gt, Quot}
  /\ phase = "escape" => kind # "none" /\ Contents = EscapedText(s)
  /\ phase = "full" /\ kind # "none" => d = Len(buf) /\ buf = EscapedText(Len(text))
  /\ phase \in {"unescape", "done"} /\ kind # "none" => source = EscapedText(Len(text))

LEMMA NoMarkup ==
  ASSUME kind = "escape_html", NEW c
  PROVE  \A j \in DOMAIN Escaped(c) : Escaped(c)[j] \notin {Lt, Gt, Quot}
<1>1. Escaped(c) = Entity(c)
  BY DEF Escaped
<1>2. CASE c = Lt
  BY <1>1, <1>2 DEF Entity, Amp, Semi, Lt, Gt, Quot
<1>3. CASE c = Gt
  BY <1>1, <1>3 DEF Entity, Amp, Semi, Lt, Gt, Quot
<1>4. CASE c = Amp
  BY <1>1, <1>4 DEF Entity, Amp, Semi, Lt, Gt, Quot
<1>5. CASE c = Quot
  BY <1>1, <1>5 DEF Entity, Amp, Semi, Lt, Gt, Quot
<1>6. CASE c \notin {Lt, Gt, Amp, Quot}
  BY <1>1, <1>6 DEF Entity
<1> QED BY <1>2, <1>3, <1>4, <1>5, <1>6

LEMMA QuotedSame ==
  ASSUME UNCHANGED <<kind, text>>
  PROVE  /\ EscapedText(s)' = EscapedText(s')
         /\ EscapedText(Len(text))' = EscapedText(Len(text))
<1>1. \A c : Escaped(c)' = Escaped(c)
  BY DEF Escaped
<1>2. Pieces' = Pieces
  BY <1>1 DEF Pieces
<1> QED BY <1>2 DEF EscapedText, Joined

LEMMA RoundInvNext == EscapeInv /\ EscapeInv' /\ RoundInv /\ [Next]_vars => RoundInv'
<1> SUFFICES ASSUME EscapeInv, EscapeInv', RoundInv, [Next]_vars
             PROVE  RoundInv'
  OBVIOUS
<1>1. /\ text \in Seq(Byte) /\ buf \in Seq(Byte) /\ s \in Nat /\ d \in 0..Len(buf)
      /\ Len(buf) \in Nat /\ Len(text) \in Nat
  BY DEF EscapeInv, TypeOK
<1>2. CASE Count
  BY <1>2 DEF Count, RoundInv
<1>3. CASE Allocate
  <2>1. /\ phase' = "escape" /\ s' = 0 /\ d' = 0 /\ kind # "none"
        /\ UNCHANGED <<kind, text>> /\ buf' = [i \in 1..Room |-> 0]
    BY <1>3 DEF Allocate, EscapeInv, input, place, Kinds, Table
  <2>2. Room \in Nat
    BY <1>1 DEF Room, EscapeInv, TypeOK
  <2>3. \A i \in 1..Len(buf') : buf'[i] \notin {Lt, Gt, Quot}
    <3>1. Len(buf') = Room /\ \A i \in 1..Room : buf'[i] = 0
      BY <2>1, <2>2
    <3> QED BY <3>1 DEF Lt, Gt, Quot
  <2>4. Contents' = <<>>
    <3>1. buf' \in Seq(Byte) /\ 0 \in 0..Len(buf')
      BY DEF EscapeInv, TypeOK
    <3>2. SubSeq(buf', 1, 0) \in Seq(Byte) /\ Len(SubSeq(buf', 1, 0)) = 0
      BY <3>1, FirstOf
    <3>3. SubSeq(buf', 1, 0) = <<>>
      BY <3>2, EmptySeq
    <3> QED BY <2>1, <3>3 DEF Contents
  <2>5. EscapedText(s)' = <<>>
    BY <1>1, <2>1, EscapedTextNone, QuotedSame
  <2> QED BY <2>1, <2>3, <2>4, <2>5 DEF RoundInv
<1>4. CASE EscapeByte
  <2> DEFINE e == Escaped(text[s + 1])
  <2>1. /\ phase = "escape" /\ phase' = "escape" /\ s < Len(text) /\ s' = s + 1
        /\ UNCHANGED <<kind, text>> /\ Put(e)
    BY <1>4 DEF EscapeByte, input
  <2>2. /\ EscapedText(s) \in Seq(Byte) /\ e \in Seq(Byte)
        /\ EscapedText(s + 1) = EscapedText(s) \o e
    BY <1>1, <2>1, EscapedTextMore
  <2>3. Len(e) \in Nat /\ d \in Nat /\ d' = d + Len(e)
    BY <1>1, <2>1, <2>2 DEF Put
  <2>4. Len(buf') = Len(buf) /\ buf' = [i \in 1..Len(buf) |-> IF i - d \in DOMAIN e THEN e[i - d] ELSE buf[i]]
    <3>1. Len(buf') = Len(buf)
      BY <1>1, <2>1, <2>2, <2>3, PutEffect
    <3>2. DOMAIN buf = 1..Len(buf)
      BY <1>1
    <3> QED BY <2>1, <3>1, <3>2 DEF Put
  <2>5. d + Len(e) <= Len(buf)
    BY <2>3, <2>4 DEF EscapeInv, TypeOK
  <2>6. Contents' = Contents \o e
    <3> HIDE DEF e
    <3> QED BY <1>1, <2>1, <2>2, <2>5, ContentsGrow
  <2>7. ASSUME kind = "escape_html", NEW i \in 1..Len(buf)
        PROVE  buf'[i] \notin {Lt, Gt, Quot}
    <3>1. \A j \in DOMAIN e : e[j] \notin {Lt, Gt, Quot}
      BY <2>7, NoMarkup
    <3>2. buf[i] \notin {Lt, Gt, Quot}
      BY <2>1, <2>7 DEF RoundInv
    <3> HIDE DEF e
    <3> QED BY <2>4, <3>1, <3>2
  <2>8. EscapedText(s)' = EscapedText(s + 1)
    BY <2>1, QuotedSame
  <2>9. Contents' = EscapedText(s)'
    <3>1. Contents = EscapedText(s) /\ kind # "none"
      BY <2>1 DEF RoundInv
    <3> QED BY <2>2, <2>6, <2>8, <3>1
  <2>10. kind' # "none"
    BY <2>1 DEF RoundInv
  <2> QED BY <2>1, <2>4, <2>7, <2>9, <2>10 DEF RoundInv
<1>5. CASE EscapeEnd
  <2>1. /\ phase = "escape" /\ phase' = "full" /\ s = Len(text)
        /\ UNCHANGED <<kind, text, buf, s, d>>
    BY <1>5 DEF EscapeEnd, input, place
  <2>2. d = Len(buf)
    BY <2>1 DEF EscapeInv
  <2>3. Contents = buf
    <3>1. Contents = SubSeq(buf, 1, Len(buf))
      BY <2>2 DEF Contents
    <3>2. Len(buf) \in 0..Len(buf)
      BY <1>1
    <3>3. /\ SubSeq(buf, 1, Len(buf)) \in Seq(Byte) /\ Len(SubSeq(buf, 1, Len(buf))) = Len(buf)
          /\ \A i \in 1..Len(buf) : SubSeq(buf, 1, Len(buf))[i] = buf[i]
      BY <1>1, <3>2, FirstOf
    <3>4. SubSeq(buf, 1, Len(buf)) = buf
      BY <1>1, <3>3, SeqEqual
    <3> QED BY <3>1, <3>4
  <2>4. buf = EscapedText(Len(text))
    BY <2>1, <2>3 DEF RoundInv
  <2>5. EscapedText(Len(text))' = EscapedText(Len(text))
    BY <2>1, QuotedSame
  <2> QED BY <2>1, <2>2, <2>4, <2>5 DEF RoundInv
<1>6. ASSUME NEW type \in SUBSET Flags, ngx_unescape_uri(type)
      PROVE  RoundInv'
  <2>1. /\ phase = "full" /\ phase' = "unescape" /\ source' = buf
        /\ UNCHANGED <<kind, text>>
    BY <1>6 DEF ngx_unescape_uri, input
  <2>2. EscapedText(Len(text))' = EscapedText(Len(text))
    BY <2>1, QuotedSame
  <2> QED BY <2>1, <2>2 DEF RoundInv
<1>7. CASE Usual \/ QuotedFirst \/ QuotedSecond \/ UnescapeEnd
  <2>1. /\ phase = "unescape" /\ phase' \in {"unescape", "done"}
        /\ UNCHANGED <<kind, text, source>>
    <3>1. CASE Usual
      BY <3>1 DEF Usual, Take, To, input
    <3>2. CASE QuotedFirst
      BY <3>2 DEF QuotedFirst, Take, To, input
    <3>3. CASE QuotedSecond
      BY <3>3 DEF QuotedSecond, Take, To, input
    <3>4. CASE UnescapeEnd
      BY <3>4 DEF UnescapeEnd, input, quoting
    <3> QED BY <1>7, <3>1, <3>2, <3>3, <3>4
  <2>2. EscapedText(Len(text))' = EscapedText(Len(text))
    BY <2>1, QuotedSame
  <2> QED BY <2>1, <2>2 DEF RoundInv
<1>8. CASE UNCHANGED vars
  <2>1. UNCHANGED <<phase, kind, text, buf, s, d, source>>
    BY <1>8 DEF vars, input, place, quoting
  <2>2. EscapedText(Len(text))' = EscapedText(Len(text)) /\ EscapedText(s)' = EscapedText(s)
    BY <2>1, QuotedSame
  <2>3. Contents' = Contents
    BY <2>1 DEF Contents
  <2> QED BY <2>1, <2>2, <2>3 DEF RoundInv
<1> QED BY <1>2, <1>3, <1>4, <1>5, <1>6, <1>7, <1>8 DEF Next

LEMMA RoundTripHolds ==
  ASSUME EscapeInv, UnescInv, RoundInv
  PROVE  RoundTrip
<1>1. phase = "full" /\ kind # "none" => d = Len(buf)
  BY DEF RoundInv
<1>2. phase = "full" /\ kind = "escape_html" => ToSet(buf) \cap {Lt, Gt, Quot} = {}
  <2>1. DOMAIN buf = 1..Len(buf)
    BY DEF EscapeInv, TypeOK
  <2> QED BY <2>1 DEF RoundInv, ToSet
<1>3. ASSUME phase = "done", kind \in DOMAIN Table, Clear, NEW m, PathIs(m)
      PROVE  Contents = ShownText(m)
  <2>1. kind # "none"
    BY <1>3 DEF Table
  <2>2. source = EscapedText(Len(text)) /\ source \in Seq(Byte) /\ text \in Seq(Byte)
    BY <1>3, <2>1 DEF RoundInv, EscapeInv, TypeOK
  <2>3. PICK f : IsRest(f, source)
    BY <2>2, RestExists
  <2>4. Contents = f[1]
    BY <1>3, <2>3 DEF UnescInv
  <2>5. f[1] = ShownText(m)
    BY <1>3, <2>2, <2>3, PathBack
  <2> QED BY <2>4, <2>5
<1>4. ASSUME phase = "done", kind \in DOMAIN Table, Clear
      PROVE  Contents = FlattenSeq([i \in DOMAIN Path |->
                          IF Path[i] \in Table[kind] /\ Kept(Path[i], HexDigit(Path[i] % 16))
                            THEN Quote(Path[i]) ELSE <<Path[i]>>])
  <2>1. PICK m : PathIs(m)
    BY PathFound DEF EscapeInv, TypeOK
  <2>2. Contents = ShownText(m)
    BY <1>4, <1>3, <2>1
  <2>3. [i \in DOMAIN Path |->
          IF Path[i] \in Table[kind] /\ Kept(Path[i], HexDigit(Path[i] % 16))
            THEN Quote(Path[i]) ELSE <<Path[i]>>] = [i \in 1..m |-> Shown(i)]
    BY <2>1 DEF PathIs, Shown
  <2>4. SubSeq(ShownPieces, 1, m) = [i \in 1..m |-> Shown(i)]
    <3> DEFINE a == SubSeq(ShownPieces, 1, m)
               b == [i \in 1..m |-> Shown(i)]
    <3>1. text \in Seq(Byte) /\ m \in 0..Len(text) /\ Len(text) \in Nat
      BY <2>1 DEF PathIs, EscapeInv, TypeOK
    <3>2. /\ a \in Seq(Seq(Byte)) /\ Len(a) = m
          /\ \A i \in 1..m : a[i] = ShownPieces[i]
      BY <3>1, ShownTextMore, FirstOf
    <3>3. \A i \in 1..m : i \in 1..Len(text) /\ Shown(i) \in Seq(Byte)
      BY <3>1, ShownType
    <3>4. b \in Seq(Seq(Byte)) /\ Len(b) = m /\ \A i \in 1..m : b[i] = Shown(i)
      BY <3>1, <3>3
    <3>5. \A i \in 1..m : ShownPieces[i] = Shown(i)
      BY <3>3 DEF ShownPieces
    <3> HIDE DEF a, b
    <3>6. a = b
      BY <3>2, <3>4, <3>5, SeqEqual
    <3> QED BY <3>6 DEF a, b
  <2> QED BY <2>2, <2>3, <2>4 DEF ShownText, Joined
<1> QED BY <1>1, <1>2, <1>4 DEF RoundTrip, Clear

(* Unescaping undoes escaping, for every choice of what the two bits ask   *)
(* for and every text of every type, except NGX_ESCAPE_REFRESH texts with  *)
(* a percent sign, and but for what a redirect keeps quoted; and escaped   *)
(* HTML has no markup (uti_string.c:554-567, :594-693, :702-771).          *)
THEOREM EscapingUndone == Spec => []RoundTrip
<1>1. Init => UnescInv /\ RoundInv
  BY DEF Init, UnescInv, RoundInv
<1>2. EscapeInv /\ UnescInv /\ RoundInv => RoundTrip
  BY RoundTripHolds
<1> QED BY <1>1, <1>2, EscapeInvInit, EscapeInvNext, UnescInvNext, RoundInvNext, PTL
        DEF Spec

=============================================================================
