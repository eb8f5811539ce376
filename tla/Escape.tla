------------------------------- MODULE Escape -------------------------------
(***************************************************************************)
(* ngx_escape_uri, ngx_escape_html and ngx_unescape_uri of                 *)
(* platform/src/uti_string.c, byte by byte.                                *)
(*                                                                         *)
(* A text is escaped as the interface asks for: a first call with no       *)
(* destination counts, the caller allocates the text and what was counted, *)
(* and a second call writes.  Then, or for a text from elsewhere, the      *)
(* buffer is unescaped into itself.  A write beyond the buffer is lost, but *)
(* d shows it.                                                             *)
(***************************************************************************)
EXTENDS Integers, Sequences, FiniteSets, SequencesExt, FiniteSetsExt

CONSTANTS
  Text,    \* the texts that are escaped
  Quoted   \* the texts that are unescaped as they are

Byte == 0..255

ASSUME TextAssumption == Text \subseteq Seq(Byte) /\ Quoted \subseteq Seq(Byte)

VARIABLES
  phase,     \* the call that is made
  kind,      \* what escapes the text: a type of ngx_escape_uri, or escape_html
  text,      \* what is escaped
  n,         \* the result of the call that counts
  buf,
  s, d,      \* the bytes that were read and written
  flags,     \* the bits of ngx_unescape_uri's type
  state, decoded,
  source     \* history: what was in buf when ngx_unescape_uri was called

place == <<s, d>>
input == <<kind, text>>
quoting == <<flags, state, decoded, source>>
vars == <<phase, input, n, buf, place, quoting>>

-----------------------------------------------------------------------------
(* Characters.                                                             *)
Quot     == 34
Percent  == 37
Amp      == 38
Semi     == 59
Lt       == 60
Gt       == 62
Question == 63

Digit    == 48..57
Alpha    == (65..90) \cup (97..122)
HexAlpha == (65..70) \cup (97..102)
Control  == 0..31
High     == 127..255

(* The bit tables: what each type escapes.                                 *)
Table == [
  uri           |-> Control \cup High \cup {32, 35, Percent, Question},
  args          |-> Control \cup High \cup
                      {32, 35, Percent, Amp, 43, Semi, Question},
  uri_component |-> Byte \ (Alpha \cup Digit \cup {45, 46, 95, 126}),
  html          |-> Control \cup High \cup {32, Quot, 35, Percent, 39},
  refresh       |-> Control \cup High \cup {32, Quot, 39},
  memcached     |-> Control \cup {32, Percent},
  mail_auth     |-> Control \cup {32, Percent}]

Kinds == DOMAIN Table \cup {"escape_html"}

Flags == {"URI", "REDIRECT"}

HexDigit(v) == IF v < 10 THEN v + 48 ELSE v + 87

MutHexValue(c) ==
  IF c \in Digit THEN c - 48 ELSE IF c < 97 THEN c - 65 ELSE c - 97

(* The value of a digit, capital or small.                                 *)
HexValue(c) ==
  IF c \in Digit THEN c - 48 ELSE IF c < 97 THEN c - 55 ELSE c - 87

Quote(c) == <<Percent, HexDigit(c \div 16), HexDigit(c % 16)>>

(* &lt; &gt; &amp; &quot;                                                  *)
Entity(c) ==
  CASE c = Lt   -> <<Amp, 108, 116, Semi>>
    [] c = Gt   -> <<Amp, 103, 116, Semi>>
    [] c = Amp  -> <<Amp, 97, 109, 112, Semi>>
    [] c = Quot -> <<Amp, 113, 117, 111, 116, Semi>>
    [] OTHER    -> <<c>>

Escaped(c) ==
  IF kind = "escape_html" THEN Entity(c)
  ELSE IF c \in Table[kind] THEN Quote(c) ELSE <<c>>

-----------------------------------------------------------------------------
(* The bytes ngx_escape_html adds for c.                                   *)
MutExtra(c) ==
  CASE c \in {Lt, Gt, Quot} -> 3
    [] c = Amp              -> 4
    [] OTHER                -> 0

Extra(c) ==
  CASE c \in {Lt, Gt} -> 3
    [] c = Amp        -> 4
    [] c = Quot       -> 5
    [] OTHER          -> 0

(* The calls without a destination: ngx_escape_uri returns the number of   *)
(* bytes it will escape, ngx_escape_html the sum of Extra over the text.   *)
Counted ==
  IF kind = "escape_html"
    THEN Cardinality({p \in (DOMAIN text) \X (1..5) : p[2] <= Extra(text[p[1]])})
    ELSE Cardinality({i \in DOMAIN text : text[i] \in Table[kind]})

(* What the caller allocates: an escaped byte takes two bytes more.        *)
Room == Len(text) + (IF kind = "escape_html" THEN n ELSE 2 * n)

(* *d++ for each byte of out.                                              *)
Put(out) ==
  /\ buf' = [i \in DOMAIN buf |->
               IF i - d \in DOMAIN out THEN out[i - d] ELSE buf[i]]
  /\ d' = d + Len(out)

Init ==
  /\ \/ phase = "count" /\ kind \in Kinds /\ text \in Text /\ buf = <<>>
     \/ phase = "full" /\ kind = "none" /\ text = <<>> /\ buf \in Quoted
  /\ n = 0
  /\ s = 0 /\ d = 0
  /\ flags = {} /\ state = "usual" /\ decoded = 0 /\ source = <<>>

Count ==
  /\ phase = "count"
  /\ phase' = "allocate"
  /\ n' = Counted
  /\ UNCHANGED <<input, buf, place, quoting>>

Allocate ==
  /\ phase = "allocate"
  /\ phase' = "escape"
  /\ buf' = [i \in 1..Room |-> 0]
  /\ UNCHANGED <<input, n, place, quoting>>

EscapeByte ==
  /\ phase = "escape"
  /\ s < Len(text)
  /\ s' = s + 1
  /\ Put(Escaped(text[s + 1]))
  /\ UNCHANGED <<phase, input, n, quoting>>

EscapeEnd ==
  /\ phase = "escape"
  /\ s = Len(text)
  /\ phase' = "full"
  /\ UNCHANGED <<input, n, buf, place, quoting>>

-----------------------------------------------------------------------------
(* ngx_unescape_uri, with *dst and *src at the beginning of the buffer.    *)

ngx_unescape_uri(type) ==
  /\ phase = "full"
  /\ kind # "escape_html"
  /\ phase' = "unescape"
  /\ flags' = type
  /\ s' = 0 /\ d' = 0
  /\ state' = "usual" /\ decoded' = 0
  /\ source' = buf
  /\ UNCHANGED <<input, n, buf>>

(* The byte that is read, and whether it is in this state.                 *)
Ch == buf[s + 1]

Take(st) ==
  /\ phase = "unescape"
  /\ state = st
  /\ s < Len(buf)
  /\ s' = s + 1
  /\ UNCHANGED <<input, n, flags, source>>

To(ph, st) == phase' = ph /\ state' = st

(* A question mark ends the path, and the call if the type asks for it.    *)
Stops(c) == c = Question /\ flags # {}

Usual ==
  /\ Take("usual")
  /\ IF Ch = Percent
       THEN To("unescape", "quoted") /\ UNCHANGED <<buf, d>>
       ELSE Put(<<Ch>>) /\ To(IF Stops(Ch) THEN "done" ELSE "unescape", "usual")
  /\ UNCHANGED decoded

MutQuotedFirst ==
  /\ Take("quoted")
  /\ IF Ch \in Digit \cup HexAlpha
       THEN /\ decoded' = HexValue(Ch)
            /\ To("unescape", "second")
            /\ UNCHANGED <<buf, d>>
       ELSE Put(<<Percent, Ch>>) /\ To("unescape", "usual") /\ UNCHANGED decoded

QuotedFirst ==
  /\ Take("quoted")
  /\ IF Ch \in Digit \cup HexAlpha
       THEN /\ decoded' = HexValue(Ch)
            /\ To("unescape", "second")
            /\ UNCHANGED <<buf, d>>
       ELSE Put(<<Ch>>) /\ To("unescape", "usual") /\ UNCHANGED decoded

(* What a redirect leaves quoted.  With both bits set, the branch for      *)
(* letters does not come to the test.                                      *)
Kept(c, second) ==
  /\ "REDIRECT" \in flags
  /\ "URI" \in flags => second \in Digit
  /\ c \notin Percent + 1..126

(* The second digit; any other byte is dropped, with the first digit.      *)
QuotedSecond ==
  /\ Take("second")
  /\ IF Ch \in Digit \cup HexAlpha
       THEN LET c == decoded * 16 + HexValue(Ch) IN
            /\ Put(IF Kept(c, Ch) THEN <<Percent, buf[s], Ch>> ELSE <<c>>)
            /\ To(IF Stops(c) THEN "done" ELSE "unescape", "usual")
       ELSE UNCHANGED <<buf, d>> /\ To("unescape", "usual")
  /\ UNCHANGED decoded

UnescapeEnd ==
  /\ phase = "unescape"
  /\ s = Len(buf)
  /\ phase' = "done"
  /\ UNCHANGED <<input, n, buf, place, quoting>>

Next ==
  \/ Count
  \/ Allocate
  \/ EscapeByte
  \/ EscapeEnd
  \/ \E type \in SUBSET Flags : ngx_unescape_uri(type)
  \/ Usual
  \/ QuotedFirst
  \/ QuotedSecond
  \/ UnescapeEnd

Spec == Init /\ [][Next]_vars

-----------------------------------------------------------------------------
(* Properties.                                                             *)

TypeOK ==
  /\ phase \in {"count", "allocate", "escape", "full", "unescape", "done"}
  /\ kind \in Kinds \cup {"none"}
  /\ text \in Seq(Byte) /\ buf \in Seq(Byte) /\ source \in Seq(Byte)
  /\ n \in Nat
  /\ s \in Nat
  /\ d \in 0..Len(buf)
  /\ flags \in SUBSET Flags
  /\ state \in {"usual", "quoted", "second"}
  /\ decoded \in 0..15

Contents == SubSeq(buf, 1, d)

(* The part of text up to its first question mark, if flags ask to stop.   *)
Path ==
  LET stops == {i \in DOMAIN text : Stops(text[i])} IN
  IF stops = {} THEN text ELSE SubSeq(text, 1, Min(stops))

(* Unescaping undoes escaping (uti_string.c:554-567, :594-693), up to the  *)
(* question mark if the bits ask for it, and a redirect leaves quoted what *)
(* is not safe in a header.  It does so for every type and text but one    *)
(* kind: NGX_ESCAPE_REFRESH does not escape a percent sign, so that a text *)
(* with one is not undone and nothing is said of it here (see              *)
(* RefreshAsCommented).  Escaped HTML fills the buffer exactly and has no  *)
(* markup of its own (:702-771).                                           *)
RoundTrip ==
  /\ phase = "full" /\ kind # "none" => d = Len(buf)
  /\ phase = "full" /\ kind = "escape_html" =>
       ToSet(buf) \cap {Lt, Gt, Quot} = {}
  /\ phase = "done" /\ kind \in DOMAIN Table
     /\ (kind = "refresh" => Percent \notin ToSet(text)) =>
       LET c(i) == Path[i]
           kept(i) == c(i) \in Table[kind] /\ Kept(c(i), HexDigit(c(i) % 16))
       IN  Contents = FlattenSeq([i \in DOMAIN Path |->
                        IF kept(i) THEN Quote(c(i)) ELSE <<c(i)>>])

(* NGX_ESCAPE_REFRESH escapes what the comment above its table says:       *)
(* " ", """, "%", "'", %00-%1F, %7F-%FF (uti_string.c:489).  It does not:  *)
(* the table at :495 has no bit for the percent sign.                      *)
RefreshAsCommented ==
  LET commented == Control \cup High \cup {32, Quot, Percent, 39} IN
  phase = "full" /\ kind = "refresh" =>
    d = Len(text) + 2 * Cardinality({i \in DOMAIN text : text[i] \in commented})

(* What unescaping from position i on gives, from the text alone.          *)
Unescaped(t) ==
  LET hex(i) == t[i] \in Digit \cup HexAlpha
      rest[i \in 1..Len(t) + 1] ==
        IF i = Len(t) + 1 THEN <<>>
        ELSE IF t[i] # Percent
          THEN <<t[i]>> \o (IF Stops(t[i]) THEN <<>> ELSE rest[i + 1])
        ELSE IF i = Len(t) THEN <<>>
        ELSE IF ~hex(i + 1) THEN <<t[i + 1]>> \o rest[i + 2]
        ELSE IF i + 1 = Len(t) THEN <<>>
        ELSE IF ~hex(i + 2) THEN rest[i + 3]
        ELSE LET c == HexValue(t[i + 1]) * 16 + HexValue(t[i + 2]) IN
             IF Stops(c) THEN <<c>>
             ELSE (IF Kept(c, t[i + 2]) THEN SubSeq(t, i, i + 2) ELSE <<c>>)
                    \o rest[i + 3]
  IN  rest[1]

(* The bytes of a quotation that were read without writing any.            *)
Pending ==
  CASE state = "usual"  -> 0
    [] state = "quoted" -> 1
    [] state = "second" -> 2

(* The part of the buffer that is still to be read was not overwritten,    *)
(* the digits that a redirect reads a second time among it                 *)
(* (uti_string.c:645, :680).                                               *)
InPlace ==
  phase = "unescape" =>
    /\ d + Pending <= s
    /\ \A i \in d + 1..Len(buf) : buf[i] = source[i]

(* Unescaping a buffer into itself gives what it would give elsewhere, and *)
(* no broken quotation, at the end or before a question mark, changes what *)
(* follows it (uti_string.c:594-693).                                      *)
UnescapeCorrect == InPlace /\ (phase = "done" => Contents = Unescaped(source))

=============================================================================
