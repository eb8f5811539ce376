----------------------------- MODULE Conversions -----------------------------
(***************************************************************************)
(* A program that has some data in one form and has platform/src's         *)
(* uti_string.c and uti_time.c convert it, from form to form: bytes to and *)
(* from base64 and hexadecimal text, a text in UTF-8 that is measured and  *)
(* copied, and the time in its two forms.  Text may be damaged on its way. *)
(***************************************************************************)
EXTENDS Base64, Utf8, TimeConv, SequencesExt

CONSTANTS
  Bytes,    \* the byte strings that are converted
  Codes,    \* the texts, as sequences of characters
  Now,      \* the times the clock shows, <<sec, usec>>
  Zone,     \* the zones the program is run in, with the set of what the
            \* clocks may be ahead (saving)
  Junk,     \* the bytes that damage puts in a text
  Beyond    \* what may follow a text in memory

ASSUME DataAssumption ==
  /\ Bytes \subseteq Seq(Byte)
  /\ Codes \subseteq Seq(1..MaxCode)
  /\ Now \subseteq Int \X (0..Second - 1)
  /\ Zone \subseteq [offset : Int, west : Int, saving : SUBSET Int]
  /\ Junk \subseteq Byte
  /\ Beyond \subseteq Seq(Byte)

VARIABLES
  form,     \* the form that data is in
  data,
  origin,   \* history: the data in its first form
  zone,
  used      \* history: what makes it different to come back to that form

vars == <<form, data, origin, zone, used>>

Utf8Text(codes) == FlattenSeq([i \in DOMAIN codes |-> Encoded(codes[i])])

NoZone == [offset |-> 0, west |-> 0, saving |-> {0}]

Init ==
  /\ \/ form = "bytes" /\ origin \in Bytes /\ data = origin /\ zone = NoZone
     \/ form = "utf8" /\ origin \in Codes /\ data = Utf8Text(origin) /\ zone = NoZone
     \/ form = "now" /\ origin \in Now /\ data = origin /\ zone \in Zone
  /\ used = {}

Convert(from, to, result) ==
  /\ form = from
  /\ form' = to
  /\ data' = result
  /\ UNCHANGED <<origin, zone>>

EncodeBase64 == Convert("bytes", "base64", ngx_encode_base64(data)) /\ UNCHANGED used

DecodeBase64(url) ==
  LET r == ngx_decode_base64(data, url) IN
  form = "base64" /\ r.ok /\ Convert("base64", "bytes", r.out) /\ UNCHANGED used

HexDump == Convert("bytes", "hex", ngx_hex_dump(data)) /\ UNCHANGED used

ReadHex ==
  LET r == str2buf(data) IN
  form = "hex" /\ r.ok /\ Convert("hex", "bytes", r.out) /\ UNCHANGED used

GetTimeS == Convert("now", "time_s", <<uti_get_time_s(zone, data)>>) /\ UNCHANGED used

GetTimeT ==
  \E saving \in zone.saving :
    Convert("now", "time_t", uti_get_time_t(zone, saving, data)) /\ UNCHANGED used

ConvertTimeS ==
  \E saving \in zone.saving :
    /\ Convert("time_t", "time_s", <<uti_convert_time_s(zone, saving, data)>>)
    /\ UNCHANGED used

(* Bound: once, as a time that is wrong gets more so with each use.        *)
ConvertTimeT ==
  /\ "uti_convert_time_t" \notin used
  /\ Convert("time_s", "time_t", uti_convert_time_t(data[1]))
  /\ used' = used \cup {"uti_convert_time_t"}

(* A byte of a text is changed, or its last one lost, but only once.       *)
Damage ==
  /\ form \in {"base64", "hex", "utf8"}
  /\ "damage" \notin used
  /\ data # <<>>
  /\ \/ \E i \in DOMAIN data, c \in Junk : data' = [data EXCEPT ![i] = c]
     \/ data' = Front(data)
  /\ used' = used \cup {"damage"}
  /\ UNCHANGED <<form, origin, zone>>

Next ==
  \/ EncodeBase64
  \/ \E url \in BOOLEAN : DecodeBase64(url)
  \/ HexDump
  \/ ReadHex
  \/ GetTimeS
  \/ GetTimeT
  \/ ConvertTimeS
  \/ ConvertTimeT
  \/ Damage

Spec == Init /\ [][Next]_vars

-----------------------------------------------------------------------------
(* Properties.                                                             *)

Intact == "damage" \notin used

(* Bytes that were encoded in base64 or in hexadecimal come back as they   *)
(* were, however often it is done and for every length, but that there is  *)
(* no hexadecimal text of nothing; the decoder for URLs gives the same or  *)
(* fails (uti_string.c:66-115, :121-259).                                  *)
BytesKept ==
  Intact =>
    /\ form = "bytes" => data = origin
    /\ form = "base64" => ngx_decode_base64(data, FALSE) = Gives(origin)
    /\ form = "hex" /\ origin # <<>> => str2buf(data) = Gives(origin)

Converted == "uti_convert_time_t" \in used

(* What summer time may add: the hour of localtime_r, less one for each    *)
(* mktime that took the fields for a time in summer.                       *)
SummerErrors ==
  LET ahead == zone.saving \cup {0} IN
  IF form = "time_t" /\ ~Converted THEN ahead
  ELSE IF form = "time_s" /\ Converted THEN {a - b - c : a, b, c \in ahead}
  ELSE {a - b : a, b \in ahead}

(* The two forms of the time agree (uti_time.c:60, :82-85, :111, :133-137), *)
(* taken from the clock or converted to the other and back, but for three  *)
(* things, and by no more than each of them makes.  uti_convert_time_t     *)
(* gives what a clock without tz_minuteswest would read, which is another  *)
(* time when that is not the C library's zone.  uti_convert_time_s leaves  *)
(* tm_isdst to chance.  And the microseconds are a fraction of a second,   *)
(* but may be negative after uti_convert_time_t of a time before the epoch.*)
TimesAgree ==
  form \in {"time_s", "time_t"} =>
    LET east  == -60 * zone.west
        shift == (IF form = "time_s" THEN east ELSE zone.offset)
                   + (IF Converted THEN east - zone.offset ELSE 0)
    IN  /\ \E error \in SummerErrors :
             (IF form = "time_s" THEN data[1] ELSE data[1] * Second + data[2])
               = (origin[1] + shift + error) * Second + origin[2]
        /\ form = "time_t" =>
             \/ data[2] \in 0..Second - 1
             \/ Converted /\ data[1] <= 0 /\ data[2] \in 1 - Second..-1

(* The length of a text is the number of its characters, whatever follows  *)
(* it in memory, and a copy has whole characters, as many as fit           *)
(* (uti_string.c:328-353, :356-399).  In a damaged text too, a character   *)
(* is decoded from its shortest sequence only, and one that is cut at the  *)
(* end is not read past it when decode is told how much is left (:303).    *)
Utf8Correct ==
  form = "utf8" =>
    /\ Intact =>
         /\ \A rest \in Beyond : ngx_utf8_length(data \o rest, Len(data)) = Len(origin)
         /\ \A k \in 0..Len(origin) + 1 :
              ngx_utf8_cpystrn(Append(data, 0), k + 1, Len(data))
                = Utf8Text(SubSeq(origin, 1, IF k < Len(origin) THEN k ELSE Len(origin)))
    /\ \A p \in DOMAIN data :
         LET r == ngx_utf8_decode(data, p, Len(data) - p + 1) IN
         data[p] >= 128 =>
           /\ r.next \in p..Len(data) + 1
           /\ r.code <= MaxCode => r.code >= 128 /\ r.next = p + Width(r.code)

=============================================================================
