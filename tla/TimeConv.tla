------------------------------ MODULE TimeConv -------------------------------
(***************************************************************************)
(* The clock and its conversions of platform/src/uti_time.c.               *)
(*                                                                         *)
(* A UtiTime_t is the pair of what its calendar fields read, as seconds    *)
(* from the epoch to that reading, and its microseconds: the C library's   *)
(* gmtime_r, localtime_r and mktime take one form to the other.  A zone    *)
(* has the C library's offset east in seconds, the tz_minuteswest of       *)
(* gettimeofday, which comes from elsewhere, and the seconds that its      *)
(* clocks may be ahead in summer.                                          *)
(***************************************************************************)
EXTENDS Integers, Sequences

CONSTANT Second   \* clock units per second: 1000000 in the code

ASSUME SecondAssumption == Second \in Nat \ {0}

(* C's division, towards zero.                                             *)
Quotient(v) == IF v >= 0 THEN v \div Second ELSE -((-v) \div Second)

MutWest(zone) == zone.west

West(zone) == zone.west * 60

(* The time <<sec, usec>> since the epoch as the library tells it.         *)
uti_get_time_s(zone, now) == (now[1] - West(zone)) * Second + now[2]

uti_get_time_t(zone, saving, now) == <<now[1] + zone.offset + saving, now[2]>>

(* mktime takes the fields for a time with or without a summer hour, as    *)
(* tm_isdst says, which is not initialized.                                *)
uti_convert_time_s(zone, saving, t) ==
  (t[1] - zone.offset - saving - West(zone)) * Second + t[2]

uti_convert_time_t(v) == <<Quotient(v), v - Quotient(v) * Second>>

=============================================================================
