---------------------------- MODULE MCConversions ----------------------------
(* A small instance of Conversions for TLC.                                *)
EXTENDS Conversions

MCBytes == BoundedSeq({0, 3, 62, 129, 254}, 4)

(* The ends of the ranges of each width.                                   *)
MCCodes == BoundedSeq({65, 127, 128, 2047, 2048, 65535, 65536, MaxCode}, 2)

MCNow == {<<s, u>> : s \in {-3601, -1, 0, 1, 90000}, u \in {0, 1, 9}}

(* UTC, China as a PC's kernel has it and as the C library has it alone,   *)
(* and New York with its summer time.                                      *)
MCZone ==
  {[offset |-> 0, west |-> 0, saving |-> {0}],
   [offset |-> 28800, west |-> -480, saving |-> {0}],
   [offset |-> 28800, west |-> 0, saving |-> {0}],
   [offset |-> -18000, west |-> 300, saving |-> {0, 3600}]}

(* = + 0 A F g and first and following bytes of UTF-8, legal or not.       *)
MCJunk == {61, 43, 48, 65, 70, 103, 128, 191, 192, 194, 224, 240, 247, 255}

MCBeyond == {<<a, b, c>> : a, b, c \in {0, 65, 191, 240}}

=============================================================================
