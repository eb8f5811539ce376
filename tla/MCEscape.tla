------------------------------ MODULE MCEscape -------------------------------
(* A small instance of Escape for TLC.                                     *)
EXTENDS Escape

(* A line feed, a space, " % & 0 4 ? a and a byte above 127.               *)
MCText == BoundedSeq({10, 34, 37, 38, 52, 60, 63, 97, 255}, 3)

(* Quotations of ? % and others, whole and broken: % 2 3 5 ? F g.          *)
MCQuoted == BoundedSeq({37, 50, 53, 63, 70, 103}, 6)

=============================================================================
