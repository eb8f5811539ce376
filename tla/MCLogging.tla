------------------------------ MODULE MCLogging ------------------------------
(* A small instance of Logging for TLC.                                    *)
EXTENDS Logging, TLC

(* Every other message is longer.                                          *)
MCLength == [m \in Msg |-> 1 + (m % 2)]

=============================================================================
