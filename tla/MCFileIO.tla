------------------------------ MODULE MCFileIO -------------------------------
(* A small instance of FileIO for TLC.                                     *)
EXTENDS FileIO

=============================================================================
