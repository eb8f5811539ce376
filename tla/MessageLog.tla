----------------------------- MODULE MessageLog ------------------------------
(***************************************************************************)
(* What a log promises: messages that were asked for are added at its end, *)
(* each of them no more than once, and what is in it stays.                *)
(***************************************************************************)
EXTENDS Sequences, SequencesExt

CONSTANT Msg

VARIABLES
  asked,   \* the messages that were given to it
  log

Init == asked = {} /\ log = <<>>

Ask(m) == m \notin asked /\ asked' = asked \cup {m} /\ UNCHANGED log

Write(m) ==
  /\ m \in asked
  /\ m \notin ToSet(log)
  /\ log' = Append(log, m)
  /\ UNCHANGED asked

Next == \E m \in Msg : Ask(m) \/ Write(m)

Spec == Init /\ [][Next]_<<asked, log>>

=============================================================================
