------------------------------- MODULE FileIO --------------------------------
(***************************************************************************)
(* The reads and writes of platform/src/uti_file.c, over a system that     *)
(* moves as many bytes as it likes, is interrupted by signals, and fails.  *)
(* A step is a system call and what follows it up to the next one.         *)
(*                                                                         *)
(* errno keeps its value when a call does not fail, and the writes look at *)
(* it also then.                                                           *)
(***************************************************************************)
EXTENDS Integers, Sequences, SequencesExt

CONSTANTS
  Byte,
  NewLine,
  MaxLen,      \* the lengths of buffers
  MaxInput,    \* the length of the file that is read
  MaxOutput    \* bound on what is written

ASSUME FileAssumption ==
  /\ NewLine \in Byte
  /\ MaxLen \in Nat \ {0}
  /\ MaxInput \in Nat
  /\ MaxOutput \in Nat

VARIABLES
  op,         \* the function that was called last
  running,    \* whether it still runs
  len, left,  \* its argument, and l or len - nLen
  buff,       \* what is in the buffer
  result,
  errno,
  input,      \* what follows the file position of the file that is read
  output,     \* what was written
  input0, output0   \* history: both when the function was called

call == <<op, len, input0, output0>>
vars == <<call, running, left, buff, result, errno, input, output>>

Reads  == {"os_read_file", "os_read_file_datagram", "os_read_file_line"}
Writes == {"os_write_file", "os_write_file_datagram"}

Datagrams == {"os_read_file_datagram", "os_write_file_datagram"}

TypeOK ==
  /\ op \in Reads \cup Writes
  /\ running \in BOOLEAN
  /\ len \in 0..MaxLen
  /\ left \in 0..len
  /\ buff \in BoundedSeq(Byte, len)
  /\ result \in -1..len
  /\ errno \in {"none", "EINTR", "EIO"}
  /\ input \in BoundedSeq(Byte, MaxInput)
  /\ output \in Seq(Byte)

-----------------------------------------------------------------------------
Init ==
  /\ op = "os_read_file" /\ running = FALSE
  /\ len = 0 /\ left = 0 /\ buff = <<>> /\ result = 0
  /\ errno = "none"
  /\ input \in BoundedSeq(Byte, MaxInput)
  /\ output = <<>>
  /\ input0 = input /\ output0 = output

(* With a length of 0, os_write_file_datagram would loop for ever if errno *)
(* is EINTR; the others return 0 at once.                                  *)
Call(f, content) ==
  /\ ~running
  /\ f \in Writes => Len(output) + Len(content) <= MaxOutput
  /\ op' = f
  /\ running' = TRUE
  /\ len' = Len(content) /\ left' = Len(content)
  /\ buff' = IF f \in Writes THEN content ELSE <<>>
  /\ input0' = input /\ output0' = output
  /\ result' = 0
  /\ UNCHANGED <<errno, input, output>>

Return(r) == running' = FALSE /\ result' = r

(* os_read_file_line reads byte by byte.                                   *)
Wanted == IF op = "os_read_file_line" THEN 1 ELSE left

(* A mutant: a line does not end before the buffer does.                   *)
MutEnds(n) == op \in Datagrams \/ left = n

(* Whether the function returns after n more bytes.                        *)
Ends(n) ==
  \/ op \in Datagrams
  \/ left = n
  \/ op = "os_read_file_line" /\ input[1] = NewLine

Progress(n) ==
  /\ left' = left - n
  /\ IF Ends(n) THEN Return(len - left') ELSE UNCHANGED <<running, result>>
  /\ UNCHANGED <<call, errno>>

Read(n) ==
  /\ running /\ op \in Reads
  /\ n <= Wanted /\ n <= Len(input)
  /\ buff' = buff \o SubSeq(input, 1, n)
  /\ input' = SubSeq(input, n + 1, Len(input))
  /\ Progress(n)
  /\ UNCHANGED output

EndOfFile ==
  /\ running /\ op \in Reads
  /\ input = <<>>
  /\ Return(IF op = "os_read_file_line" THEN -1 ELSE len - left)
  /\ UNCHANGED <<call, left, buff, errno, input, output>>

(* A mutant: after a partial write it begins anew.                         *)
MutPosition == 0

(* p - buff                                                                *)
Position == len - left

Write(n) ==
  /\ running /\ op \in Writes
  /\ n <= Wanted
  /\ output' = output \o SubSeq(buff, Position + 1, Position + n)
  /\ Progress(n)
  /\ UNCHANGED <<buff, input>>

(* write returns 0, and errno is from an earlier call.                     *)
WriteNothing ==
  /\ running /\ op \in Writes
  /\ IF errno = "EINTR" THEN UNCHANGED <<running, result>> ELSE Return(-1)
  /\ UNCHANGED <<call, left, buff, errno, input, output>>

(* A mutant: the -1 of the failed call is taken for a number of bytes.     *)
MutInterrupted ==
  /\ running
  /\ errno' = "EINTR"
  /\ left' = left + 1
  /\ UNCHANGED <<call, running, buff, result, input, output>>

(* The system call fails and is repeated.                                  *)
Interrupted ==
  /\ running
  /\ errno' = "EINTR"
  /\ UNCHANGED <<call, running, left, buff, result, input, output>>

(* A mutant: every error is taken for an interruption.                     *)
MutFail ==
  /\ running
  /\ errno' = "EIO"
  /\ UNCHANGED <<call, running, left, buff, result, input, output>>

Fail ==
  /\ running
  /\ errno' = "EIO"
  /\ Return(-1)
  /\ UNCHANGED <<call, left, buff, input, output>>

Contents == BoundedSeq(Byte, MaxLen) \ {<<>>}

Moves == EndOfFile \/ Fail \/ \E n \in 1..MaxLen : Read(n) \/ Write(n)

Next ==
  \/ \E f \in Reads \cup Writes, content \in Contents : Call(f, content)
  \/ Moves \/ WriteNothing \/ Interrupted

(* Signals and empty writes do not go on for ever.                         *)
Spec == Init /\ [][Next]_vars /\ WF_vars(Moves)

-----------------------------------------------------------------------------
(* Properties.                                                             *)

(* However a transfer is split and interrupted, the bytes that were moved  *)
(* are the first ones, each once and in order (uti_file.c:46-47, :70-71).  *)
InOrder ==
  /\ input0 = (IF op \in Reads THEN buff ELSE <<>>) \o input
  /\ output = output0 \o (IF op \in Writes THEN SubSeq(buff, 1, len - left) ELSE <<>>)

(* What a result that is not -1 means: os_write_file wrote everything,     *)
(* os_read_file fails to fill the buffer only at the end of the file, and  *)
(* os_read_file_line returned one line or filled the buffer                *)
(* (uti_file.c:50, :74, :95, :127-137).                                    *)
ResultCorrect ==
  (~running /\ result >= 0) =>
    LET newlines == {i \in 1..Len(buff) : buff[i] = NewLine} IN
    /\ result = len - left
    /\ op = "os_write_file" => left = 0
    /\ op = "os_read_file" => left = 0 \/ input = <<>>
    /\ op = "os_read_file_line" =>
         /\ newlines \subseteq {result}
         /\ left = 0 \/ newlines # {}

(* Every call returns, if the system moves a byte or fails in the end      *)
(* (uti_file.c:32, :58, :79, :92, :125).                                   *)
Returns == running ~> ~running

=============================================================================
