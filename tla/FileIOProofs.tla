---------------------------- MODULE FileIOProofs ----------------------------
(***************************************************************************)
(* Proofs about the reads and writes of uti_file.c, for any bytes and any  *)
(* lengths of files and buffers.                                           *)
(***************************************************************************)
EXTENDS FileIO, SequenceTheorems, TLAPS

LEMMA BoundedIsSeq ==
  ASSUME NEW S, NEW k \in Nat, NEW s
  PROVE  s \in BoundedSeq(S, k) <=> s \in Seq(S) /\ Len(s) <= k
<1>1. ASSUME s \in BoundedSeq(S, k) PROVE s \in Seq(S) /\ Len(s) <= k
  <2>1. PICK m \in 0..k : s \in [1..m -> S]
    BY <1>1 DEF BoundedSeq, SeqOf
  <2>2. s \in Seq(S)
    BY <2>1, SeqDef
  <2> QED BY <2>1, <2>2, LenProperties
<1>2. ASSUME s \in Seq(S), Len(s) <= k PROVE s \in BoundedSeq(S, k)
  <2>1. Len(s) \in 0..k /\ s \in [1..Len(s) -> S]
    BY <1>2, LenProperties
  <2> QED BY <2>1 DEF BoundedSeq, SeqOf
<1> QED BY <1>1, <1>2

(* A sequence is cut in two behind its place k + n.                        *)
LEMMA Cut ==
  ASSUME NEW t \in Seq(Byte), NEW k \in Nat, NEW n \in Nat, k + n <= Len(t)
  PROVE  /\ SubSeq(t, k + 1, k + n) \in Seq(Byte)
         /\ Len(SubSeq(t, k + 1, k + n)) = n
         /\ SubSeq(t, 1, k) \o SubSeq(t, k + 1, k + n) = SubSeq(t, 1, k + n)
<1>1. Len(t) \in Nat
  BY LenProperties
<1>2. \A i \in k + 1..k + n : t[i] \in Byte
  BY <1>1, ElementOfSeq
<1>3. SubSeq(t, k + 1, k + n) \in Seq(Byte)
  BY <1>2, SubSeqProperties
<1>4. Len(SubSeq(t, k + 1, k + n)) = n
  BY <1>2, SubSeqProperties
<1>5. 1 \in 1..Len(t) + 1 /\ k \in 1 - 1..Len(t) /\ k + n \in k..Len(t)
  BY <1>1
<1>6. SubSeq(t, 1, k) \o SubSeq(t, k + 1, k + n) = SubSeq(t, 1, k + n)
  BY <1>5, ConcatAdjacentSubSeq
<1> QED BY <1>3, <1>4, <1>6

LEMMA Regroup ==
  ASSUME NEW t \in Seq(Byte), NEW u \in Seq(Byte), NEW v \in Seq(Byte)
  PROVE  (t \o u) \o v = t \o (u \o v)
<1>1. \A S : \A a, b, c \in Seq(S) : (a \o b) \o c = a \o (b \o c)
  BY ConcatAssociative
<1> QED BY <1>1

-----------------------------------------------------------------------------
(* The types, with buffers and files of any length, but for running.       *)
Types ==
  /\ op \in Reads \cup Writes
  /\ len \in 0..MaxLen
  /\ left \in 0..len
  /\ result \in -1..len
  /\ errno \in {"none", "EINTR", "EIO"}
  /\ buff \in Seq(Byte)
  /\ input \in Seq(Byte) /\ Len(input) <= MaxInput
  /\ output \in Seq(Byte)
  /\ output0 \in Seq(Byte)

(* How full the buffer is.                                                 *)
Filled == Len(buff) = (IF op \in Reads THEN len - left ELSE len)

NoNewLine == \A i \in 1..Len(buff) : buff[i] # NewLine

(* A call that runs has room left, and no line has ended.                  *)
Unfinished ==
  running => left > 0 /\ (op = "os_read_file_line" => NoNewLine)

FileInv == running \in BOOLEAN /\ Types /\ Filled /\ Unfinished /\ InOrder /\ ResultCorrect

LEMMA Kinds ==
  /\ \A f \in Reads : f \notin Writes /\ f # "os_write_file"
  /\ \A f \in Writes : f \notin Reads /\ f # "os_read_file" /\ f # "os_read_file_line"
  /\ "os_read_file" \in Reads /\ "os_write_file" \in Writes
  /\ "os_read_file_line" \in Reads /\ "os_read_file_line" \notin Datagrams
  /\ "os_read_file" \notin Datagrams /\ "os_write_file" \notin Datagrams
BY DEF Reads, Writes, Datagrams

LEMMA FileInit == Init => FileInv
<1> SUFFICES ASSUME Init PROVE FileInv
  OBVIOUS
<1>1. <<>> \in Seq(Byte) /\ Len(<<>>) = 0
  BY EmptySeq
<1>2. input \in Seq(Byte) /\ Len(input) <= MaxInput
  BY BoundedIsSeq, FileAssumption DEF Init
<1>3. Types
  <2>1. /\ op \in Reads \cup Writes /\ errno \in {"none", "EINTR", "EIO"}
        /\ buff \in Seq(Byte) /\ output \in Seq(Byte) /\ output0 \in Seq(Byte)
    BY <1>1, Kinds DEF Init
  <2>2. len \in 0..MaxLen /\ left \in 0..len /\ result \in -1..len
    BY FileAssumption DEF Init
  <2> QED BY <1>2, <2>1, <2>2 DEF Types
<1>4. InOrder
  <2>1. <<>> \o input = input /\ <<>> \o <<>> = <<>>
    BY <1>1, <1>2, ConcatEmptySeq
  <2> QED BY <2>1, Kinds DEF Init, InOrder
<1>5. running \in BOOLEAN /\ Filled /\ Unfinished /\ ResultCorrect
  <2>1. /\ running = FALSE /\ op = "os_read_file" /\ len = 0 /\ left = 0
        /\ buff = <<>> /\ result = 0
    BY DEF Init
  <2>2. len - left = 0
    BY <2>1
  <2>3. Filled
    BY <1>1, <2>1, <2>2, Kinds, Zenon DEF Filled
  <2>4. ResultCorrect
    BY <2>1, <2>2, Kinds, "os_read_file" # "os_read_file_line",
       Zenon DEF ResultCorrect
  <2> QED BY <2>1, <2>3, <2>4, Zenon DEF Unfinished
<1> QED BY <1>3, <1>4, <1>5 DEF FileInv

LEMMA CallStep ==
  ASSUME FileInv, NEW f \in Reads \cup Writes, NEW content \in Contents,
         Call(f, content)
  PROVE  FileInv'
<1>1. content \in Seq(Byte) /\ Len(content) \in 1..MaxLen
  <2>1. content \in Seq(Byte) /\ Len(content) <= MaxLen /\ content # <<>>
    BY BoundedIsSeq, FileAssumption DEF Contents
  <2> QED BY <2>1, EmptySeq
<1>2. <<>> \in Seq(Byte) /\ Len(<<>>) = 0
  BY EmptySeq
<1>3. Types'
  BY <1>1, <1>2, FileAssumption DEF Call, FileInv, Types
<1>4. Filled'
  BY <1>1, <1>2, Kinds DEF Call, Filled
<1>5. Unfinished'
  BY <1>1, <1>2, Kinds DEF Call, Unfinished, NoNewLine
<1>6. InOrder'
  <2>1. <<>> \o input = input /\ output \o <<>> = output
    BY ConcatEmptySeq DEF FileInv, Types
  <2>2. SubSeq(content, 1, 0) = <<>>
    BY SubSeqEmpty
  <2>3. len' - left' = 0
    BY <1>1 DEF Call
  <2> QED BY <2>1, <2>2, <2>3, Kinds DEF Call, InOrder
<1> QED BY <1>3, <1>4, <1>5, <1>6 DEF FileInv, ResultCorrect, Call

(* What a step that moves n bytes does to the call.                        *)
LEMMA ProgressStep ==
  ASSUME FileInv, running, NEW n \in 1..left, Progress(n)
  PROVE  /\ left' = left - n /\ left - n \in 0..len
         /\ len' = len /\ op' = op /\ len \in 0..MaxLen
         /\ result' \in -1..len
         /\ running' \in BOOLEAN
         /\ Ends(n) => running' = FALSE /\ result' = len - (left - n)
         /\ ~Ends(n) => running' = running /\ result' = result
<1>1. /\ left' = left - n /\ len' = len /\ op' = op
      /\ Ends(n) => running' = FALSE /\ result' = len - (left - n)
      /\ ~Ends(n) => running' = running /\ result' = result
  BY DEF Progress, Return, call
<1>2. len \in 0..MaxLen /\ left - n \in 0..len
  BY FileAssumption DEF FileInv, Types
<1>3. len - (left - n) \in -1..len /\ result \in -1..len
  BY <1>2, FileAssumption DEF FileInv, Types
<1>4. result' \in -1..len
  BY <1>1, <1>3
<1>5. running' \in BOOLEAN
  BY <1>1 DEF FileInv
<1> QED BY <1>1, <1>2, <1>4, <1>5

(* In the two lemmas that follow, what the step leaves in a variable has a *)
(* name: l for left, full for buff, rest for input and more for output.    *)
LEMMA ReadStep ==
  ASSUME FileInv, NEW n \in 1..MaxLen, Read(n)
  PROVE  FileInv'
<1> USE DEF FileInv
<1>1. running /\ op \in Reads /\ op \notin Writes /\ left > 0
  BY Kinds DEF Read, Unfinished
<1>2. /\ n \in 1..left /\ n <= Len(input) /\ n \in Nat /\ Len(input) \in Nat
      /\ left \in Nat /\ len \in Nat
  BY <1>1, FileAssumption, LenProperties DEF Read, Wanted, Types
<1> DEFINE head == SubSeq(input, 1, n)
           rest == SubSeq(input, n + 1, Len(input))
           full == buff \o head
           l    == left - n
<1>3. /\ head \in Seq(Byte) /\ Len(head) = n
      /\ rest \in Seq(Byte) /\ Len(rest) = Len(input) - n
      /\ head \o rest = input
  <2>1. SubSeq(input, 0 + 1, 0 + n) \in Seq(Byte)
        /\ Len(SubSeq(input, 0 + 1, 0 + n)) = n
    BY ONLY <1>2, Cut, Types, 0 \in Nat DEF Types
  <2>2. /\ SubSeq(input, n + 1, n + (Len(input) - n)) \in Seq(Byte)
        /\ Len(SubSeq(input, n + 1, n + (Len(input) - n))) = Len(input) - n
        /\ SubSeq(input, 1, n) \o SubSeq(input, n + 1, n + (Len(input) - n))
             = SubSeq(input, 1, n + (Len(input) - n))
    <3>1. Len(input) - n \in Nat /\ n + (Len(input) - n) <= Len(input)
      BY <1>2
    <3> QED BY ONLY <1>2, <3>1, Cut, Types DEF Types
  <2>3. n + (Len(input) - n) = Len(input) /\ 0 + 1 = 1 /\ 0 + n = n
    BY <1>2
  <2>4. SubSeq(input, 1, Len(input)) = input
    BY SubSeqFull DEF Types
  <2> QED BY <2>1, <2>2, <2>3, <2>4
<1>4. head[1] = input[1]
  <2>1. \A i \in 1..n : input[i] \in Byte
    BY <1>2, ElementOfSeq DEF Types
  <2> QED BY <1>2, <2>1, SubSeqProperties
<1>5. /\ buff' = full /\ input' = rest
      /\ UNCHANGED <<output, output0, input0, errno>>
  BY DEF Read, Progress, call
<1>6. /\ left' = l /\ l \in 0..len /\ len' = len /\ op' = op
      /\ len \in 0..MaxLen /\ result' \in -1..len /\ running' \in BOOLEAN
      /\ Ends(n) => running' = FALSE /\ result' = len - l
      /\ ~Ends(n) => running' = running /\ result' = result
  BY <1>1, <1>2, ProgressStep DEF Read
<1> HIDE DEF head, rest
<1>7. /\ full \in Seq(Byte) /\ Len(full) = Len(buff) + n /\ Len(buff) \in Nat
      /\ \A i \in 1..Len(buff) + n :
            full[i] = IF i <= Len(buff) THEN buff[i] ELSE head[i - Len(buff)]
  BY <1>3, ConcatProperties, LenProperties DEF Types
<1>8. full \o rest = buff \o input
  <2>1. buff \in Seq(Byte)
    BY DEF Types
  <2>2. (buff \o head) \o rest = buff \o (head \o rest)
    BY ONLY <1>3, <2>1, Regroup, Zenon
  <2> QED BY <1>3, <2>2
<1>9. Len(full) = len - l /\ Len(full) >= 1
  BY <1>1, <1>2, <1>7 DEF Filled
<1>10. ASSUME op = "os_read_file_line"
       PROVE  /\ full[Len(full)] = input[1]
              /\ \A i \in 1..Len(full) : i # Len(full) => full[i] # NewLine
  <2>1. n = 1
    BY <1>10, <1>2 DEF Read, Wanted
  <2>2. NoNewLine
    BY <1>1, <1>10 DEF Unfinished
  <2> QED BY <1>4, <1>7, <2>1, <2>2 DEF NoNewLine
<1>11. /\ ~Ends(n) => l > 0 /\ (op = "os_read_file_line" => input[1] # NewLine)
       /\ op = "os_read_file" /\ Ends(n) => l = 0
       /\ op = "os_read_file_line" /\ Ends(n) => l = 0 \/ input[1] = NewLine
  BY <1>2, <1>6, Kinds DEF Ends
<1> HIDE DEF full, l
<1>12. Types'
  <2>1. Len(rest) <= MaxInput
    BY <1>2, <1>3, FileAssumption DEF Types
  <2>2. op' \in Reads \cup Writes /\ len' \in 0..MaxLen /\ left' \in 0..len'
        /\ result' \in -1..len'
    BY ONLY <1>6, Types, Zenon DEF Types
  <2> QED BY <1>3, <1>5, <1>7, <2>1, <2>2, Zenon DEF Types
<1>13. Filled'
  BY <1>1, <1>5, <1>6, <1>9, Zenon DEF Filled
<1>14. InOrder'
  BY <1>1, <1>5, <1>6, <1>8, Zenon DEF InOrder
<1>15. Unfinished'
  <2> SUFFICES ASSUME running'
               PROVE  l > 0 /\ (op = "os_read_file_line" =>
                                  \A i \in 1..Len(full) : full[i] # NewLine)
    BY <1>5, <1>6, Zenon DEF Unfinished, NoNewLine
  <2>1. ~Ends(n)
    BY <1>6, Zenon
  <2> QED BY <2>1, <1>10, <1>11
<1>16. ResultCorrect'
  <2> SUFFICES ASSUME ~running'
               PROVE  ResultCorrect'
    BY DEF ResultCorrect
  <2>1. Ends(n)
    BY <1>1, <1>6, Zenon
  <2>2. result' = len - l /\ len - l = Len(full)
    BY <1>6, <1>9, <2>1
  <2>3. op = "os_read_file" => l = 0
    BY <1>11, <2>1
  <2>4. op # "os_write_file"
    BY <1>1, Kinds
  <2>5. ASSUME op = "os_read_file_line"
        PROVE  /\ {i \in 1..Len(full) : full[i] = NewLine} \subseteq {len - l}
               /\ l = 0 \/ {i \in 1..Len(full) : full[i] = NewLine} # {}
    <3>1. Len(full) \in 1..Len(full)
      BY <1>2, <1>7, <1>9
    <3> QED BY <1>10, <1>11, <2>1, <2>2, <2>5, <3>1
  <2> QED BY <1>5, <1>6, <2>2, <2>3, <2>4, <2>5, Zenon DEF ResultCorrect
<1> QED BY <1>6, <1>12, <1>13, <1>14, <1>15, <1>16, Zenon

LEMMA WriteStep ==
  ASSUME FileInv, NEW n \in 1..MaxLen, Write(n)
  PROVE  FileInv'
<1> USE DEF FileInv
<1>1. /\ running /\ op \in Writes /\ op \notin Reads /\ left > 0
      /\ op # "os_read_file_line" /\ op # "os_read_file"
  BY Kinds DEF Write, Unfinished
<1>2. /\ n \in 1..left /\ n \in Nat /\ left \in Nat /\ len \in Nat
      /\ left <= len
  BY <1>1, FileAssumption DEF Write, Wanted, Types
<1> DEFINE l == left - n
           k == len - left
           part == SubSeq(buff, k + 1, k + n)
           more == output \o part
<1>3. /\ left' = l /\ l \in 0..len /\ len' = len /\ op' = op
      /\ len \in 0..MaxLen /\ result' \in -1..len /\ running' \in BOOLEAN
      /\ Ends(n) => running' = FALSE /\ result' = len - l
      /\ ~Ends(n) => running' = running /\ result' = result
  BY <1>1, <1>2, ProgressStep DEF Write
<1>4. UNCHANGED <<buff, input, errno, input0, output0>> /\ output' = more
  BY DEF Write, Position, Progress, call
<1>5. Len(buff) = len
  BY <1>1, Zenon DEF Filled
<1>6. k \in Nat /\ k + n <= Len(buff) /\ len - l = k + n
  BY <1>2, <1>5
<1>7. /\ ~Ends(n) => l > 0
      /\ op = "os_write_file" /\ Ends(n) => l = 0
  BY <1>1, <1>2, Kinds DEF Ends
<1>8. output = output0 \o SubSeq(buff, 1, k)
  BY <1>1, Zenon DEF InOrder
<1> HIDE DEF k, l
<1>9. part \in Seq(Byte) /\ SubSeq(buff, 1, k) \o part = SubSeq(buff, 1, k + n)
  BY ONLY <1>2, <1>6, Cut, Types DEF Types
<1>10. SubSeq(buff, 1, k) \in Seq(Byte)
  <2>1. SubSeq(buff, 0 + 1, 0 + k) \in Seq(Byte)
    <3>1. 0 + k <= Len(buff) /\ 0 \in Nat
      BY <1>2, <1>5, <1>6
    <3> QED BY ONLY <3>1, <1>6, Cut, Types DEF Types
  <2>2. 0 + 1 = 1 /\ 0 + k = k
    BY <1>6
  <2> QED BY <2>1, <2>2
<1> HIDE DEF part
<1>11. more \in Seq(Byte) /\ more = output0 \o SubSeq(buff, 1, len - l)
  <2>1. more \in Seq(Byte)
    BY <1>9, ConcatProperties DEF Types
  <2>2. (output0 \o SubSeq(buff, 1, k)) \o part
          = output0 \o (SubSeq(buff, 1, k) \o part)
    <3>1. output0 \in Seq(Byte)
      BY DEF Types
    <3> QED BY ONLY <1>9, <1>10, <3>1, Regroup, Zenon
  <2> QED BY ONLY <1>6, <1>8, <1>9, <2>1, <2>2, Zenon DEF more
<1> HIDE DEF more
<1>12. Types'
  <2>1. op' \in Reads \cup Writes /\ len' \in 0..MaxLen /\ left' \in 0..len'
        /\ result' \in -1..len'
    BY ONLY <1>3, Types, Zenon DEF Types
  <2> QED BY <1>4, <1>11, <2>1, Zenon DEF Types
<1>13. Filled'
  BY <1>1, <1>3, <1>4, <1>5, Zenon DEF Filled
<1>14. Unfinished'
  <2>1. running' => ~Ends(n)
    BY <1>3, Zenon
  <2> QED BY <1>1, <1>3, <1>7, <2>1, Zenon DEF Unfinished
<1>15. InOrder'
  BY <1>1, <1>3, <1>4, <1>11, Zenon DEF InOrder
<1>16. ResultCorrect'
  <2>1. ~running' => Ends(n)
    BY <1>1, <1>3, Zenon
  <2> QED BY <1>1, <1>3, <1>7, <2>1, Zenon DEF ResultCorrect
<1> QED BY <1>3, <1>12, <1>13, <1>14, <1>15, <1>16, Zenon

(* The other steps move nothing: the call goes on, or it ends with -1, or  *)
(* with what it has at the end of the file.                                *)
LEMMA NothingMoved ==
  ASSUME FileInv, running, UNCHANGED <<call, left, buff, input, output>>,
         errno' \in {"none", "EINTR", "EIO"},
         \/ UNCHANGED <<running, result>>
         \/ running' = FALSE /\ result' = -1
         \/ /\ running' = FALSE /\ result' = len - left
            /\ op \in Reads \ {"os_read_file_line"} /\ input = <<>>
  PROVE  FileInv'
<1> USE DEF FileInv
<1>1. UNCHANGED <<op, len, left, buff, input, output, input0, output0>>
  BY DEF call
<1>2. -1 \in -1..len /\ len - left \in -1..len /\ result \in -1..len /\ ~(-1 >= 0)
  BY FileAssumption DEF Types
<1>3. running' \in BOOLEAN /\ result' \in -1..len
  BY <1>2, Zenon
<1>4. Types'
  BY <1>1, <1>3, Zenon DEF Types
<1>5. Filled' /\ Unfinished' /\ InOrder'
  BY <1>1, Zenon DEF Filled, Unfinished, NoNewLine, InOrder
<1>6. ResultCorrect'
  <2>1. CASE UNCHANGED <<running, result>>
    <3>1. running'
      BY ONLY <2>1, running
    <3> QED BY <3>1, Zenon DEF ResultCorrect
  <2>2. CASE result' = -1
    <3>1. ~(result' >= 0)
      BY ONLY <2>2
    <3> QED BY <3>1, Zenon DEF ResultCorrect
  <2>3. CASE /\ result' = len - left /\ input = <<>>
             /\ op \in Reads \ {"os_read_file_line"}
    <3>1. op' # "os_write_file" /\ op' # "os_read_file_line"
      BY ONLY <1>1, <2>3, Kinds
    <3>2. result' = len' - left' /\ input' = <<>>
      BY ONLY <1>1, <2>3
    <3> QED BY <3>1, <3>2, Zenon DEF ResultCorrect
  <2> QED BY <2>1, <2>2, <2>3, Zenon
<1> QED BY <1>3, <1>4, <1>5, <1>6, Zenon

LEMMA FileStep == FileInv /\ [Next]_vars => FileInv'
<1> SUFFICES ASSUME FileInv, [Next]_vars PROVE FileInv'
  OBVIOUS
<1>1. ASSUME NEW f \in Reads \cup Writes, NEW content \in Contents, Call(f, content)
      PROVE  FileInv'
  BY <1>1, CallStep
<1>2. ASSUME NEW n \in 1..MaxLen, Read(n) \/ Write(n)
      PROVE  FileInv'
  BY <1>2, ReadStep, WriteStep
<1>3. CASE EndOfFile
  BY <1>3, NothingMoved DEF EndOfFile, Return, FileInv, Types
<1>4. CASE Fail \/ WriteNothing \/ Interrupted
  BY <1>4, NothingMoved
     DEF Fail, WriteNothing, Interrupted, Return, call, FileInv, Types
<1>5. CASE UNCHANGED vars
  BY <1>5 DEF vars, call, FileInv, Types, Filled, Unfinished, NoNewLine,
              InOrder, ResultCorrect
<1> QED BY <1>1, <1>2, <1>3, <1>4, <1>5 DEF Next, Moves

(* FileInv holds at all times, of each system call of each function.       *)
THEOREM FileInductive == Spec => []FileInv
<1> QED BY FileInit, FileStep, PTL DEF Spec

(* The types, for files and buffers of any length.                         *)
THEOREM FileTypes == Spec => []TypeOK
<1>1. FileInv => TypeOK
  <2> SUFFICES ASSUME FileInv PROVE TypeOK
    OBVIOUS
  <2>1. len \in Nat /\ Len(buff) <= len
    BY FileAssumption DEF FileInv, Types, Filled
  <2>2. buff \in BoundedSeq(Byte, len)
    BY <2>1, BoundedIsSeq DEF FileInv, Types
  <2>3. input \in BoundedSeq(Byte, MaxInput)
    BY BoundedIsSeq, FileAssumption DEF FileInv, Types
  <2> QED BY <2>2, <2>3 DEF FileInv, Types, TypeOK
<1> QED BY <1>1, FileInductive, PTL

(* However the system splits a transfer and signals interrupt it, its      *)
(* bytes are moved once and in order (uti_file.c:46-47, :70-71).           *)
THEOREM BytesInOrder == Spec => []InOrder
<1>1. FileInv => InOrder
  BY DEF FileInv
<1> QED BY <1>1, FileInductive, PTL

(* What callers take a result for is what it means (uti_file.c:50, :74,    *)
(* :95, :127-137).                                                         *)
THEOREM ResultsMeanWhatTheySay == Spec => []ResultCorrect
<1>1. FileInv => ResultCorrect
  BY DEF FileInv
<1> QED BY <1>1, FileInductive, PTL

=============================================================================
