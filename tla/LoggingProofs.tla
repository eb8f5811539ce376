---------------------------- MODULE LoggingProofs ----------------------------
(***************************************************************************)
(* Proofs about the logging of uti_logging.c, for any threads, messages,   *)
(* descriptors and file sizes.                                             *)
(***************************************************************************)
EXTENDS Logging, Recursion, FiniteSetTheorems, SequenceTheorems, TLAPS

(* Between lock and unlock.                                                *)
Inside == {"agent", "stat", "rotate", "open", "store", "check", "write", "unlock"}

MutualExclusion == \A t \in Thread : pc[t] \in Inside <=> mutex = t

HasMessage == \A t \in Thread : pc[t] \in Inside \cup {"lock"} => msg[t] \in Msg

BaseInv == TypeOK /\ MutualExclusion /\ HasMessage

(* The descriptors of log files.                                           *)
Logs == {d \in Fd : open[d] \in 1..Len(files)}

LogsAre(d) == Logs = {d} \ {NULL} /\ (d # NULL => open[d] = Len(files))

(* Who closes does so alone.                                               *)
Alone == \A t, u \in Thread : Closing(t) /\ u # t => pc[u] = "idle"

(* The log file is in fileDesc but for the places where it is no file or   *)
(* still in a register.                                                    *)
InFileDesc == (\A t \in Thread : pc[t] \notin {"open", "store", "closed"}) => LogsAre(fileDesc)

InRegisterOf(t) ==
  /\ pc[t] \in {"open", "closed"} => Logs = {}
  /\ pc[t] = "store" => LogsAre(reg[t])
  /\ pc[t] \in {"stat", "rotate", "check", "write", "closing"} => reg[t] = fileDesc
  /\ pc[t] \in {"stat", "rotate", "write", "closing"} => fileDesc # NULL

InRegister == \A t \in Thread : InRegisterOf(t)

Stored(t) ==
  \/ msg[t] \in ToSet(console)
  \/ \E i \in 1..Len(files) :
       [msg |-> msg[t], size |-> Length[msg[t]]] \in ToSet(files[i])

NotLostBy(t) ==
  /\ pc[t] \in {"store", "check"} /\ reg[t] = NULL => failed[t]
  /\ pc[t] = "unlock" /\ ~failed[t] => Stored(t)

NotLost == \A t \in Thread : NotLostBy(t)

OneFile == Alone /\ InFileDesc /\ InRegister

LogInv == BaseInv /\ (~raced => OneFile /\ NotLost)

-----------------------------------------------------------------------------
LEMMA OnePieceMore ==
  ASSUME TypeOK, NEW i \in 1..Len(files), NEW x \in Piece
  PROVE  LET more == [files EXCEPT ![i] = Append(@, x)] IN
         /\ more \in Seq(Seq(Piece))
         /\ Len(more) = Len(files)
         /\ more[i] = Append(files[i], x)
<1>1. files \in Seq(Seq(Piece)) /\ files[i] \in Seq(Piece)
  BY DEF TypeOK
<1>2. Append(files[i], x) \in Seq(Piece)
  BY <1>1
<1> QED BY <1>1, <1>2, ExceptSeq

LEMMA InitLog == Init => LogInv
<1> SUFFICES ASSUME Init PROVE LogInv
  OBVIOUS
<1>1. TypeOK
  <2>1. \A n \in AskedSize : FileSize(n) \in 1..MaxSize
    BY LoggingAssumption DEF FileSize
  <2>2. files \in Seq(Seq(Piece)) /\ console \in Seq(Msg) /\ Len(files) = 0
    BY EmptySeq DEF Init
  <2> QED BY <2>1, <2>2, LoggingAssumption DEF Init, TypeOK
<1>2. MutualExclusion /\ HasMessage
  BY LoggingAssumption DEF Init, MutualExclusion, HasMessage, Inside
<1>3. Alone /\ InRegister /\ NotLost
  BY DEF Init, Alone, Closing, InRegister, InRegisterOf, NotLost, NotLostBy
<1>4. Logs = {}
  BY LoggingAssumption DEF Init, Logs
<1>5. InFileDesc
  BY <1>4 DEF Init, InFileDesc, LogsAre
<1> QED BY <1>1, <1>2, <1>3, <1>5 DEF LogInv, BaseInv, OneFile

-----------------------------------------------------------------------------
LEMMA ReadsDescriptor ==
  ASSUME TypeOK, NEW t \in Thread, NEW d \in Read(t)
  PROVE  d \in Fd \cup {NULL}
BY DEF TypeOK, Read

LEMMA ClosedType ==
  ASSUME TypeOK, NEW d \in Fd \cup {NULL}
  PROVE  Closed(d) \in [Fd -> {0, NULL} \cup 1..Len(files)]
BY DEF TypeOK, Closed

LEMMA TypeStep == ASSUME BaseInv, [Next]_vars PROVE TypeOK'
<1> USE DEF BaseInv, Go, trace, threads, history, system
<1>1. ASSUME NEW t \in Thread, NEW m \in Msg, log_printf(t, m) PROVE TypeOK'
  BY <1>1 DEF TypeOK, log_printf
<1>2. ASSUME NEW t \in Thread, Lock(t) PROVE TypeOK'
  BY <1>2 DEF TypeOK, Lock
<1>3. ASSUME NEW t \in Thread, default_log_agent(t) PROVE TypeOK'
  BY <1>3 DEF TypeOK, default_log_agent, HasMessage, Inside
<1>4. ASSUME NEW t \in Thread, file_log_agent(t) PROVE TypeOK'
  BY <1>4 DEF TypeOK, file_log_agent
<1>5. ASSUME NEW t \in Thread, Stat(t) PROVE TypeOK'
  BY <1>5 DEF TypeOK, Stat
<1>6. ASSUME NEW t \in Thread, Rotate(t) PROVE TypeOK'
  <2>1. PICK d \in Read(t) : open' = Closed(d)
    BY <1>6 DEF Rotate
  <2>2. open' \in [Fd -> {0, NULL} \cup 1..Len(files)]
    BY <2>1, ReadsDescriptor, ClosedType
  <2> QED BY <1>6, <2>2 DEF TypeOK, Rotate
<1>7. ASSUME NEW t \in Thread, Open(t) PROVE TypeOK'
  <2>1. /\ files' \in Seq(Seq(Piece)) /\ reg' \in [Thread -> Fd \cup {NULL}]
        /\ failed' \in [Thread -> BOOLEAN]
        /\ open' \in [Fd -> {0, NULL} \cup 1..Len(files')]
    <3>1. ASSUME NEW d \in Fd, files' = WithNewFile,
                 open' = [open EXCEPT ![d] = Len(files')]
          PROVE  /\ files' \in Seq(Seq(Piece))
                 /\ open' \in [Fd -> {0, NULL} \cup 1..Len(files')]
      <4>1. files' \in Seq(Seq(Piece)) /\ Len(files') = Len(files) + 1
        BY <3>1 DEF WithNewFile, TypeOK
      <4>2. Len(files) \in Nat
        BY DEF TypeOK
      <4>3. 1..Len(files) \subseteq 1..Len(files') /\ Len(files') \in 1..Len(files')
        BY <4>1, <4>2
      <4> QED BY <3>1, <4>1, <4>3 DEF TypeOK
    <3> QED BY <1>7, <3>1 DEF TypeOK, Open
  <2> QED BY <1>7, <2>1 DEF TypeOK, Open
<1>8. ASSUME NEW t \in Thread, Store(t) PROVE TypeOK'
  BY <1>8 DEF TypeOK, Store
<1>9. ASSUME NEW t \in Thread, Check(t) PROVE TypeOK'
  BY <1>9 DEF TypeOK, Check
<1>10. ASSUME NEW t \in Thread, Write(t) PROVE TypeOK'
  <2>1. files' \in Seq(Seq(Piece)) /\ Len(files') = Len(files)
    <3>1. msg[t] \in Msg
      BY <1>10 DEF Write, HasMessage, Inside
    <3>2. \A n \in 1..Length[msg[t]] : [msg |-> msg[t], size |-> n] \in Piece
      BY <3>1, LoggingAssumption DEF Piece
    <3>3. CASE UNCHANGED files
      BY <3>3 DEF TypeOK
    <3>4. ASSUME NEW d \in Read(t), NEW n \in 1..Length[msg[t]], IsOpen(d), open[d] # 0,
                 files' = [files EXCEPT ![open[d]] = Append(@, [msg |-> msg[t], size |-> n])]
          PROVE  files' \in Seq(Seq(Piece)) /\ Len(files') = Len(files)
      <4>1. open[d] \in 1..Len(files)
        BY <3>4, ReadsDescriptor DEF IsOpen, TypeOK
      <4> QED BY <3>2, <3>4, <4>1, OnePieceMore
    <3> QED BY <1>10, <3>3, <3>4 DEF Write
  <2>2. failed' \in [Thread -> BOOLEAN]
    <3>1. \E b \in BOOLEAN : failed' = [failed EXCEPT ![t] = b]
      <4>1. \A n : (n < Length[msg[t]]) \in BOOLEAN
        OBVIOUS
      <4> QED BY <1>10, <4>1, Zenon DEF Write
    <3> QED BY <3>1 DEF TypeOK
  <2>3. pc' \in [Thread -> {"idle", "lock", "agent", "stat", "rotate", "open", "store",
                             "check", "write", "unlock", "closing", "closed"}]
    BY <1>10 DEF TypeOK, Write
  <2>4. UNCHANGED <<handler, fileSize, fileDesc, mutex, msg, reg, asked, raced, open, console>>
    BY <1>10 DEF Write
  <2> QED BY <2>1, <2>2, <2>3, <2>4 DEF TypeOK
<1>11. ASSUME NEW t \in Thread, Unlock(t) PROVE TypeOK'
  BY <1>11 DEF TypeOK, Unlock
<1>12. ASSUME NEW t \in Thread, file_log_close(t) PROVE TypeOK'
  BY <1>12 DEF TypeOK, file_log_close
<1>13. ASSUME NEW t \in Thread, CloseFile(t) PROVE TypeOK'
  <2>1. PICK d \in Read(t) : open' = Closed(d)
    BY <1>13 DEF CloseFile
  <2>2. open' \in [Fd -> {0, NULL} \cup 1..Len(files)]
    BY <2>1, ReadsDescriptor, ClosedType
  <2> QED BY <1>13, <2>2 DEF TypeOK, CloseFile
<1>14. ASSUME NEW t \in Thread, Invalidate(t) PROVE TypeOK'
  BY <1>14 DEF TypeOK, Invalidate
<1>15. ASSUME NEW d \in Fd, OtherCode(d) PROVE TypeOK'
  BY <1>15 DEF TypeOK, OtherCode
<1>16. CASE UNCHANGED vars
  BY <1>16 DEF TypeOK, vars
<1> QED BY <1>1, <1>2, <1>3, <1>4, <1>5, <1>6, <1>7, <1>8, <1>9, <1>10, <1>11, <1>12,
           <1>13, <1>14, <1>15, <1>16 DEF Next, Agent, Close

LEMMA MutexStep == ASSUME BaseInv, [Next]_vars PROVE MutualExclusion'
<1> USE LoggingAssumption DEF BaseInv, Go, threads, Inside
<1>1. ASSUME NEW t \in Thread, NEW m \in Msg, log_printf(t, m) PROVE MutualExclusion'
  BY <1>1 DEF TypeOK, log_printf, MutualExclusion
<1>2. ASSUME NEW t \in Thread, Lock(t) PROVE MutualExclusion'
  BY <1>2 DEF TypeOK, Lock, MutualExclusion
<1>3. ASSUME NEW t \in Thread, Agent(t) PROVE MutualExclusion'
  <2>1. CASE Unlock(t)
    BY <2>1 DEF TypeOK, Unlock, MutualExclusion
  <2>2. CASE ~Unlock(t)
    <3>1. mutex' = mutex /\ pc[t] \in Inside
      BY <1>3, <2>2 DEF Agent, default_log_agent, file_log_agent, Stat, Rotate, Open, Store, Check, Write
    <3>2. PICK place \in Inside : pc' = [pc EXCEPT ![t] = place]
      BY <1>3, <2>2 DEF Agent, default_log_agent, file_log_agent, Stat, Rotate, Open, Store, Check, Write
    <3>3. pc'[t] \in Inside /\ \A u \in Thread : u # t => pc'[u] = pc[u]
      BY <3>2 DEF TypeOK
    <3> QED BY <3>1, <3>3 DEF MutualExclusion
  <2> QED BY <2>1, <2>2
<1>4. ASSUME NEW t \in Thread, Close(t) PROVE MutualExclusion'
  BY <1>4 DEF TypeOK, Close, file_log_close, CloseFile, Invalidate, MutualExclusion
<1>5. ASSUME NEW d \in Fd, OtherCode(d) PROVE MutualExclusion'
  BY <1>5 DEF OtherCode, MutualExclusion
<1>6. CASE UNCHANGED vars
  BY <1>6 DEF vars, MutualExclusion
<1> QED BY <1>1, <1>2, <1>3, <1>4, <1>5, <1>6 DEF Next

LEMMA MessageStep == ASSUME BaseInv, [Next]_vars PROVE HasMessage'
<1> USE DEF BaseInv, Go, threads, Inside
<1>1. ASSUME NEW t \in Thread, NEW m \in Msg, log_printf(t, m) PROVE HasMessage'
  BY <1>1 DEF TypeOK, log_printf, HasMessage
<1>2. ASSUME NEW t \in Thread, Lock(t) PROVE HasMessage'
  BY <1>2 DEF TypeOK, Lock, HasMessage
<1>3. ASSUME NEW t \in Thread, Agent(t) PROVE HasMessage'
  <2>1. CASE Unlock(t)
    BY <2>1 DEF TypeOK, Unlock, HasMessage
  <2>2. CASE ~Unlock(t)
    <3>1. msg' = msg /\ pc[t] \in Inside
      BY <1>3, <2>2 DEF Agent, default_log_agent, file_log_agent, Stat, Rotate, Open, Store, Check, Write
    <3>2. \A u \in Thread : u # t => pc'[u] = pc[u]
      BY <1>3, <2>2 DEF TypeOK, Agent, default_log_agent, file_log_agent, Stat, Rotate, Open, Store, Check, Write
    <3> QED BY <3>1, <3>2 DEF TypeOK, HasMessage
  <2> QED BY <2>1, <2>2
<1>4. ASSUME NEW t \in Thread, Close(t) PROVE HasMessage'
  BY <1>4 DEF TypeOK, Close, file_log_close, CloseFile, Invalidate, HasMessage
<1>5. ASSUME NEW d \in Fd, OtherCode(d) PROVE HasMessage'
  BY <1>5 DEF OtherCode, HasMessage
<1>6. CASE UNCHANGED vars
  BY <1>6 DEF vars, HasMessage
<1> QED BY <1>1, <1>2, <1>3, <1>4, <1>5, <1>6 DEF Next

-----------------------------------------------------------------------------
(* Without a race: the threads that are not in a handler or in             *)
(* file_log_close wait for the mutex or do something else.                 *)
OthersWait(t) == \A u \in Thread : u # t => pc[u] \in {"idle", "lock"}

LEMMA Waiting ==
  ASSUME BaseInv, Alone, NEW t \in Thread, pc[t] \in Inside \/ Closing(t)
  PROVE  OthersWait(t) /\ (pc[t] \in Inside => \A u \in Thread : ~Closing(u))
<1>1. CASE pc[t] \in Inside
  <2>1. \A u \in Thread : u # t => pc[u] \notin Inside
    BY <1>1 DEF BaseInv, MutualExclusion
  <2>2. \A u \in Thread : ~Closing(u)
    BY <1>1 DEF Alone, Closing, Inside
  <2> QED BY <2>1, <2>2 DEF OthersWait, BaseInv, TypeOK, Inside, Closing
<1>2. CASE Closing(t)
  BY <1>2 DEF OthersWait, Alone, Closing, Inside
<1> QED BY <1>1, <1>2

(* Then the place of t alone says where the log file is.                   *)
LEMMA Alternatively ==
  ASSUME TypeOK, NEW t \in Thread, OthersWait(t), NEW place, Go(t, place),
         InRegisterOf(t)', NotLostBy(t)',
         place \notin {"open", "store", "closed"} => LogsAre(fileDesc)',
         Closing(t)' => \A u \in Thread : u # t => pc[u] = "idle"
  PROVE  OneFile' /\ NotLost'
<1>1. pc'[t] = place /\ \A u \in Thread : u # t => pc'[u] \in {"idle", "lock"}
  BY DEF TypeOK, Go, OthersWait
<1>2. InRegister'
  BY <1>1 DEF InRegister, InRegisterOf
<1>3. NotLost'
  BY <1>1 DEF NotLost, NotLostBy
<1>4. InFileDesc'
  BY <1>1 DEF InFileDesc
<1>5. Alone'
  BY <1>1 DEF Alone, Closing, TypeOK, Go
<1> QED BY <1>2, <1>3, <1>4, <1>5 DEF OneFile

LEMMA LogsUnmoved ==
  ASSUME UNCHANGED open, Len(files') = Len(files)
  PROVE  Logs' = Logs /\ \A d : LogsAre(d)' <=> LogsAre(d)
BY DEF Logs, LogsAre

LEMMA IsLogged ==
  ASSUME NEW d \in Fd \cup {NULL}, TypeOK, LogsAre(d), d # NULL
  PROVE  d \in Fd /\ d \in Logs /\ IsOpen(d) /\ open[d] = Len(files) /\ open[d] \in 1..Len(files)
BY LoggingAssumption DEF LogsAre, Logs, IsOpen, TypeOK

(* After the log file is closed there is none.                             *)
LEMMA CloseLeavesNone ==
  ASSUME TypeOK, fileDesc # NULL, LogsAre(fileDesc), open' = Closed(fileDesc), UNCHANGED files
  PROVE  Logs' = {}
<1>1. Logs = {fileDesc} /\ fileDesc \in Fd
  BY DEF LogsAre, TypeOK
<1>2. open' = [open EXCEPT ![fileDesc] = NULL] /\ NULL \notin 1..Len(files)
  BY LoggingAssumption DEF Closed
<1> QED BY <1>1, <1>2 DEF Logs, TypeOK

-----------------------------------------------------------------------------
LEMMA AgentQuiet ==
  ASSUME BaseInv, OneFile, NotLost, NEW t \in Thread, Agent(t)
  PROVE  OneFile' /\ NotLost'
<1>1. pc[t] \in Inside
  BY DEF Inside, Agent, default_log_agent, file_log_agent, Stat, Rotate, Open, Store,
         Check, Write, Unlock
<1>2. OthersWait(t) /\ \A u \in Thread : ~Closing(u)
  BY <1>1, Waiting DEF OneFile
<1>3. InRegisterOf(t) /\ NotLostBy(t) /\ TypeOK
  BY DEF OneFile, InRegister, NotLost, BaseInv
<1>4. pc[t] \notin {"open", "store"} => LogsAre(fileDesc)
  BY <1>1, <1>2 DEF OneFile, InFileDesc, OthersWait, Inside
<1>5. msg[t] \in Msg
  BY <1>1 DEF BaseInv, HasMessage
<1>6. SUFFICES \E place \in Inside \cup {"idle"} :
        /\ Go(t, place)
        /\ InRegisterOf(t)' /\ NotLostBy(t)'
        /\ place \notin {"open", "store", "closed"} => LogsAre(fileDesc)'
  <2>1. PICK place \in Inside \cup {"idle"} :
          /\ Go(t, place)
          /\ InRegisterOf(t)' /\ NotLostBy(t)'
          /\ place \notin {"open", "store", "closed"} => LogsAre(fileDesc)'
    BY <1>6
  <2>2. ~Closing(t)'
    BY <1>3, <2>1 DEF Closing, Go, TypeOK, Inside
  <2> QED BY <1>2, <1>3, <2>1, <2>2, Alternatively
<1> USE DEF Go, Inside
<1>7. CASE default_log_agent(t)
  <2>1. Len(console') \in 1..Len(console') /\ console'[Len(console')] = msg[t]
    BY <1>3, <1>5, <1>7 DEF default_log_agent, TypeOK
  <2>2. Stored(t)'
    BY <1>7, <2>1 DEF default_log_agent, Stored, ToSet
  <2>3. LogsAre(fileDesc)'
    BY <1>4, <1>7, LogsUnmoved DEF default_log_agent, LogsAre
  <2> QED BY <1>3, <1>7, <2>2, <2>3
          DEF default_log_agent, InRegisterOf, NotLostBy, TypeOK
<1>8. CASE file_log_agent(t)
  <2>1. LogsAre(fileDesc)' /\ Logs' = Logs
    BY <1>4, <1>8, LogsUnmoved DEF file_log_agent, LogsAre, system
  <2>2. fileDesc = NULL => Logs = {}
    BY <1>4, <1>8 DEF file_log_agent, LogsAre
  <2> QED BY <1>3, <1>8, <2>1, <2>2
          DEF file_log_agent, InRegisterOf, NotLostBy, TypeOK
<1>9. CASE Stat(t)
  <2>1. LogsAre(fileDesc)'
    BY <1>4, <1>9, LogsUnmoved DEF Stat, LogsAre, system
  <2>2. fileDesc # NULL /\ Read(t) = {fileDesc}
    BY <1>3, <1>9 DEF Stat, InRegisterOf, Read
  <2>3. IsOpen(fileDesc)
    BY <1>3, <1>4, <1>9, <2>2, IsLogged DEF Stat, TypeOK
  <2>4. PICK place \in {"rotate", "write", "unlock"} :
          pc' = [pc EXCEPT ![t] = place] /\ (place = "unlock" => failed'[t])
    BY <1>3, <1>9, <2>2, <2>3 DEF Stat, TypeOK
  <2>5. InRegisterOf(t)' /\ NotLostBy(t)'
    BY <1>3, <1>9, <2>2, <2>4 DEF Stat, InRegisterOf, NotLostBy, TypeOK
  <2> QED BY <2>1, <2>4, <2>5
<1>10. CASE Rotate(t)
  <2>1. fileDesc # NULL /\ open' = Closed(fileDesc)
    BY <1>3, <1>10 DEF Rotate, InRegisterOf, Read
  <2>2. Logs' = {}
    BY <1>3, <1>4, <1>10, <2>1, CloseLeavesNone DEF Rotate
  <2> QED BY <1>3, <1>10, <2>2 DEF Rotate, InRegisterOf, NotLostBy, TypeOK
<1>11. CASE Open(t)
  <2>1. Logs = {}
    BY <1>3, <1>11 DEF Open, InRegisterOf
  <2>2. LogsAre(reg[t])' /\ (reg'[t] = NULL => failed'[t])
    <3>1. ASSUME NEW d \in Fd, files' = WithNewFile, open' = [open EXCEPT ![d] = Len(files')],
                 reg' = [reg EXCEPT ![t] = d]
          PROVE  LogsAre(reg[t])' /\ reg'[t] # NULL
      <4>1. Len(files') = Len(files) + 1 /\ Len(files) \in Nat
        BY <1>3, <3>1 DEF WithNewFile, TypeOK
      <4>2. \A e \in Fd : open[e] \in {0, NULL}
        BY <1>3, <2>1 DEF Logs, TypeOK
      <4>3. Len(files') \in 1..Len(files') /\ 0 \notin 1..Len(files') /\ NULL \notin 1..Len(files')
        BY <4>1, LoggingAssumption
      <4>4. reg'[t] = d /\ open'[d] = Len(files') /\ \A e \in Fd : e # d => open'[e] = open[e]
        BY <1>3, <3>1 DEF TypeOK
      <4>5. d # NULL
        BY LoggingAssumption
      <4>6. Logs' = {d}
        BY <4>2, <4>3, <4>4 DEF Logs
      <4> QED BY <4>4, <4>5, <4>6 DEF LogsAre
    <3>2. ASSUME reg' = [reg EXCEPT ![t] = NULL], failed' = [failed EXCEPT ![t] = TRUE],
                 UNCHANGED <<files, open>>
          PROVE  LogsAre(reg[t])' /\ failed'[t]
      BY <1>3, <2>1, <3>2 DEF LogsAre, Logs, TypeOK
    <3> QED BY <1>11, <3>1, <3>2 DEF Open
  <2> QED BY <1>3, <1>11, <2>2 DEF Open, InRegisterOf, NotLostBy, TypeOK
<1>12. CASE Store(t)
  <2>1. LogsAre(reg[t]) /\ fileDesc' = reg[t]
    BY <1>3, <1>12 DEF Store, InRegisterOf
  <2>2. LogsAre(fileDesc)'
    BY <1>12, <2>1, LogsUnmoved DEF Store, LogsAre, system
  <2> QED BY <1>3, <1>12, <2>1, <2>2 DEF Store, InRegisterOf, NotLostBy, TypeOK
<1>13. CASE Check(t)
  <2>1. LogsAre(fileDesc)'
    BY <1>4, <1>13, LogsUnmoved DEF Check, LogsAre, system
  <2>2. Read(t) = {fileDesc} /\ reg[t] = fileDesc
    BY <1>3, <1>13 DEF Check, InRegisterOf, Read
  <2> QED BY <1>3, <1>13, <2>1, <2>2 DEF Check, InRegisterOf, NotLostBy, TypeOK
<1>14. CASE Write(t)
  <2>1. fileDesc # NULL /\ Read(t) = {fileDesc}
    BY <1>3, <1>14 DEF Write, InRegisterOf, Read
  <2>2. /\ fileDesc \in Fd /\ IsOpen(fileDesc)
        /\ open[fileDesc] \in 1..Len(files) /\ open[fileDesc] # 0
    BY <1>3, <1>4, <1>14, <2>1, IsLogged DEF Write, TypeOK
  <2>3. /\ Len(files') = Len(files)
        /\ failed'[t] \/ \E i \in 1..Len(files) :
             [msg |-> msg[t], size |-> Length[msg[t]]] \in ToSet(files'[i])
    <3>1. CASE failed' = [failed EXCEPT ![t] = TRUE] /\ UNCHANGED files
      BY <1>3, <3>1 DEF TypeOK
    <3>2. ASSUME NEW n \in 1..Length[msg[t]],
                 files' = [files EXCEPT ![open[fileDesc]] = Append(@, [msg |-> msg[t], size |-> n])],
                 failed' = [failed EXCEPT ![t] = n < Length[msg[t]]]
          PROVE  /\ Len(files') = Len(files)
                 /\ failed'[t] \/ \E i \in 1..Len(files) :
                      [msg |-> msg[t], size |-> Length[msg[t]]] \in ToSet(files'[i])
      <4> DEFINE piece == [msg |-> msg[t], size |-> n]
                 i == open[fileDesc]
      <4>1. piece \in Piece /\ Length[msg[t]] \in Nat
        BY <1>5, LoggingAssumption DEF Piece
      <4>2. Len(files') = Len(files) /\ files'[i] = Append(files[i], piece)
        BY <1>3, <2>2, <3>2, <4>1, OnePieceMore
      <4>3. piece \in ToSet(files'[i])
        <5>1. files[i] \in Seq(Piece)
          BY <1>3, <2>2 DEF TypeOK
        <5> HIDE DEF piece
        <5>2. Len(files'[i]) \in DOMAIN files'[i] /\ files'[i][Len(files'[i])] = piece
          BY <4>1, <4>2, <5>1
        <5> QED BY <5>2 DEF ToSet
      <4>4. CASE n < Length[msg[t]]
        BY <1>3, <3>2, <4>2, <4>4, Zenon DEF TypeOK
      <4>5. CASE n = Length[msg[t]]
        BY <2>2, <4>2, <4>3, <4>5, Zenon
      <4> QED BY <4>1, <4>4, <4>5
    <3> QED BY <1>14, <2>1, <2>2, <3>1, <3>2 DEF Write
  <2>4. LogsAre(fileDesc)'
    BY <1>4, <1>14, <2>3, LogsUnmoved DEF Write, LogsAre
  <2>5. pc' = [pc EXCEPT ![t] = "unlock"] /\ UNCHANGED <<msg, reg, fileDesc>>
    BY <1>14 DEF Write
  <2>6. failed'[t] \/ Stored(t)'
    BY <2>3, <2>5 DEF Stored
  <2> QED BY <1>3, <2>4, <2>5, <2>6 DEF InRegisterOf, NotLostBy, TypeOK
<1>15. CASE Unlock(t)
  <2>1. LogsAre(fileDesc)'
    BY <1>4, <1>15, LogsUnmoved DEF Unlock, LogsAre, system
  <2> QED BY <1>3, <1>15, <2>1 DEF Unlock, InRegisterOf, NotLostBy, TypeOK
<1> QED BY <1>7, <1>8, <1>9, <1>10, <1>11, <1>12, <1>13, <1>14, <1>15 DEF Agent

LEMMA CloseQuiet ==
  ASSUME BaseInv, OneFile, NotLost, ~raced', NEW t \in Thread, Close(t)
  PROVE  OneFile' /\ NotLost'
<1>1. TypeOK /\ InRegisterOf(t) /\ NotLostBy(t)
  BY DEF OneFile, InRegister, NotLost, BaseInv
<1> USE DEF Go, system
<1>2. CASE file_log_close(t)
  <2>1. \A u \in Thread : pc[u] = "idle"
    BY <1>2 DEF file_log_close
  <2>2. OthersWait(t) /\ LogsAre(fileDesc)
    BY <2>1 DEF OthersWait, OneFile, InFileDesc
  <2>3. Go(t, "closing") /\ LogsAre(fileDesc)'
    BY <1>2, <2>2, LogsUnmoved DEF file_log_close, LogsAre
  <2>4. InRegisterOf(t)' /\ NotLostBy(t)'
    BY <1>1, <1>2 DEF file_log_close, InRegisterOf, NotLostBy, TypeOK
  <2> QED BY <1>1, <2>1, <2>2, <2>3, <2>4, Alternatively
<1>3. CASE CloseFile(t)
  <2>1. Closing(t)
    BY <1>3 DEF CloseFile, Closing
  <2>2. OthersWait(t) /\ (\A u \in Thread : u # t => pc[u] = "idle") /\ LogsAre(fileDesc)
    BY <1>3, <2>1, Waiting DEF OneFile, Alone, InFileDesc, OthersWait, CloseFile
  <2>3. fileDesc # NULL /\ open' = Closed(fileDesc)
    BY <1>1, <1>3 DEF CloseFile, InRegisterOf, Read
  <2>4. Logs' = {}
    BY <1>1, <1>3, <2>2, <2>3, CloseLeavesNone DEF CloseFile
  <2>5. Go(t, "closed") /\ InRegisterOf(t)' /\ NotLostBy(t)'
    BY <1>1, <1>3, <2>4 DEF CloseFile, InRegisterOf, NotLostBy, TypeOK
  <2> QED BY <1>1, <2>2, <2>5, Alternatively
<1>4. CASE Invalidate(t)
  <2>1. Closing(t) /\ Logs = {}
    BY <1>1, <1>4 DEF Invalidate, Closing, InRegisterOf
  <2>2. OthersWait(t) /\ \A u \in Thread : u # t => pc[u] = "idle"
    BY <2>1, Waiting DEF OneFile, Alone
  <2>3. LogsAre(fileDesc)'
    BY <1>4, <2>1, LogsUnmoved DEF Invalidate, LogsAre
  <2>4. Go(t, "idle") /\ InRegisterOf(t)' /\ NotLostBy(t)'
    BY <1>1, <1>4 DEF Invalidate, InRegisterOf, NotLostBy, TypeOK
  <2> QED BY <1>1, <2>2, <2>3, <2>4, Alternatively
<1> QED BY <1>2, <1>3, <1>4 DEF Close

LEMMA BeginQuiet ==
  ASSUME BaseInv, OneFile, NotLost, NEW t \in Thread,
         Lock(t) \/ \E m \in Msg : log_printf(t, m) /\ ~raced'
  PROVE  OneFile' /\ NotLost'
<1>1. TypeOK /\ UNCHANGED <<fileDesc, reg, open, files, console>>
  BY DEF BaseInv, Lock, log_printf, system
<1>2. PICK place \in {"lock", "agent"} : pc' = [pc EXCEPT ![t] = place]
  BY DEF Lock, log_printf, Go
<1>3. /\ pc[t] \in {"idle", "lock"}
      /\ \A u \in Thread : u # t => msg'[u] = msg[u] /\ failed'[u] = failed[u]
  BY <1>1 DEF Lock, log_printf, TypeOK
<1>4. \A d : LogsAre(d)' <=> LogsAre(d)
  BY <1>1, LogsUnmoved
<1>5. Logs' = Logs
  BY <1>1, LogsUnmoved
<1>6. \A u \in Thread : ~Closing(u)
  BY DEF Lock, log_printf, OneFile, Alone, Closing
<1>7. Alone'
  BY <1>1, <1>2, <1>6 DEF Alone, Closing, TypeOK
<1>8. InFileDesc'
  BY <1>1, <1>2, <1>3, <1>4 DEF OneFile, InFileDesc, TypeOK, LogsAre
<1>9. InRegister' /\ NotLost'
  <2>1. ASSUME NEW u \in Thread PROVE InRegisterOf(u)' /\ NotLostBy(u)'
    <3>1. CASE u = t
      BY <1>1, <1>2, <3>1 DEF InRegisterOf, NotLostBy, TypeOK
    <3>2. CASE u # t
      <4>1. pc'[u] = pc[u] /\ msg'[u] = msg[u] /\ failed'[u] = failed[u]
        BY <1>1, <1>2, <1>3, <3>2 DEF TypeOK
      <4>2. Stored(u)' <=> Stored(u)
        BY <1>1, <4>1 DEF Stored
      <4>3. LogsAre(reg[u])' <=> LogsAre(reg[u])
        BY <1>1, <1>5 DEF LogsAre
      <4> QED BY <1>1, <1>5, <4>1, <4>2, <4>3
              DEF OneFile, InRegister, InRegisterOf, NotLost, NotLostBy
    <3> QED BY <3>1, <3>2
  <2> QED BY <2>1 DEF InRegister, NotLost
<1> QED BY <1>7, <1>8, <1>9 DEF OneFile

(* Other code has descriptors that are no log file's.                      *)
LEMMA OtherQuiet ==
  ASSUME BaseInv, OneFile, NotLost, NEW d \in Fd, OtherCode(d)
  PROVE  OneFile' /\ NotLost'
<1>1. /\ UNCHANGED <<fileDesc, pc, msg, reg, failed, files, console>>
      /\ TypeOK
  BY DEF OtherCode, BaseInv, threads
<1>2. 0 \notin 1..Len(files) /\ NULL \notin 1..Len(files)
  BY LoggingAssumption
<1>3. Logs' = Logs /\ d \notin Logs
  BY <1>1, <1>2 DEF OtherCode, Logs, TypeOK
<1>4. ASSUME NEW e, LogsAre(e) PROVE LogsAre(e)'
  <2>1. e # NULL => e \in Fd /\ e # d
    BY <1>3, <1>4 DEF LogsAre, Logs
  <2>2. e # NULL => open'[e] = open[e]
    BY <1>1, <2>1 DEF OtherCode, TypeOK
  <2> QED BY <1>1, <1>3, <1>4, <2>2 DEF LogsAre
<1>5. LogsAre(fileDesc) => LogsAre(fileDesc)'
  BY <1>1, <1>4 DEF LogsAre
<1>6. \A u \in Thread : LogsAre(reg[u]) => LogsAre(reg[u])'
  BY <1>1, <1>4 DEF LogsAre
<1>7. Alone' /\ InFileDesc' /\ InRegister'
  BY <1>1, <1>3, <1>5, <1>6
     DEF OneFile, Alone, Closing, InFileDesc, InRegister, InRegisterOf
<1>8. NotLost'
  BY <1>1 DEF NotLost, NotLostBy, Stored
<1> QED BY <1>7, <1>8 DEF OneFile

LEMMA LogStep == LogInv /\ [Next]_vars => LogInv'
<1> SUFFICES ASSUME LogInv, [Next]_vars PROVE LogInv'
  OBVIOUS
<1>1. BaseInv'
  BY TypeStep, MutexStep, MessageStep DEF LogInv, BaseInv
<1>2. ASSUME ~raced' PROVE OneFile' /\ NotLost'
  <2>1. raced \in BOOLEAN
    BY DEF LogInv, BaseInv, TypeOK
  <2>2. ~raced
    BY <1>2, <2>1 DEF Next, log_printf, Lock, Agent, default_log_agent, file_log_agent, Stat,
       Rotate, Open, Store, Check, Write, Unlock, Close, file_log_close, CloseFile, Invalidate,
       OtherCode, history, vars
  <2>3. BaseInv /\ OneFile /\ NotLost
    BY <2>2 DEF LogInv
  <2>4. CASE UNCHANGED vars
    BY <2>3, <2>4 DEF vars, threads, system, OneFile, Alone, Closing, InFileDesc, InRegister,
       InRegisterOf, NotLost, NotLostBy, Stored, LogsAre, Logs
  <2> QED BY <1>2, <2>3, <2>4, AgentQuiet, CloseQuiet, BeginQuiet, OtherQuiet DEF Next
<1> QED BY <1>1, <1>2 DEF LogInv

-----------------------------------------------------------------------------
(* LogInv holds at all times.                                              *)
THEOREM LogInductive == Spec => []LogInv
<1> QED BY InitLog, LogStep, PTL DEF Spec

(* The types, for any number of threads, messages and descriptors.         *)
THEOREM LogTypes == Spec => []TypeOK
<1>1. LogInv => TypeOK
  BY DEF LogInv, BaseInv
<1> QED BY <1>1, LogInductive, PTL

(* At most one thread is between the lock and the unlock of log_printf,    *)
(* races of file_log_close or not (uti_logging.c:199-208).                 *)
THEOREM OneThreadInHandler ==
  Spec => [](\A t, u \in Thread : pc[t] \in Inside /\ pc[u] \in Inside => t = u)
<1>1. LogInv => \A t, u \in Thread : pc[t] \in Inside /\ pc[u] \in Inside => t = u
  BY DEF LogInv, BaseInv, MutualExclusion
<1> QED BY <1>1, LogInductive, PTL

(* Without a race no descriptor of a log file is lost (uti_logging.c:280,  *)
(* :309-311, :335-336).                                                    *)
THEOREM NoDescriptorLost == Spec => []OneLogFile
<1>1. LogInv => OneLogFile
  <2> SUFFICES ASSUME LogInv, ~raced
               PROVE  /\ Cardinality(Logs) <= 1
                      /\ (\A t \in Thread : pc[t] \in {"idle", "lock"}) =>
                           /\ Logs = {fileDesc} \ {NULL}
                           /\ \A d \in Logs : open[d] = Len(files)
    BY DEF OneLogFile, Logs
  <2>1. OneFile /\ BaseInv
    BY DEF LogInv
  <2>2. \E d : Logs = {d} \ {NULL}
    <3>1. CASE \A t \in Thread : pc[t] \notin {"open", "store", "closed"}
      BY <2>1, <3>1 DEF OneFile, InFileDesc, LogsAre
    <3>2. CASE \E t \in Thread : pc[t] \in {"open", "store", "closed"}
      BY <2>1, <3>2 DEF OneFile, InRegister, InRegisterOf, LogsAre
    <3> QED BY <3>1, <3>2
  <2>3. Cardinality(Logs) <= 1
    <3>1. PICK d : Logs = {d} \ {NULL}
      BY <2>2
    <3>2. Logs = {} \/ Logs = {d}
      BY <3>1
    <3>3. Cardinality(Logs) \in {0, 1}
      BY <3>2, FS_EmptySet, FS_Singleton, Zenon
    <3> QED BY <3>3
  <2>4. ASSUME \A t \in Thread : pc[t] \in {"idle", "lock"}
        PROVE  Logs = {fileDesc} \ {NULL} /\ \A d \in Logs : open[d] = Len(files)
    BY <2>1, <2>4 DEF OneFile, InFileDesc, LogsAre
  <2> QED BY <2>3, <2>4
<1> QED BY <1>1, LogInductive, PTL

(* Without a race a message, or the end of it, is lost only when the       *)
(* system refuses it (uti_logging.c:201-208, :287, :319).                  *)
THEOREM NoMessageLost == Spec => []NoSilentLoss
<1>1. LogInv => NoSilentLoss
  BY DEF LogInv, NotLost, NotLostBy, NoSilentLoss, Stored
<1> QED BY <1>1, LogInductive, PTL

-----------------------------------------------------------------------------
(* The size of the newest file is a number, and 0 while it has no message. *)

(* Taking elements out of a finite set one after another ends.             *)
LEMMA RemovalEnds ==
  ASSUME NEW D, IsFiniteSet(D), NEW nx \in [SUBSET D -> SUBSET D],
         \A s \in SUBSET D : s # {} => nx[s] \subseteq s /\ nx[s] # s
  PROVE  WalksEnd(SUBSET D, {{}}, nx)
<1> SUFFICES ASSUME NEW T \in SUBSET (SUBSET D), T # {}
             PROVE  \E x \in T : x \in {{}} \/ nx[x] \notin T
  BY DEF WalksEnd
<1>1. PICK A \in T : \A B \in T : B \subseteq A => B = A
  BY MinimalSet
<1> QED BY <1>1

(* The size of a file is computed piece by piece.                          *)
LEMMA SizeIs ==
  ASSUME NEW c \in Seq(Piece)
  PROVE  SizeOf(c) \in Nat /\ (DOMAIN c = {} => SizeOf(c) = 0)
<1> DEFINE D == DOMAIN c
           iter[s \in SUBSET D] ==
             IF s = {} THEN 0
             ELSE LET x == CHOOSE x \in s : TRUE IN c[x].size + iter[s \ {x}]
           pick(s) == CHOOSE x \in s : TRUE
           stop == {{}}
           val == [s \in SUBSET D |-> 0]
           nx == [s \in SUBSET D |-> s \ {pick(s)}]
           op == [s \in SUBSET D |-> [y \in Nat |-> IF s = {} THEN 0 ELSE c[pick(s)].size + y]]
<1>1. SizeOf(c) = iter[D]
  BY DEF SizeOf, FoldSeq, FoldFunction, FoldFunctionOnSet, MapThenFoldSet
<1>2. IsFiniteSet(D)
  BY FS_Interval, LenProperties
<1>3. nx \in [SUBSET D -> SUBSET D] /\ \A s \in SUBSET D : s # {} => nx[s] \subseteq s /\ nx[s] # s
  OBVIOUS
<1>4. op \in [SUBSET D -> [Nat -> Nat]]
  <2>1. ASSUME NEW s \in SUBSET D, s # {} PROVE c[pick(s)].size \in Nat
    <3>1. pick(s) \in D
      BY <2>1
    <3>2. c[pick(s)] \in Piece
      <4> HIDE DEF pick
      <4> QED BY <3>1
    <3> QED BY <3>2 DEF Piece
  <2>2. ASSUME NEW s \in SUBSET D, NEW y \in Nat
        PROVE  (IF s = {} THEN 0 ELSE c[pick(s)].size + y) \in Nat
    <3> HIDE DEF pick, D
    <3> QED BY <2>1
  <2> HIDE DEF pick, D
  <2> QED BY <2>2
<1>5. WalksEnd(SUBSET D, stop, nx)
  BY <1>2, <1>3, RemovalEnds
<1>6. val \in [SUBSET D -> Nat] /\ stop \in SUBSET (SUBSET D)
  OBVIOUS
<1>7. \E f \in [SUBSET D -> Nat] : IsFold(f, SUBSET D, stop, val, nx, op)
  <2> HIDE DEF D, stop, val, nx, op
  <2> QED BY <1>3, <1>4, <1>5, <1>6, FoldExists
<1>8. \A f : IsFold(f, SUBSET D, stop, val, nx, op) /\ f \in [SUBSET D -> Nat] =>
        f = [s \in SUBSET D |-> IF s = {} THEN 0 ELSE c[pick(s)].size + f[s \ {pick(s)}]]
  <2> SUFFICES ASSUME NEW f, IsFold(f, SUBSET D, stop, val, nx, op), f \in [SUBSET D -> Nat]
               PROVE  f = [s \in SUBSET D |-> IF s = {} THEN 0 ELSE c[pick(s)].size + f[s \ {pick(s)}]]
    OBVIOUS
  <2>1. f = [s \in SUBSET D |-> IF s \in stop THEN val[s] ELSE op[s][f[nx[s]]]]
    BY DEF IsFold
  <2>2. ASSUME NEW s \in SUBSET D
        PROVE  (IF s \in stop THEN val[s] ELSE op[s][f[nx[s]]])
                 = IF s = {} THEN 0 ELSE c[pick(s)].size + f[s \ {pick(s)}]
    <3> HIDE DEF pick, D
    <3> QED BY <1>3
  <2> HIDE DEF pick, D, stop, val, nx, op
  <2> QED BY <2>1, <2>2
<1>9. \E f : f = [s \in SUBSET D |-> IF s = {} THEN 0 ELSE c[pick(s)].size + f[s \ {pick(s)}]]
  <2> HIDE DEF pick, D, stop, val, nx, op
  <2> QED BY <1>7, <1>8
<1>10. \A s \in SUBSET D : iter[s] = IF s = {} THEN 0 ELSE c[pick(s)].size + iter[s \ {pick(s)}]
  <2>1. iter = [s \in SUBSET D |-> IF s = {} THEN 0 ELSE c[pick(s)].size + iter[s \ {pick(s)}]]
    <3> HIDE DEF D
    <3> QED BY <1>9
  <2> HIDE DEF pick, D, iter
  <2> QED BY <2>1
<1> HIDE DEF iter
<1>11. ASSUME NEW s \in SUBSET D, s # {} PROVE pick(s) \in s /\ c[pick(s)].size \in Nat
  <2>1. pick(s) \in s
    BY <1>11
  <2>2. c[pick(s)] \in Piece
    <3> HIDE DEF pick
    <3> QED BY <2>1
  <2> QED BY <2>1, <2>2 DEF Piece
<1> DEFINE T == {s \in SUBSET D : iter[s] \notin Nat}
<1>12. T = {}
  <2> SUFFICES ASSUME T # {} PROVE FALSE
    OBVIOUS
  <2>1. PICK s \in T : \A r \in T : r \subseteq s => r = s
    <3>1. T \subseteq SUBSET D
      OBVIOUS
    <3> HIDE DEF T, D
    <3> QED BY <1>2, <3>1, MinimalSet
  <2>2. s \in SUBSET D /\ iter[s] \notin Nat
    OBVIOUS
  <2> HIDE DEF pick, D
  <2>3. s # {}
    <3>1. iter[{}] = 0
      <4>1. {} \in SUBSET D
        OBVIOUS
      <4> HIDE DEF T
      <4> QED BY <1>10, <4>1
    <3>2. 0 \in Nat
      OBVIOUS
    <3> HIDE DEF T
    <3> QED BY <2>2, <3>1, <3>2, Zenon
  <2>4. s \ {pick(s)} \notin T /\ s \ {pick(s)} \in SUBSET D
    BY <1>11, <2>1, <2>2, <2>3
  <2>5. iter[s \ {pick(s)}] \in Nat
    BY <2>4
  <2> QED BY <1>10, <1>11, <2>2, <2>3, <2>5
<1>13. iter[D] \in Nat
  BY <1>12
<1>14. D = {} => iter[D] = 0
  <2>1. D \in SUBSET D
    OBVIOUS
  <2> HIDE DEF pick, D
  <2> QED BY <1>10, <2>1
<1> QED BY <1>1, <1>13, <1>14

-----------------------------------------------------------------------------
(* Where a message may be written, races or not.                           *)

(* If d is open on a log file, it is the newest one; and it has room.      *)
Newest(d) == d \in Fd /\ open[d] \in 1..Len(files) => open[d] = Len(files)

HasRoom(d) == d \in Fd /\ open[d] \in 1..Len(files) => SizeOf(files[open[d]]) < fileSize

(* Behind the lock fileDesc only goes away.                                *)
WritesOf(t) ==
  /\ pc[t] \in {"stat", "rotate", "check", "write"} => fileDesc \in {NULL, reg[t]}
  /\ pc[t] \in {"stat", "store", "check", "write"} => Newest(reg[t])
  /\ pc[t] \in {"store", "check", "write"} => HasRoom(reg[t])

WriteInv ==
  /\ \A t \in Thread : WritesOf(t)
  /\ (\A t \in Thread : pc[t] # "store") => Newest(fileDesc)

LEMMA InitRoom == Init => WriteInv /\ FilesBounded
<1> SUFFICES ASSUME Init PROVE WriteInv /\ FilesBounded
  OBVIOUS
<1>1. \A t \in Thread : WritesOf(t)
  BY DEF Init, WritesOf
<1>2. Newest(fileDesc)
  BY LoggingAssumption DEF Init, Newest
<1>3. FilesBounded
  BY DEF Init, FilesBounded
<1> QED BY <1>1, <1>2, <1>3 DEF WriteInv

(* A step that adds no file and no place in one to write to.               *)
OpensNone ==
  /\ UNCHANGED <<files, fileSize>>
  /\ \A d \in Fd : open'[d] = open[d] \/ open'[d] \in {0, NULL}

LEMMA OpensNoneKeeps ==
  ASSUME TypeOK, OpensNone
  PROVE  /\ \A d : Newest(d) => (d \in Fd /\ open'[d] \in 1..Len(files') => open'[d] = Len(files'))
         /\ \A d : HasRoom(d) => (d \in Fd /\ open'[d] \in 1..Len(files') => SizeOf(files'[open'[d]]) < fileSize')
<1>1. 0 \notin 1..Len(files) /\ NULL \notin 1..Len(files)
  BY LoggingAssumption
<1> QED BY <1>1 DEF OpensNone, Newest, HasRoom

LEMMA Stays ==
  ASSUME TypeOK, WriteInv, FilesBounded, OpensNone, fileDesc' \in {fileDesc, NULL},
         \/ UNCHANGED <<pc, reg>>
         \/ \E t \in Thread :
              /\ \A u \in Thread : u # t => pc'[u] = pc[u] /\ reg'[u] = reg[u]
              /\ pc[t] # "store" /\ WritesOf(t)'
  PROVE  WriteInv' /\ FilesBounded'
<1>1. \A d \in Fd : /\ Newest(d) => (open'[d] \in 1..Len(files') => open'[d] = Len(files'))
                    /\ HasRoom(d) => (open'[d] \in 1..Len(files') => SizeOf(files'[open'[d]]) < fileSize')
  BY OpensNoneKeeps
<1>2. ASSUME NEW u \in Thread, pc'[u] = pc[u], reg'[u] = reg[u] PROVE WritesOf(u)'
  <2>1. /\ Newest(reg[u]) => Newest(reg[u])'
        /\ HasRoom(reg[u]) => HasRoom(reg[u])'
    BY <1>1, <1>2 DEF Newest, HasRoom
  <2>2. WritesOf(u)
    BY DEF WriteInv
  <2> QED BY <1>2, <2>1, <2>2 DEF WritesOf
<1>3. \A u \in Thread : WritesOf(u)'
  BY <1>2
<1>4. (\A u \in Thread : pc'[u] # "store") => \A u \in Thread : pc[u] # "store"
  OBVIOUS
<1>5. (\A u \in Thread : pc'[u] # "store") => Newest(fileDesc)'
  <2>1. SUFFICES ASSUME \A u \in Thread : pc'[u] # "store" PROVE Newest(fileDesc)'
    OBVIOUS
  <2>2. Newest(fileDesc)
    BY <1>4, <2>1 DEF WriteInv
  <2>3. NULL \notin Fd
    BY LoggingAssumption
  <2> QED BY <1>1, <2>2, <2>3 DEF Newest
<1>6. FilesBounded'
  BY DEF FilesBounded, OpensNone
<1> QED BY <1>3, <1>5, <1>6 DEF WriteInv

LEMMA ClosedNone ==
  ASSUME TypeOK, NEW d \in Fd \cup {NULL}, open' = Closed(d), UNCHANGED <<files, fileSize>>
  PROVE  OpensNone
BY DEF Closed, OpensNone, TypeOK

LEMMA RoomStep ==
  ASSUME BaseInv, WriteInv, FilesBounded, [Next]_vars
  PROVE  WriteInv' /\ FilesBounded'
<1> USE DEF Go, trace, threads, history, system
<1>0. TypeOK
  BY DEF BaseInv
<1>1. ASSUME NEW t \in Thread, NEW m \in Msg, log_printf(t, m) PROVE WriteInv' /\ FilesBounded'
  <2>1. OpensNone /\ fileDesc' = fileDesc
    BY <1>1 DEF log_printf, OpensNone
  <2>2. /\ \A u \in Thread : u # t => pc'[u] = pc[u] /\ reg'[u] = reg[u]
        /\ pc[t] # "store" /\ WritesOf(t)'
    BY <1>0, <1>1 DEF log_printf, TypeOK, WritesOf
  <2> QED BY <1>0, <2>1, <2>2, Stays
<1>2. ASSUME NEW t \in Thread, Lock(t) \/ Unlock(t) PROVE WriteInv' /\ FilesBounded'
  <2>1. OpensNone /\ fileDesc' = fileDesc
    BY <1>2 DEF Lock, Unlock, OpensNone
  <2>2. /\ \A u \in Thread : u # t => pc'[u] = pc[u] /\ reg'[u] = reg[u]
        /\ pc[t] # "store" /\ WritesOf(t)'
    BY <1>0, <1>2 DEF Lock, Unlock, TypeOK, WritesOf
  <2> QED BY <1>0, <2>1, <2>2, Stays
<1>3. ASSUME NEW t \in Thread, default_log_agent(t) PROVE WriteInv' /\ FilesBounded'
  <2>1. OpensNone /\ fileDesc' = fileDesc
    BY <1>3 DEF default_log_agent, OpensNone
  <2>2. /\ \A u \in Thread : u # t => pc'[u] = pc[u] /\ reg'[u] = reg[u]
        /\ pc[t] # "store" /\ WritesOf(t)'
    BY <1>0, <1>3 DEF default_log_agent, TypeOK, WritesOf
  <2> QED BY <1>0, <2>1, <2>2, Stays
<1>4. ASSUME NEW t \in Thread, file_log_agent(t) PROVE WriteInv' /\ FilesBounded'
  <2>1. OpensNone /\ fileDesc' = fileDesc
    BY <1>4 DEF file_log_agent, OpensNone
  <2>2. pc[t] # "store" /\ \A u \in Thread : u # t => pc'[u] = pc[u] /\ reg'[u] = reg[u]
    BY <1>0, <1>4 DEF file_log_agent, TypeOK
  <2>3. \A u \in Thread : pc[u] # "store"
    BY <1>4 DEF file_log_agent, BaseInv, MutualExclusion, Inside
  <2>4. Newest(fileDesc) /\ reg'[t] = fileDesc
    BY <1>0, <1>4, <2>3 DEF WriteInv, file_log_agent, TypeOK
  <2>5. Newest(reg[t])' /\ pc'[t] \in {"open", "stat"}
    BY <1>0, <1>4, <2>1, <2>4 DEF file_log_agent, TypeOK, Newest
  <2>6. WritesOf(t)'
    BY <2>1, <2>4, <2>5 DEF WritesOf
  <2> QED BY <1>0, <2>1, <2>2, <2>6, Stays
<1>5. ASSUME NEW t \in Thread, Stat(t) PROVE WriteInv' /\ FilesBounded'
  <2>1. OpensNone /\ fileDesc' = fileDesc
    BY <1>5 DEF Stat, OpensNone
  <2>2. pc[t] # "store" /\ \A u \in Thread : u # t => pc'[u] = pc[u] /\ reg'[u] = reg[u]
    BY <1>0, <1>5 DEF Stat, TypeOK
  <2>3. fileDesc \in {NULL, reg[t]} /\ Newest(reg[t]) /\ reg'[t] = fileDesc
    BY <1>0, <1>5 DEF WriteInv, WritesOf, Stat, TypeOK
  <2>4. Newest(reg[t])'
    BY <1>5, <2>1, <2>3, LoggingAssumption DEF Stat, Newest
  <2>5. pc'[t] \in {"rotate", "unlock", "write"} /\ (pc'[t] = "write" => HasRoom(reg[t])')
    <3>1. ASSUME NEW d \in Read(t), IsOpen(d), NEW full \in BOOLEAN,
                 open[d] # 0 => full = Full(open[d]),
                 pc' = [pc EXCEPT ![t] = IF full THEN "rotate" ELSE "write"]
          PROVE  pc'[t] \in {"rotate", "write"} /\ (pc'[t] = "write" => HasRoom(reg[t])')
      <4>1. pc'[t] = IF full THEN "rotate" ELSE "write"
        BY <1>0, <3>1 DEF TypeOK
      <4>2. ASSUME ~full, reg'[t] \in Fd, open'[reg'[t]] \in 1..Len(files')
            PROVE  SizeOf(files'[open'[reg'[t]]]) < fileSize'
        <5>1. reg'[t] = d /\ open' = open /\ files' = files /\ fileSize' = fileSize
          BY <1>5, <2>3, <3>1, <4>2, LoggingAssumption DEF Read, IsOpen, Stat
        <5>2. open[d] \in 1..Len(files) /\ open[d] # 0
          BY <4>2, <5>1
        <5>3. ~(SizeOf(files[open[d]]) >= fileSize)
          BY <3>1, <4>2, <5>2 DEF Full
        <5>4. SizeOf(files[open[d]]) \in Nat /\ fileSize \in Nat
          <6>1. files[open[d]] \in Seq(Piece) /\ fileSize \in Nat
            BY <1>0, <5>2, LoggingAssumption DEF TypeOK
          <6> QED BY <6>1, SizeIs
        <5> QED BY <5>1, <5>3, <5>4
      <4> QED BY <4>1, <4>2 DEF HasRoom
    <3>2. CASE \E d \in Read(t) :
                 /\ IsOpen(d)
                 /\ \E full \in BOOLEAN :
                      /\ open[d] # 0 => full = Full(open[d])
                      /\ pc' = [pc EXCEPT ![t] = IF full THEN "rotate" ELSE "write"]
      BY <3>1, <3>2
    <3>3. CASE pc' = [pc EXCEPT ![t] = "unlock"]
      BY <1>0, <3>3 DEF TypeOK
    <3> QED BY <1>5, <3>2, <3>3 DEF Stat
  <2>6. WritesOf(t)'
    BY <2>1, <2>3, <2>4, <2>5 DEF WritesOf
  <2> QED BY <1>0, <2>1, <2>2, <2>6, Stays
<1>6. ASSUME NEW t \in Thread, Rotate(t) PROVE WriteInv' /\ FilesBounded'
  <2>1. PICK d \in Read(t) : open' = Closed(d)
    BY <1>6 DEF Rotate
  <2>2. OpensNone /\ fileDesc' = fileDesc
    BY <1>0, <1>6, <2>1, ReadsDescriptor, ClosedNone DEF Rotate
  <2>3. /\ \A u \in Thread : u # t => pc'[u] = pc[u] /\ reg'[u] = reg[u]
        /\ pc[t] # "store" /\ WritesOf(t)'
    BY <1>0, <1>6 DEF Rotate, TypeOK, WritesOf
  <2> QED BY <1>0, <2>2, <2>3, Stays
<1>7. ASSUME NEW t \in Thread, Open(t) PROVE WriteInv' /\ FilesBounded'
  <2>1. /\ pc[t] = "open" /\ pc'[t] = "store" /\ fileSize' = fileSize
        /\ \A u \in Thread : u # t => pc'[u] = pc[u]
    BY <1>0, <1>7 DEF Open, TypeOK
  <2>2. \A u \in Thread : u # t => pc'[u] \notin Inside
    BY <2>1 DEF BaseInv, MutualExclusion, Inside
  <2>3. Newest(reg[t])' /\ HasRoom(reg[t])' /\ FilesBounded'
    <3>1. CASE reg' = [reg EXCEPT ![t] = NULL] /\ UNCHANGED <<files, open>>
      <4>1. reg'[t] \notin Fd
        BY <1>0, <3>1, LoggingAssumption DEF TypeOK
      <4> QED BY <2>1, <3>1, <4>1 DEF Newest, HasRoom, FilesBounded
    <3>2. ASSUME NEW d \in Fd, files' = WithNewFile, open' = [open EXCEPT ![d] = Len(files')],
                 reg' = [reg EXCEPT ![t] = d]
          PROVE  Newest(reg[t])' /\ HasRoom(reg[t])' /\ FilesBounded'
      <4>1. /\ reg'[t] = d /\ open'[d] = Len(files') /\ Len(files) \in Nat
            /\ Len(files') = Len(files) + 1 /\ files'[Len(files')] = <<>>
            /\ \A i \in 1..Len(files) : files'[i] = files[i]
        BY <1>0, <3>2 DEF WithNewFile, TypeOK
      <4>2. SizeOf(<<>>) = 0 /\ fileSize \in Nat /\ fileSize > 0
        <5>1. <<>> \in Seq(Piece) /\ DOMAIN <<>> = {}
          OBVIOUS
        <5>2. SizeOf(<<>>) = 0
          BY <5>1, SizeIs
        <5> QED BY <1>0, <5>2, LoggingAssumption DEF TypeOK
      <4>3. Newest(reg[t])' /\ HasRoom(reg[t])'
        BY <2>1, <4>1, <4>2 DEF Newest, HasRoom
      <4>4. ASSUME NEW i \in 1..Len(files'), files'[i] # <<>>
            PROVE  SizeOf(Front(files'[i])) < fileSize'
        <5>1. i \in 1..Len(files) /\ files'[i] = files[i]
          BY <4>1, <4>4
        <5> QED BY <2>1, <4>4, <5>1 DEF FilesBounded
      <4> QED BY <4>3, <4>4 DEF FilesBounded
    <3> QED BY <1>7, <3>1, <3>2 DEF Open
  <2>4. WritesOf(t)' /\ \A u \in Thread : u # t => WritesOf(u)'
    BY <2>1, <2>2, <2>3 DEF WritesOf, Inside
  <2> QED BY <2>1, <2>3, <2>4 DEF WriteInv
<1>8. ASSUME NEW t \in Thread, Store(t) PROVE WriteInv' /\ FilesBounded'
  <2>1. /\ pc[t] = "store" /\ pc'[t] = "check" /\ fileDesc' = reg[t]
        /\ UNCHANGED <<reg, fileSize, open, files>>
        /\ \A u \in Thread : u # t => pc'[u] = pc[u]
    BY <1>0, <1>8 DEF Store, TypeOK
  <2>2. \A u \in Thread : u # t => pc'[u] \notin Inside
    BY <2>1 DEF BaseInv, MutualExclusion, Inside
  <2>3. Newest(reg[t]) /\ HasRoom(reg[t])
    BY <2>1 DEF WriteInv, WritesOf
  <2>4. Newest(reg[t])' /\ HasRoom(reg[t])' /\ Newest(fileDesc)'
    BY <2>1, <2>3 DEF Newest, HasRoom
  <2>5. WritesOf(t)' /\ \A u \in Thread : u # t => WritesOf(u)'
    BY <2>1, <2>2, <2>4 DEF WritesOf, Inside
  <2>6. FilesBounded'
    BY <2>1 DEF FilesBounded
  <2> QED BY <2>4, <2>5, <2>6 DEF WriteInv
<1>9. ASSUME NEW t \in Thread, Check(t) PROVE WriteInv' /\ FilesBounded'
  <2>1. OpensNone /\ fileDesc' = fileDesc /\ UNCHANGED <<reg, open, files, fileSize>>
    BY <1>9 DEF Check, OpensNone
  <2>2. /\ pc[t] = "check" /\ pc'[t] \in {"unlock", "write"}
        /\ \A u \in Thread : u # t => pc'[u] = pc[u] /\ reg'[u] = reg[u]
    BY <1>0, <1>9 DEF Check, TypeOK
  <2>3. fileDesc \in {NULL, reg[t]} /\ Newest(reg[t]) /\ HasRoom(reg[t])
    BY <2>2 DEF WriteInv, WritesOf
  <2>4. WritesOf(t)'
    BY <2>1, <2>2, <2>3 DEF WritesOf, Newest, HasRoom
  <2> QED BY <1>0, <2>1, <2>2, <2>4, Stays
<1>10. ASSUME NEW t \in Thread, Write(t) PROVE WriteInv' /\ FilesBounded'
  <2>1. /\ pc[t] = "write" /\ pc'[t] = "unlock"
        /\ UNCHANGED <<reg, fileSize, open, fileDesc>>
        /\ \A u \in Thread : u # t => pc'[u] = pc[u]
    BY <1>0, <1>10 DEF Write, TypeOK
  <2>2. \A u \in Thread : pc'[u] \in Inside => u = t
    BY <2>1 DEF BaseInv, MutualExclusion, Inside
  <2>3. fileDesc \in {NULL, reg[t]} /\ HasRoom(reg[t]) /\ Newest(fileDesc)
    <3>1. \A u \in Thread : pc[u] # "store"
      BY <2>1 DEF BaseInv, MutualExclusion, Inside
    <3> QED BY <2>1, <3>1 DEF WriteInv, WritesOf
  <2>4. Len(files') = Len(files) /\ FilesBounded'
    <3>1. CASE UNCHANGED files
      BY <2>1, <3>1 DEF FilesBounded
    <3>2. ASSUME NEW d \in Read(t), NEW n \in 1..Length[msg[t]], IsOpen(d), open[d] # 0,
                 files' = [files EXCEPT ![open[d]] = Append(@, [msg |-> msg[t], size |-> n])]
          PROVE  Len(files') = Len(files) /\ FilesBounded'
      <4> DEFINE piece == [msg |-> msg[t], size |-> n]
      <4>1. piece \in Piece
        BY <2>1, LoggingAssumption DEF Piece, BaseInv, HasMessage, Inside
      <4>2. d \in Fd /\ open[d] \in 1..Len(files) /\ d = reg[t]
        BY <1>0, <2>3, <3>2, ReadsDescriptor DEF IsOpen, TypeOK, Read
      <4>3. SizeOf(files[open[d]]) < fileSize
        BY <2>3, <4>2 DEF HasRoom
      <4>4. Len(files') = Len(files) /\ files'[open[d]] = Append(files[open[d]], piece)
        BY <1>0, <3>2, <4>1, <4>2, OnePieceMore
      <4>5. \A i \in 1..Len(files) : i # open[d] => files'[i] = files[i]
        BY <1>0, <3>2 DEF TypeOK
      <4>6. Front(files'[open[d]]) = files[open[d]]
        <5>1. files[open[d]] \in Seq(Piece)
          BY <1>0, <4>2 DEF TypeOK
        <5> HIDE DEF piece
        <5> QED BY <4>1, <4>4, <5>1 DEF Front
      <4>7. ASSUME NEW i \in 1..Len(files'), files'[i] # <<>>
            PROVE  SizeOf(Front(files'[i])) < fileSize'
        <5>1. CASE i = open[d]
          BY <2>1, <4>3, <4>6, <5>1
        <5>2. CASE i # open[d]
          BY <2>1, <4>4, <4>5, <4>7, <5>2 DEF FilesBounded
        <5> QED BY <5>1, <5>2
      <4> QED BY <4>4, <4>7 DEF FilesBounded
    <3> QED BY <1>10, <3>1, <3>2 DEF Write
  <2>5. Newest(fileDesc)'
    BY <2>1, <2>3, <2>4 DEF Newest
  <2>6. \A u \in Thread : WritesOf(u)'
    BY <2>1, <2>2 DEF WritesOf, Inside
  <2> QED BY <2>4, <2>5, <2>6 DEF WriteInv
<1>11. ASSUME NEW t \in Thread, file_log_close(t) PROVE WriteInv' /\ FilesBounded'
  <2>1. OpensNone /\ fileDesc' = fileDesc
    BY <1>11 DEF file_log_close, OpensNone
  <2>2. /\ \A u \in Thread : u # t => pc'[u] = pc[u] /\ reg'[u] = reg[u]
        /\ pc[t] # "store" /\ WritesOf(t)'
    BY <1>0, <1>11 DEF file_log_close, TypeOK, WritesOf
  <2> QED BY <1>0, <2>1, <2>2, Stays
<1>12. ASSUME NEW t \in Thread, CloseFile(t) PROVE WriteInv' /\ FilesBounded'
  <2>1. PICK d \in Read(t) : open' = Closed(d)
    BY <1>12 DEF CloseFile
  <2>2. OpensNone /\ fileDesc' = fileDesc
    BY <1>0, <1>12, <2>1, ReadsDescriptor, ClosedNone DEF CloseFile
  <2>3. /\ \A u \in Thread : u # t => pc'[u] = pc[u] /\ reg'[u] = reg[u]
        /\ pc[t] # "store" /\ WritesOf(t)'
    BY <1>0, <1>12 DEF CloseFile, TypeOK, WritesOf
  <2> QED BY <1>0, <2>2, <2>3, Stays
<1>13. ASSUME NEW t \in Thread, Invalidate(t) PROVE WriteInv' /\ FilesBounded'
  <2>1. OpensNone /\ fileDesc' = NULL
    BY <1>13 DEF Invalidate, OpensNone
  <2>2. /\ \A u \in Thread : u # t => pc'[u] = pc[u] /\ reg'[u] = reg[u]
        /\ pc[t] # "store" /\ WritesOf(t)'
    BY <1>0, <1>13 DEF Invalidate, TypeOK, WritesOf
  <2> QED BY <1>0, <2>1, <2>2, Stays
<1>14. ASSUME NEW d \in Fd, OtherCode(d) PROVE WriteInv' /\ FilesBounded'
  <2>1. OpensNone /\ fileDesc' = fileDesc /\ UNCHANGED <<pc, reg>>
    BY <1>0, <1>14 DEF OtherCode, OpensNone, TypeOK
  <2> QED BY <1>0, <2>1, Stays
<1>15. CASE UNCHANGED vars
  <2>1. OpensNone /\ fileDesc' = fileDesc /\ UNCHANGED <<pc, reg>>
    BY <1>15 DEF vars, OpensNone
  <2> QED BY <1>0, <2>1, Stays
<1> QED BY <1>1, <1>2, <1>3, <1>4, <1>5, <1>6, <1>7, <1>8, <1>9, <1>10, <1>11, <1>12,
           <1>13, <1>14, <1>15 DEF Next, Agent, Close

(* A log file is full only with its last message, for any number of        *)
(* threads, any lengths and any file size, races of file_log_close or not  *)
(* (uti_logging.c:306, :319).                                              *)
THEOREM FilesAlwaysBounded == Spec => []FilesBounded
<1>1. Init => WriteInv /\ FilesBounded
  BY InitRoom
<1>2. LogInv => BaseInv
  BY DEF LogInv
<1>3. (WriteInv /\ FilesBounded) /\ BaseInv /\ [Next]_vars => (WriteInv /\ FilesBounded)'
  BY RoomStep
<1> QED BY <1>1, <1>2, <1>3, LogInductive, PTL DEF Spec

-----------------------------------------------------------------------------
(* The messages in the files, and those that are on their way to them.     *)

(* The messages of the pieces.                                             *)
Messages(all) == [i \in 1..Len(all) |-> all[i].msg]

LEMMA MessagesMore ==
  ASSUME NEW all \in Seq(Piece), NEW x \in Piece
  PROVE  /\ Messages(all) \in Seq(Msg)
         /\ Messages(Append(all, x)) = Append(Messages(all), x.msg)
<1>1. /\ Len(all) \in Nat /\ Len(Append(all, x)) = Len(all) + 1
      /\ \A i \in 1..Len(all) : Append(all, x)[i] = all[i] /\ all[i].msg \in Msg
      /\ Append(all, x)[Len(all) + 1] = x /\ x.msg \in Msg
  <2>1. \A y \in Piece : y.msg \in Msg
    BY DEF Piece
  <2>2. \A i \in 1..Len(all) : all[i] \in Piece
    OBVIOUS
  <2> QED BY <2>1, <2>2, AppendProperties, LenProperties
<1>2. Messages(all) \in Seq(Msg) /\ Len(Messages(all)) = Len(all)
  BY <1>1 DEF Messages
<1>3. /\ Len(Append(Messages(all), x.msg)) = Len(all) + 1
      /\ \A i \in 1..Len(all) : Append(Messages(all), x.msg)[i] = all[i].msg
      /\ Append(Messages(all), x.msg)[Len(all) + 1] = x.msg
      /\ Append(Messages(all), x.msg) \in Seq(Msg)
  BY <1>1, <1>2 DEF Messages
<1>4. /\ Messages(Append(all, x)) \in Seq(Msg) /\ Len(Messages(Append(all, x))) = Len(all) + 1
      /\ \A i \in 1..Len(all) : Messages(Append(all, x))[i] = all[i].msg
      /\ Messages(Append(all, x))[Len(all) + 1] = x.msg
  <2>1. \A i \in 1..Len(all) + 1 : i \in 1..Len(all) \/ i = Len(all) + 1
    BY <1>1
  <2>2. \A i \in 1..Len(all) + 1 : Append(all, x)[i].msg \in Msg
    BY <1>1, <2>1
  <2> QED BY <1>1, <2>2 DEF Messages
<1>5. \A i \in 1..Len(all) + 1 : Messages(Append(all, x))[i] = Append(Messages(all), x.msg)[i]
  <2>1. \A i \in 1..Len(all) + 1 : i \in 1..Len(all) \/ i = Len(all) + 1
    BY <1>1
  <2> QED BY <1>3, <1>4, <2>1
<1>6. Messages(Append(all, x)) = Append(Messages(all), x.msg)
  <2> DEFINE a == Messages(Append(all, x))
             b == Append(Messages(all), x.msg)
  <2>1. a \in Seq(Msg) /\ b \in Seq(Msg) /\ Len(a) = Len(b) /\ \A i \in 1..Len(a) : a[i] = b[i]
    BY <1>3, <1>4, <1>5
  <2> HIDE DEF a, b
  <2>2. a = b
    BY <2>1, SeqEqual
  <2> QED BY <2>2 DEF a, b
<1> QED BY <1>2, <1>6

LEMMA WrittenType ==
  ASSUME TypeOK
  PROVE  Written \in Seq(Msg)
<1>1. FlattenSeq(files) \in Seq(Piece)
  <2>1. files \in Seq(Seq(Piece)) /\ <<>> \in Seq(Piece)
    BY EmptySeq DEF TypeOK
  <2> QED BY <2>1, FlattenAppend
<1>2. Written = Messages(FlattenSeq(files))
  BY DEF Written, Messages
<1>3. \A i \in 1..Len(FlattenSeq(files)) : FlattenSeq(files)[i].msg \in Msg
  <2>1. \A y \in Piece : y.msg \in Msg
    BY DEF Piece
  <2>2. \A i \in 1..Len(FlattenSeq(files)) : FlattenSeq(files)[i] \in Piece
    BY <1>1
  <2> QED BY <2>1, <2>2
<1> QED BY <1>1, <1>2, <1>3 DEF Messages

(* A new file has no messages yet.                                         *)
LEMMA WrittenOpen ==
  ASSUME TypeOK, files' = WithNewFile
  PROVE  Written' = Written
<1>1. files \in Seq(Seq(Piece)) /\ <<>> \in Seq(Piece)
  BY EmptySeq DEF TypeOK
<1>2. FlattenSeq(files) \in Seq(Piece) /\ FlattenSeq(Append(files, <<>>)) = FlattenSeq(files) \o <<>>
  BY <1>1, FlattenAppend
<1>3. FlattenSeq(files) \o <<>> = FlattenSeq(files)
  BY <1>2, ConcatEmptySeq
<1>4. FlattenSeq(files') = FlattenSeq(files)
  BY <1>2, <1>3 DEF WithNewFile
<1> QED BY <1>4 DEF Written

(* A message is written to the newest file.                                *)
LEMMA WrittenMore ==
  ASSUME TypeOK, Len(files) # 0, NEW x \in Piece,
         files' = [files EXCEPT ![Len(files)] = Append(@, x)]
  PROVE  Written' = Append(Written, x.msg)
<1>1. files \in Seq(Seq(Piece)) /\ <<>> \in Seq(Piece)
  BY EmptySeq DEF TypeOK
<1>2. FlattenSeq(files') = Append(FlattenSeq(files), x)
  BY <1>1, FlattenMore
<1>3. FlattenSeq(files) \in Seq(Piece)
  BY <1>1, FlattenAppend
<1>4. Written = Messages(FlattenSeq(files)) /\ Written' = Messages(FlattenSeq(files'))
  BY DEF Written, Messages
<1> QED BY <1>2, <1>3, <1>4, MessagesMore

-----------------------------------------------------------------------------
(* The log, and the messages on their way to it.                           *)
TheLog == Written \o console

Away == {"idle", "closing", "closed"}
InFile == {"stat", "rotate", "open", "store", "check", "write"}
OnWay == InFile \cup {"lock", "agent"}

MessageOf(t) ==
  /\ msg[t] # NULL => msg[t] \in asked
  /\ pc[t] \in Away => msg[t] = NULL
  /\ pc[t] \in OnWay => msg[t] \notin ToSet(TheLog)
  /\ pc[t] \in InFile => handler = "file"

WayInv ==
  /\ handler = "file" => console = <<>>
  /\ ToSet(TheLog) \subseteq asked
  /\ \A t \in Thread : MessageOf(t)
  /\ \A t, u \in Thread : t # u /\ msg[t] = msg[u] => msg[t] = NULL

LEMMA InitWay == Init => WayInv /\ TheLog = <<>>
<1> SUFFICES ASSUME Init PROVE WayInv /\ TheLog = <<>>
  OBVIOUS
<1>1. FlattenSeq(files) = <<>> /\ console = <<>>
  BY DEF Init, FlattenSeq
<1>2. Written = <<>>
  <2>1. Len(FlattenSeq(files)) = 0
    BY <1>1
  <2> QED BY <2>1 DEF Written
<1>3. TheLog = <<>>
  BY <1>1, <1>2 DEF TheLog
<1>4. ToSet(TheLog) = {}
  BY <1>3 DEF ToSet
<1> QED BY <1>1, <1>3, <1>4 DEF Init, WayInv, MessageOf, OnWay, InFile

(* A step that logs nothing.                                               *)
LEMMA QuietWay ==
  ASSUME TypeOK, WayInv, UNCHANGED <<asked, handler, console, msg>>, Written' = Written,
         NEW t \in Thread, NEW place, Go(t, place),
         place \in InFile => handler = "file",
         place \in Away => msg[t] = NULL,
         place \in OnWay => pc[t] \in OnWay
  PROVE  WayInv' /\ TheLog' = TheLog
<1>1. TheLog' = TheLog
  BY DEF TheLog
<1>2. ToSet(TheLog)' = ToSet(TheLog)
  BY <1>1 DEF ToSet
<1>3. pc'[t] = place /\ \A u \in Thread : u # t => pc'[u] = pc[u]
  BY DEF Go, TypeOK
<1>4. ASSUME NEW u \in Thread PROVE MessageOf(u)'
  <2>1. MessageOf(u)
    BY DEF WayInv
  <2>2. CASE u = t
    BY <1>2, <1>3, <2>1, <2>2 DEF MessageOf
  <2>3. CASE u # t
    BY <1>2, <1>3, <2>1, <2>3 DEF MessageOf
  <2> QED BY <2>2, <2>3
<1> QED BY <1>1, <1>2, <1>4 DEF WayInv

(* m is the next message of the log.                                       *)
Adds(m) ==
  /\ m \in asked /\ m \notin ToSet(TheLog)
  /\ TheLog' = Append(TheLog, m)
  /\ asked' = asked

LEMMA WriteWay ==
  ASSUME TypeOK, WayInv, UNCHANGED <<asked, handler, msg>>,
         NEW t \in Thread, msg[t] \in Msg, pc[t] \in OnWay, Go(t, "unlock"),
         \/ handler = "file" /\ UNCHANGED console /\ Written' = Append(Written, msg[t])
         \/ handler = "default" /\ console' = Append(console, msg[t]) /\ Written' = Written
  PROVE  WayInv' /\ Adds(msg[t])
<1>1. Written \in Seq(Msg) /\ console \in Seq(Msg)
  BY WrittenType DEF TypeOK
<1>2. TheLog' = Append(TheLog, msg[t])
  <2>1. CASE handler = "file" /\ UNCHANGED console /\ Written' = Append(Written, msg[t])
    <3>1. console = <<>>
      BY <2>1 DEF WayInv
    <3>2. /\ Written \o <<>> = Written
          /\ Append(Written, msg[t]) \o <<>> = Append(Written, msg[t])
      <4>1. Append(Written, msg[t]) \in Seq(Msg)
        BY <1>1, AppendProperties
      <4> QED BY <1>1, <4>1, ConcatEmptySeq
    <3> QED BY <2>1, <3>1, <3>2 DEF TheLog
  <2>2. CASE handler = "default" /\ console' = Append(console, msg[t]) /\ Written' = Written
    <3>1. /\ Append(console, msg[t]) = console \o <<msg[t]>>
          /\ Append(Written \o console, msg[t]) = (Written \o console) \o <<msg[t]>>
          /\ (Written \o console) \o <<msg[t]>> = Written \o (console \o <<msg[t]>>)
      <4>1. Written \o console \in Seq(Msg) /\ <<msg[t]>> \in Seq(Msg)
        BY <1>1, ConcatProperties
      <4>2. Append(console, msg[t]) = console \o <<msg[t]>>
        BY <1>1, AppendIsConcat
      <4>3. Append(Written \o console, msg[t]) = (Written \o console) \o <<msg[t]>>
        BY <4>1, AppendIsConcat
      <4>4. (Written \o console) \o <<msg[t]>> = Written \o (console \o <<msg[t]>>)
        BY <1>1, <4>1, ConcatAssociative
      <4> QED BY <4>2, <4>3, <4>4
    <3> QED BY <2>2, <3>1 DEF TheLog
  <2> QED BY <2>1, <2>2
<1>3. ToSet(TheLog)' = ToSet(TheLog) \cup {msg[t]}
  <2>1. TheLog \in Seq(Msg)
    BY <1>1, ConcatProperties DEF TheLog
  <2> HIDE DEF TheLog
  <2>2. /\ DOMAIN TheLog = 1..Len(TheLog) /\ DOMAIN TheLog' = 1..(Len(TheLog) + 1)
        /\ \A i \in 1..Len(TheLog) : TheLog'[i] = TheLog[i]
        /\ TheLog'[Len(TheLog) + 1] = msg[t] /\ Len(TheLog) \in Nat
    BY <1>2, <2>1, AppendProperties, LenProperties
  <2> QED BY <2>2 DEF ToSet
<1>4. MessageOf(t) /\ msg[t] # NULL
  BY LoggingAssumption DEF WayInv
<1>5. Adds(msg[t])
  BY <1>2, <1>4 DEF Adds, MessageOf
<1>6. pc'[t] = "unlock" /\ \A u \in Thread : u # t => pc'[u] = pc[u]
  BY DEF Go, TypeOK
<1>7. ASSUME NEW u \in Thread PROVE MessageOf(u)'
  <2>1. MessageOf(u) /\ (u # t => msg[u] # msg[t])
    BY <1>4 DEF WayInv
  <2>2. CASE u = t
    BY <1>4, <1>6, <2>2 DEF MessageOf, Away, OnWay, InFile
  <2>3. CASE u # t
    BY <1>3, <1>6, <2>1, <2>3 DEF MessageOf
  <2> QED BY <2>2, <2>3
<1>8. ToSet(TheLog)' \subseteq asked'
  BY <1>3, <1>4 DEF WayInv, MessageOf
<1>9. handler' = "file" => console' = <<>>
  BY DEF WayInv
<1>10. \A u, v \in Thread : u # v /\ msg'[u] = msg'[v] => msg'[u] = NULL
  BY DEF WayInv
<1> QED BY <1>5, <1>7, <1>8, <1>9, <1>10 DEF WayInv

LEMMA WayStep ==
  ASSUME BaseInv, WriteInv, WayInv, [Next]_vars
  PROVE  /\ WayInv'
         /\ \/ TheLog' = TheLog /\ asked' = asked
            \/ \E m \in Msg : m \notin asked /\ asked' = asked \cup {m} /\ TheLog' = TheLog
            \/ \E m \in Msg : Adds(m)
<1> DEFINE Result ==
             /\ WayInv'
             /\ \/ TheLog' = TheLog /\ asked' = asked
                \/ \E m \in Msg : m \notin asked /\ asked' = asked \cup {m} /\ TheLog' = TheLog
                \/ \E m \in Msg : Adds(m)
<1>0. TypeOK
  BY DEF BaseInv
<1>1. ASSUME UNCHANGED files PROVE Written' = Written
  BY <1>1 DEF Written
<1> USE DEF trace, threads, history, system
(* A step of t that logs nothing and goes to place.                        *)
<1>2. ASSUME NEW t \in Thread, NEW place,
             UNCHANGED <<asked, handler, console, msg>>, Written' = Written,
             Go(t, place), place \in InFile => handler = "file",
             place \in Away => msg[t] = NULL, place \in OnWay => pc[t] \in OnWay
      PROVE  Result
  <2>1. WayInv' /\ TheLog' = TheLog
    BY <1>0, <1>2, QuietWay
  <2> QED BY <1>2, <2>1
<1>3. \A t \in Thread : MessageOf(t)
  BY DEF WayInv
<1> HIDE DEF Result
<1>4. ASSUME NEW t \in Thread, NEW m \in Msg, log_printf(t, m) PROVE Result
  <2>1. /\ m \notin asked /\ asked' = asked \cup {m} /\ m # NULL
        /\ UNCHANGED <<handler, console, files>>
        /\ pc'[t] = "lock" /\ msg'[t] = m
        /\ \A u \in Thread : u # t => pc'[u] = pc[u] /\ msg'[u] = msg[u]
    BY <1>0, <1>4, LoggingAssumption DEF log_printf, Go, TypeOK
  <2>2. TheLog' = TheLog
    BY <1>1, <2>1 DEF TheLog
  <2>3. ToSet(TheLog)' = ToSet(TheLog) /\ m \notin ToSet(TheLog)
    BY <2>1, <2>2 DEF ToSet, WayInv
  <2>4. ASSUME NEW u \in Thread PROVE MessageOf(u)'
    <3>1. CASE u = t
      BY <2>1, <2>3, <3>1 DEF MessageOf, Away, OnWay, InFile
    <3>2. CASE u # t
      BY <1>3, <2>1, <2>3, <3>2 DEF MessageOf
    <3> QED BY <3>1, <3>2
  <2>5. ASSUME NEW u \in Thread, NEW v \in Thread, u # v, msg'[u] = msg'[v] PROVE msg'[u] = NULL
    <3>1. \A w \in Thread : w # t => msg'[w] # m
      BY <1>3, <2>1 DEF MessageOf
    <3> QED BY <2>1, <2>5, <3>1 DEF WayInv
  <2>6. WayInv'
    BY <2>1, <2>3, <2>4, <2>5 DEF WayInv
  <2> QED BY <2>1, <2>2, <2>6 DEF Result
<1>5. ASSUME NEW t \in Thread, Unlock(t) PROVE Result
  <2>1. /\ UNCHANGED <<asked, handler, console, files>>
        /\ pc'[t] = "idle" /\ msg'[t] = NULL
        /\ \A u \in Thread : u # t => pc'[u] = pc[u] /\ msg'[u] = msg[u]
    BY <1>0, <1>5 DEF Unlock, Go, TypeOK
  <2>2. TheLog' = TheLog
    BY <1>1, <2>1 DEF TheLog
  <2>3. ToSet(TheLog)' = ToSet(TheLog)
    BY <2>2 DEF ToSet
  <2>4. ASSUME NEW u \in Thread PROVE MessageOf(u)'
    <3>1. CASE u = t
      BY <2>1, <2>3, <3>1 DEF MessageOf, Away, OnWay, InFile
    <3>2. CASE u # t
      BY <1>3, <2>1, <2>3, <3>2 DEF MessageOf
    <3> QED BY <3>1, <3>2
  <2>5. WayInv'
    BY <2>1, <2>3, <2>4 DEF WayInv
  <2> QED BY <2>1, <2>2, <2>5 DEF Result
<1>6. ASSUME NEW t \in Thread, Lock(t) PROVE Result
  <2>1. UNCHANGED <<asked, handler, console, msg, files>> /\ Go(t, "agent") /\ pc[t] \in OnWay
    BY <1>6 DEF Lock, OnWay
  <2> QED BY <1>1, <1>2, <2>1 DEF InFile, Away
<1>7. ASSUME NEW t \in Thread, default_log_agent(t) PROVE Result
  <2>1. /\ UNCHANGED <<asked, handler, msg, files>> /\ Go(t, "unlock") /\ pc[t] \in OnWay
        /\ handler = "default" /\ console' = Append(console, msg[t]) /\ msg[t] \in Msg
    BY <1>7 DEF default_log_agent, OnWay, BaseInv, HasMessage, Inside
  <2>2. WayInv' /\ Adds(msg[t])
    BY <1>0, <1>1, <2>1, WriteWay
  <2> QED BY <2>1, <2>2 DEF Result
<1>8. ASSUME NEW t \in Thread, file_log_agent(t) PROVE Result
  <2>1. /\ UNCHANGED <<asked, handler, console, msg, files>> /\ handler = "file" /\ pc[t] \in OnWay
        /\ Go(t, IF fileDesc = NULL THEN "open" ELSE "stat")
    BY <1>8 DEF file_log_agent, OnWay
  <2>2. PICK place \in {"open", "stat"} : Go(t, place)
    BY <2>1
  <2> QED BY <1>1, <1>2, <2>1, <2>2 DEF Away
<1>9. ASSUME NEW t \in Thread, pc[t] \in InFile, NEW place \in InFile \cup {"unlock"}, Go(t, place),
             UNCHANGED <<asked, handler, console, msg>>, Written' = Written
      PROVE  Result
  <2>1. handler = "file" /\ pc[t] \in OnWay
    BY <1>3, <1>9 DEF MessageOf, OnWay
  <2>2. place \notin Away
    BY <1>9 DEF InFile, Away
  <2> QED BY <1>2, <1>9, <2>1, <2>2
<1>10. ASSUME NEW t \in Thread, Stat(t) PROVE Result
  <2>1. UNCHANGED <<asked, handler, console, msg, files>> /\ pc[t] \in InFile
    BY <1>10 DEF Stat, InFile
  <2>2. PICK place \in {"rotate", "write", "unlock"} : Go(t, place)
    BY <1>10 DEF Stat, Go
  <2> QED BY <1>1, <1>9, <2>1, <2>2 DEF InFile
<1>11. ASSUME NEW t \in Thread, Rotate(t) PROVE Result
  <2>1. UNCHANGED <<asked, handler, console, msg, files>> /\ pc[t] \in InFile /\ Go(t, "open")
    BY <1>11 DEF Rotate, InFile
  <2> QED BY <1>1, <1>9, <2>1 DEF InFile
<1>12. ASSUME NEW t \in Thread, Open(t) PROVE Result
  <2>1. UNCHANGED <<asked, handler, console, msg>> /\ pc[t] \in InFile /\ Go(t, "store")
    BY <1>12 DEF Open, InFile
  <2>2. UNCHANGED files \/ files' = WithNewFile
    BY <1>12 DEF Open
  <2>3. Written' = Written
    BY <1>0, <1>1, <2>2, WrittenOpen
  <2> QED BY <1>9, <2>1, <2>3 DEF InFile
<1>13. ASSUME NEW t \in Thread, Store(t) PROVE Result
  <2>1. UNCHANGED <<asked, handler, console, msg, files>> /\ pc[t] \in InFile /\ Go(t, "check")
    BY <1>13 DEF Store, InFile
  <2> QED BY <1>1, <1>9, <2>1 DEF InFile
<1>14. ASSUME NEW t \in Thread, Check(t) PROVE Result
  <2>1. UNCHANGED <<asked, handler, console, msg, files>> /\ pc[t] \in InFile
    BY <1>14 DEF Check, InFile
  <2>2. PICK place \in {"write", "unlock"} : Go(t, place)
    BY <1>14 DEF Check
  <2> QED BY <1>1, <1>9, <2>1, <2>2 DEF InFile
<1>15. ASSUME NEW t \in Thread, Write(t) PROVE Result
  <2>1. /\ UNCHANGED <<asked, handler, console, msg, open>> /\ pc[t] = "write" /\ Go(t, "unlock")
        /\ pc[t] \in InFile /\ pc[t] \in OnWay /\ msg[t] \in Msg
    BY <1>15 DEF Write, InFile, OnWay, BaseInv, HasMessage, Inside
  <2>2. handler = "file"
    BY <1>3, <2>1 DEF MessageOf
  <2>3. CASE UNCHANGED files
    BY <1>1, <1>9, <2>1, <2>3
  <2>4. ASSUME NEW d \in Read(t), NEW n \in 1..Length[msg[t]], IsOpen(d), open[d] # 0,
               files' = [files EXCEPT ![open[d]] = Append(@, [msg |-> msg[t], size |-> n])]
        PROVE  Result
    <3> DEFINE piece == [msg |-> msg[t], size |-> n]
    <3>1. piece \in Piece /\ piece.msg = msg[t]
      BY <2>1, LoggingAssumption DEF Piece
    <3>2. d \in Fd /\ open[d] \in 1..Len(files)
      BY <1>0, <2>4, ReadsDescriptor DEF IsOpen, TypeOK
    <3>3. fileDesc \in {NULL, reg[t]} /\ Newest(reg[t])
      BY <2>1 DEF WriteInv, WritesOf
    <3>4. open[d] = Len(files)
      <4>1. d = reg[t]
        BY <2>4, <3>3 DEF Read, IsOpen
      <4> QED BY <3>2, <3>3, <4>1 DEF Newest
    <3>5. Len(files) # 0 /\ files' = [files EXCEPT ![Len(files)] = Append(@, piece)]
      BY <2>4, <3>2, <3>4
    <3> HIDE DEF piece
    <3>6. Written' = Append(Written, piece.msg)
      BY <1>0, <3>1, <3>5, WrittenMore
    <3>7. WayInv' /\ Adds(msg[t])
      BY <1>0, <2>1, <2>2, <3>1, <3>6, WriteWay
    <3> QED BY <2>1, <3>7 DEF Result
  <2> QED BY <1>15, <2>3, <2>4 DEF Write
<1>16. ASSUME NEW t \in Thread, Close(t) PROVE Result
  <2>1. /\ UNCHANGED <<asked, handler, console, msg, files>> /\ pc[t] \in Away
        /\ \E place \in Away : Go(t, place)
    BY <1>16 DEF Close, file_log_close, CloseFile, Invalidate, Away
  <2>2. msg[t] = NULL
    BY <1>3, <2>1 DEF MessageOf
  <2>3. PICK place \in Away : Go(t, place)
    BY <2>1
  <2>4. place \notin InFile /\ place \notin OnWay
    BY DEF Away, InFile, OnWay
  <2> QED BY <1>1, <1>2, <2>1, <2>2, <2>3, <2>4
<1>17. ASSUME UNCHANGED <<asked, handler, console, msg, files, pc>> PROVE Result
  <2>1. TheLog' = TheLog
    BY <1>1, <1>17 DEF TheLog
  <2>2. ToSet(TheLog)' = ToSet(TheLog)
    BY <2>1 DEF ToSet
  <2>3. WayInv'
    BY <1>17, <2>2 DEF WayInv, MessageOf
  <2> QED BY <1>17, <2>1, <2>3 DEF Result
<1>18. ASSUME NEW d \in Fd, OtherCode(d) PROVE Result
  BY <1>17, <1>18 DEF OtherCode
<1>19. ASSUME UNCHANGED vars PROVE Result
  <2>1. UNCHANGED <<asked, handler, console, msg, files, pc>>
    BY <1>19 DEF vars
  <2> QED BY <1>17, <2>1
<1>20. Result
  <2>1. ASSUME NEW t \in Thread, Agent(t) PROVE Result
    BY <1>5, <1>7, <1>8, <1>10, <1>11, <1>12, <1>13, <1>14, <1>15, <2>1 DEF Agent
  <2>2. Next \/ UNCHANGED vars
    OBVIOUS
  <2> QED BY <1>4, <1>6, <1>16, <1>18, <1>19, <2>1, <2>2 DEF Next
<1> QED BY <1>20 DEF Result

(* The log files, or the console, are a log of the messages asked for, in  *)
(* the order in which they are written and each of them once, whatever     *)
(* threads, rotations and closes do (uti_logging.c:201-208, :280-319).     *)
THEOREM LoggingImplementsLog == Spec => LogSpec
<1>1. Init => (WriteInv /\ FilesBounded /\ WayInv) /\ Log!Init
  BY InitRoom, InitWay DEF TheLog, Log!Init, Init
<1>2. LogInv => BaseInv
  BY DEF LogInv
<1>3. (WriteInv /\ FilesBounded /\ WayInv) /\ BaseInv /\ [Next]_vars
        => (WriteInv /\ FilesBounded /\ WayInv)'
  BY RoomStep, WayStep
<1>4. (WriteInv /\ FilesBounded /\ WayInv) /\ BaseInv /\ [Next]_vars
        => [Log!Next]_<<asked, Written \o console>>
  <2> SUFFICES ASSUME WriteInv, WayInv, BaseInv, [Next]_vars
               PROVE  [Log!Next]_<<asked, Written \o console>>
    OBVIOUS
  <2>1. CASE TheLog' = TheLog /\ asked' = asked
    BY <2>1 DEF TheLog
  <2>2. ASSUME NEW m \in Msg, m \notin asked, asked' = asked \cup {m}, TheLog' = TheLog
        PROVE  Log!Next
    <3>1. Log!Ask(m)
      BY <2>2 DEF TheLog, Log!Ask
    <3> QED BY <3>1 DEF Log!Next
  <2>3. ASSUME NEW m \in Msg, Adds(m) PROVE Log!Next
    <3>1. /\ m \in asked /\ m \notin ToSet(Written \o console) /\ asked' = asked
          /\ (Written \o console)' = Append(Written \o console, m)
      BY <2>3, Zenon DEF TheLog, Adds
    <3>2. Log!Write(m)
      BY <3>1, Zenon DEF Log!Write, Log!ToSet, ToSet
    <3> QED BY <3>2 DEF Log!Next
  <2> QED BY <2>1, <2>2, <2>3, WayStep
<1> QED BY <1>1, <1>2, <1>3, <1>4, LogInductive, PTL DEF Spec, LogSpec, Log!Spec

=============================================================================
